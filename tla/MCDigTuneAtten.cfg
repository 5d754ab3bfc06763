SPECIFICATION Spec
CONSTANTS
  Configs <- OnlyDefault
  Attens = {120}
  StartAtten = 40
  MaxAsks = 1
  MaxFaults = 0
INVARIANTS
  AttenuationIsWhatWasAsked
CHECK_DEADLOCK FALSE
