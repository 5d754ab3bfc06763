SPECIFICATION Spec
CHECK_DEADLOCK FALSE
CONSTANTS
  Configs <- MCConfigs
  Attens = {120}
  StartAtten = 40
  MaxAsks = 1
  MaxFaults = 1
INVARIANTS
  TypeOK
  PnOnlyWhileMuted
  TuningGivesBack
  NoHalfSweptDelays
  DelaysBackWithFirsOff
PROPERTIES
  TuningKeepsAttenuation
