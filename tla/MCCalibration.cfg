SPECIFICATION Spec
CONSTANTS
  Settings <- SettingsSet
  Bandwidths <- BandwidthsSet
  Convergent <- ConvergentSets
  MaxSpiFaults = 1
  MaxTimeouts = 1
INVARIANTS
  TypeOK
  TonesMeetAndFit
  ConvergesIfAnyPhaseDoes
  SearchPicksTheWidestMargin
  BorrowedIsGivenBack
  PinsCannotDisturb
PROPERTIES
  PinsRuleAgain
  GivesBack
  CallsEnd
