SPECIFICATION Spec
CONSTANTS
  LOs <- MCLOs
  Made <- MCMade
  Band <- MCBand
  Tunable <- MCTunable
  StartRx = 1250
  StartTx = 1250
  Threshold = 100
  Shared = TRUE
  MaxSpiFaults = 0
  MaxTimeouts = 1
PROPERTIES
  OkMeansLocked
