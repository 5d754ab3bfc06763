SPECIFICATION Spec
CONSTANTS
  Settings <- SettingsSet
  Bandwidths <- BandwidthsSet
  Convergent <- ConvergentSets
  MaxSpiFaults = 1
  MaxTimeouts = 1
PROPERTY RunsAfterSuccess
