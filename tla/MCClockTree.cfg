SPECIFICATION Spec
CONSTANTS
  SampleRates <- MCRates
  FirFactors = {1, 2}
  FirTaps = {128}
  Mode <- MCMode
  InitRx <- DefaultRx
  InitTx <- DefaultTx
  SweepRates <- TuneSweep
  BbRef = 40000000
  RefUnit = 2560
  MaxFaults = 1
INVARIANTS
  AdcCacheTellsTheTruth
  ReportsWhatWasSet
  FirFieldsFollowTheFlags
PROPERTIES
  NoHalfwayRejection
