SPECIFICATION Spec
CONSTANTS
  SampleRates <- MCRates
  FirFactors = {1}
  FirTaps = {128}
  Mode <- MCMode
  InitRx <- DefaultRx
  InitTx <- DefaultTx
  SweepRates <- NoSweep
  BbRef = 40000000
  RefUnit = 2560
  MaxFaults = 0
INVARIANTS
  CacheTellsTheTruth
