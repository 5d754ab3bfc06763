SPECIFICATION Spec
CONSTANTS
  RateStep = 240000
  RateOffsets = {0, 1}
  LnaDelays = {0, 4000}
  UpdateIntervals = {100, 1000}
INVARIANTS
  MakesTheRateUnlessRxRunsAhead
  DividersCanMakeIt
  HighestGovernorOversamplesMost
  UpdatesNeverReject
  GainTimingFits
  RssiWeighsTheWholeDuration
CHECK_DEADLOCK FALSE
