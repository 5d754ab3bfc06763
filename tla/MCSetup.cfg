SPECIFICATION Spec
CONSTANTS
  Settings <- SettingsSet
  Rates = {"low", "high"}
  Modes = {"slow", "fast", "manual", "hybrid"}
  Cuts = {0, 5, 15, 40}
  MaxCalls = 3
  MaxFaults = 1
INVARIANTS
  NothingIsWiped
  TimingFollowsTheClocks
  OnlyTheChangedChannelPauses
  DriverKnowsTheModes
CHECK_DEADLOCK FALSE
