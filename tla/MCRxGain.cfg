SPECIFICATION Spec
CONSTANTS
  Los <- MCLos
  Gains <- MCGains
  Tables <- AllTables
  NoTable = NoTable
  LastEntry <- MCLastEntry
  AbsGain <- MCAbsGain
  QuadEntries <- MCQuadEntries
  TableFor <- MCTableFor
  FailAt = {0, 37}
  MaxFaults = 1
INVARIANTS
  QuadEntryIsInTheChip
  TableIsInTheChip
  GainIsKept
  RowFitsTheVco
