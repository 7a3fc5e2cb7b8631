SPECIFICATION SelectionSpec
CONSTANTS
  NoText = NoText
  Includes <- Same
  Begins = {}
  Ends = {}
  Timestamps = {1, 2}
  Logs <- Logs2
  Conds <- ByType
  Readable <- Logs2
  Many = 2
  MaxStored = 3
INVARIANTS SelectsWhere
CHECK_DEADLOCK FALSE
