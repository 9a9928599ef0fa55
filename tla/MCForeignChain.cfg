SPECIFICATION Spec
CONSTANTS
  NBlocks = 9
  Align = 2
  MbrLimit = 7
  ChsLimit = 6
  ArrBlocks = 1
  MaxEntries = 2
  MaxSpans = 8
  Starts = {0, 1, 2, 3, 4, 5, 6, 7, 8}
  Sizes = {0, 1, 3}
  Types = {0, 7, 15}
  Names = {"unnamed", "n"}
  ReadTables <- MCOutOfOrder
INVARIANT RecordsOutside
