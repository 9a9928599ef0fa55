SPECIFICATION Spec
CONSTANTS
  NBlocks = 9
  Align = 2
  MbrLimit = 8
  ChsLimit = 6
  ArrBlocks = 1
  MaxRecords = 3
  MaxEntries = 3
  MaxSpans = 8
  Starts = {1, 3, 4, 6, 8}
  Sizes = {1, 2}
  Types = {7, 238}
  Names = {"unnamed", "n"}
  ReadTables <- MCReadTables
  MaxNum = 255
  Kilo = 2
  Kept = 10
  StartTexts = {}
  SizeTexts = {}
INVARIANT WriteReadBack
