SPECIFICATION Spec
CONSTANTS
  NBlocks = 12
  ArrBlocks = 2
  MaxRecords = 4
  Names = {"unnamed"}
  Disks <- MCDisks
  Tables <- MCTables
INVARIANTS
  PrimariesAtOnce
  LogicalsApart
PROPERTIES
  OldOrNew
  DataKept
  Repaired
  NoOldGpt
