SPECIFICATION Spec
CONSTANTS
  NBlocks = 12
  ArrBlocks = 2
  MaxRecords = 4
  Names = {"unnamed"}
  Disks <- MCForeignDisk
  Tables <- MCForeignTables
PROPERTY WrittenIsRead
