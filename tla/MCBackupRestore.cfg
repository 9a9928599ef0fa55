SPECIFICATION Spec
CONSTANTS
  NBlocks = 10
  ArrBlocks = 2
  MaxRecords = 4
  Names = {"unnamed"}
  Disks <- MCDisks
PROPERTIES
  Restored
  ByteForByte
  GptCleared
  RestoreKeepsData
