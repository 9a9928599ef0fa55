CONSTANTS
  Disks = {"a", "b"}
  Boot = "b"
  Protected = {}
  Machines <- MCMachines
  Tables <- MCTables
SPECIFICATION Spec
INVARIANTS RowsNameTheTable ViewFresh ReadOnlyKept
PROPERTIES NothingLostUnasked OneKeyNeverWrites WipeSeesDisk RescanKeepsDisk
