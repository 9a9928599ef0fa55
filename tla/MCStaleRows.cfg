CONSTANTS
  Disks = {"a", "b"}
  Boot = "b"
  Protected = {}
  Machines <- MCMachines
  Tables <- MCTables
SPECIFICATION Spec
INVARIANT NoRowsWithoutTable
