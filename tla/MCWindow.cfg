SPECIFICATION Spec
CONSTANTS
  FieldBytes = 5
  FieldColumns = 2
  ListCells = 4
  BarCells = 4
  DiskBlocks = 8
  LeastSpan = 1
  BodyCells = 3
  MenuCells = 2
  ArrowCells = 2
  Setups <- MCSetups
INVARIANTS
  ScreenTrue
  SelectedInView
  FieldWhole
PROPERTY
  ClickTakesShown
\* Esc ends partmgr
CHECK_DEADLOCK FALSE
