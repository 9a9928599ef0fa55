CONSTANTS
  NBlocks = 5
  Chunk = 2
  Ranges <- MCRanges
  Mice = {m}
  Attached <- MCAttached
  KeysBound = 2
SPECIFICATION ScreenSpec
INVARIANTS TypeOK WipedIsEmpty RandomFirst
PROPERTIES NeighboursKept Ends OnePressOneClick
