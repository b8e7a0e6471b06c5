CONSTANTS
  main = main
  child = child
  f = f
  g = g
  l = l
  Nobody = Nobody
SPECIFICATION JitSpec
INVARIANTS
  ExecutesRightCode
  TableLive
  NoStaleCopy
  BorrowsOnlyFromWaiter
PROPERTIES
  CreateReturns
  RuntimeEnds
