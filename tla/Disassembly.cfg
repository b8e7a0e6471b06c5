SPECIFICATION DisassemblySpec
CONSTANTS
  Binaries <- MCBinaries
  Nowhere <- MCNowhere
  Length = 5
  MaxHeld = 3
INVARIANTS
  FunctionsDisjoint KnownFunctionsKept CodeIsKept TreeIsABag
CHECK_DEADLOCK FALSE
