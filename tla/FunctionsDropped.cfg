SPECIFICATION DisassemblySpec
CONSTANTS
  Binaries <- MCBinaries
  Nowhere <- MCNowhere
  Length = 5
  MaxHeld = 3
INVARIANT ShrinkingKeepsCode
CHECK_DEADLOCK FALSE
