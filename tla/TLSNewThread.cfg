SPECIFICATION BootSpec
CONSTANTS
  Functions <- MCFunctions
  PLTs <- MCPLTs
  Labels <- MCLabels
  NULL = "null"
  Order <- MCOrder
  Programs <- MCPrograms
  JumpTables <- MCJumpTables
  Target <- MCTarget
  IFuncs <- MCIFuncs
  Exempt = {"abort"}
  Hooks <- MCHooks
  Wanted <- MCWanted
  Pointers <- MCPointers
  Starts <- MCStarts
  TableSize = 9
  Files <- MCFiles
  Main = "(executable)"
  Egalito = "(egalito)"
  Pthread = "libpthread.so.0"
  NotLoaded = {"ld.so"}
  Missing = {"libz.so.1"}
  Needs <- MCNeeds
  TLSSizes <- MCTLSSizes
  HeaderSize = 3
  Align = 4
INVARIANT ThreadFindsItsTLS
CHECK_DEADLOCK FALSE
