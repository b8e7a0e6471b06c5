SPECIFICATION OutputSpec
CONSTANTS
  Modules <- MCModules
  Sizes <- MCSizes
  OldAddresses <- MCOld
  Orders <- MCOrders
  Base = 4
  Capacity = 14
  Alignment = 2
  Programs <- MCPrograms
  PageSize = 64
  LoadBase = 1024
  DynBase = 2048
  GotBase = 4096
  PltBase = 4608
  TextBase = 8192
  TextSize = 128
  NBuckets = 2
  Hash <- MCHash
INVARIANTS
  SlotsDisjoint CodeInPlace
  SectionsMapped HeadersAgree CallsReachTheirSymbol DataRelocated ExportsFound
  InitFunctionsRun SymbolsInTheirSection
CHECK_DEADLOCK FALSE
