CONSTANTS
  f = f
  b1 = b1
  b2 = b2
  b3 = b3
  i1 = i1
  i2 = i2
  i3 = i3
  NULL = NULL
  Function = f
  Blocks = {b1, b2}
  Instrs = {i1, i2, i3}
  InitialBlock = b1
  MaxSize = 2
  Bases = {100, 200}
  MaxList = 2
  MaxCalls = 3
  NullPoints = {}
SPECIFICATION ModesSpec
CHECK_DEADLOCK FALSE
INVARIANTS
  AddressIntegrity
