CONSTANTS
  f = f
  b1 = b1
  b2 = b2
  b3 = b3
  i1 = i1
  i2 = i2
  i3 = i3
  i4 = i4
  NULL = NULL
  Function = f
  Blocks = {b1, b2, b3}
  Instrs = {i1, i2, i3, i4}
  Mode = "OFFSET"
  InitialBlock = b1
  InitialCode <- MCInitialCode
  InstrSize <- MCInstrSize
  MaxSize = 2
  Bases = {100, 200}
  MaxList = 2
  MaxCalls = 3
  FirstGoes = TRUE
  NullPoints = {}
  Assigning = TRUE
SYMMETRY MCSymmetry
SPECIFICATION Spec
CHECK_DEADLOCK FALSE
INVARIANTS
  LinkIntegrity
  StreamAsAsked
  JumpsLand
  OwnerIntegrity
PROPERTIES
  EditsCode
