SPECIFICATION PassesSpec
CONSTANTS
  Registers = {"rax", "rbx", "rsp"}
  SP = "rsp"
  FLAGS = "flags"
  MEMORY_REG = "memory"
  Candidates <- MCCandidates
  TooBig = 100
  Bodies <- MCBodies
  Start = 100
  Word = 8192
  Known = {"exit"}
  Others = {"read"}
  Error = "error"
  None = "none"
  Programs <- MCPrograms
INVARIANTS
  SameDataFlow BackPointersRight BlockSizeKept PromotesJustEnough
  NeverReturnsIsTrueInside GraphsAnalysed
PROPERTIES
  PassesEnd
CHECK_DEADLOCK FALSE
