SPECIFICATION Spec
CONSTANTS
  Trees <- MCPrograms
  Beyond <- MCBeyond
INVARIANTS
  ChildrenByID FunctionAfterItsCode
CHECK_DEADLOCK FALSE
