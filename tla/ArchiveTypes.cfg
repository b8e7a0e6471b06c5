SPECIFICATION Spec
CONSTANTS
  Trees <- MCPrograms
  Beyond <- MCBeyond
INVARIANTS
  InstancesTyped
CHECK_DEADLOCK FALSE
