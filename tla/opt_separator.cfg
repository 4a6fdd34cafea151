CONSTANTS
  CommandLines <- MCCommandLines
  Kernels <- MCKernels
  Backends <- MCBackends
  MaxInits = 3
  NewerMinor = 99
SPECIFICATION Spec
CHECK_DEADLOCK FALSE
INVARIANTS
  SeparatorRemoved
