SPECIFICATION Spec
CONSTANTS
  Procs = {p1, p2}
  Objs = {o1, o2, o3, o4}
  MAX_IPC_OBJECTS = 4
  MaxCloses = 2
  MaxPins = 1
  NULL = NULL
SYMMETRY Symmetry
INVARIANTS
  TableConsistent
  EnospcOnlyWhenFull
  RefcountsRight
  NoUseAfterFree
PROPERTY ImplementsObject
CHECK_DEADLOCK FALSE
