SPECIFICATION Spec
CONSTANTS
  Procs = {p1, p2}
  Objs = {o1, o2}
  MAX_IPC_OBJECTS = 3
  MaxCloses = 1
  MaxPins = 1
  NULL = NULL
INVARIANT CloseReleases
CHECK_DEADLOCK FALSE
