SPECIFICATION Spec
CONSTANTS
  Conns = {c1}
  Window = 2
  Pool = 2
  Rough = FALSE
INVARIANT MessageProcessed
CHECK_DEADLOCK FALSE
