SPECIFICATION SceneSpec
CONSTANTS
  Conns = {c1, c2}
  First = c1
  Window = 2
  Pool = 2
  Rough = TRUE
INVARIANTS
  CountsRight
PROPERTIES
  ReplyArrives
  DeadRemoved
CHECK_DEADLOCK FALSE
