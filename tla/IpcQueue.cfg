SPECIFICATION Spec
CONSTANTS
  Procs = {p1, p2, p3}
  Msgs = {m1, m2}
  MAX_QUEUE_DEPTH = 2
  MaxCloses = 1
  MaxPins = 0
  NoMsg = NoMsg
SYMMETRY Symmetry
INVARIANTS
  QueueConsistent
  QueueOutlivesCalls
  WakeupPending
PROPERTY ImplementsFifo
