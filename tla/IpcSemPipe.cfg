SPECIFICATION TypedSpec
CONSTANTS
  Procs = {p1, p2, p3}
  MaxCloses = 1
  MaxPins = 0
  Initial = 2
  MaxVal = 3
  Ops <- MCOps
  IntMax = 7
  MaxHeld = 2
  Sizes = {0, 2, 3}
  Lengths = {1, 2, 4}
  MaxWritten = 7
  Quiet = {p3}
INVARIANTS
  SemAccounts
  PipeContents
PROPERTIES
  NoLostWakeup
  DeliveredForward
