SPECIFICATION SceneSpec
CONSTANTS
  Clients = {c1, c2}
  Quiet = {c2}
  Demo = 1
  MaxWindow = 2
  Positions = {0, 1}
  Sizes = {4, 6}
  Screen = 9
  Duration = 2
  Orderly = TRUE
INVARIANTS
  WindowsSound
  FrameComplete
  RestoredFits
PROPERTIES
  FocusGivenUp
  PacketServed
  AnimationEnds
CHECK_DEADLOCK FALSE
