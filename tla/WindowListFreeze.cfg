SPECIFICATION FairSpec
CONSTANTS
  Clients = {c1}
  Demo = 1
  MaxWindow = 2
PROPERTY FramesContinue
CHECK_DEADLOCK FALSE
