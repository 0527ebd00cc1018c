CONSTANTS
  p1 = p1
  p2 = p2
  r1 = r1
  Players <- TwoPlayers
  Rooms <- OneRoom
  None = None
  Size = 1
  QueueCap = 3
  StopAt = 2
  DEBUG = TRUE
  HalfOpen = {}
  Hurried = {}
SPECIFICATION FairSpec
PROPERTIES
  QueueIsServed
CHECK_DEADLOCK FALSE
