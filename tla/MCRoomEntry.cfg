CONSTANTS
  p1 = p1
  p2 = p2
  r1 = r1
  Players <- TwoPlayers
  Rooms <- OneRoom
  None = None
  Size = 2
  QueueCap = 2
  StopAt = 1
  DEBUG = FALSE
  HalfOpen = {p2}
  Hurried = {p1}
SPECIFICATION FairSpec
INVARIANTS
  SeatsInv
  RoundIsReachable
PROPERTIES
  LeavesAfterSeat
  GameGetsFree
\* enterRoom may stop with a full queue, and then everything stops.
CHECK_DEADLOCK FALSE
