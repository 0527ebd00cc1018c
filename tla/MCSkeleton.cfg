CONSTANTS
  c1 = c1
  c2 = c2
  s1 = s1
  t1 = t1
  t2 = t2
  Calls <- MCCalls
  Unregistered = {}
  Callers <- MCCallers
  Posts = {}
  Tasks <- MCTasks
  Linear <- MCTasks
  AsynCap = 1
  CallCap = 1
  GoCap = 1
SPECIFICATION FairSpec
INVARIANTS
  AnswerOnce
  LinearInOrder
  ClosedIsQuiet
PROPERTIES
  KeepsPromise
  WorkReturns
  PeersReleased
CHECK_DEADLOCK FALSE
