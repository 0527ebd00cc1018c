CONSTANTS
  w1 = w1
  t1 = t1
  t2 = t2
  Ws <- MCWs
  Tcp <- MCTcp
  MaxConnNum = 1
  ChanCap = 1
  MaxMsgs <- MCMsgs
SPECIFICATION Spec
INVARIANTS
  ServerInv
  GameHearsAll
  OfflineReported
  NobodyBlocks
PROPERTIES
  KeepsAgentLife
CHECK_DEADLOCK FALSE
