CONSTANTS
  p1 = p1
  p2 = p2
  s1 = s1
  Nobody = Nobody
  Players <- MCPlayers
  Savers <- MCSavers
  MaxVersion <- MCMaxVersion
  MaxFaults = 1
SPECIFICATION FairSpec
INVARIANTS
  ChangesKept
  ToldTruth
  FinalSaveIsComplete
PROPERTIES
  WriterServes
  ChangesWritten
CHECK_DEADLOCK FALSE
