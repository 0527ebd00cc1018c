CONSTANTS
  a = a
  b = b
  c = c
  NoKey = NoKey
  Cycle <- MCCycle
SPECIFICATION FairSpec

  
PROPERTIES
  PhaseEnds
