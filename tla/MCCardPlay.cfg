CONSTANTS
  Deals <- MCDeals
  MaxRepeated = 3
SPECIFICATION Spec
INVARIANTS
  PlayInv
  HintIsAccepted
  NoAnswerToAirplanes
PROPERTIES
  FairSettlement
CHECK_DEADLOCK FALSE
