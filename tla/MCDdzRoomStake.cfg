CONSTANTS
  p1 = p1
  p2 = p2
  p3 = p3
  Players <- MCPlayers
  None = None
  HandCards = 2
  BottomCards = 1
  MaxRedeals = 2
  JiabeiReplies = {0}
  Plays <- MCPlays
  MaxBeishu = 2
SYMMETRY Symmetry
SPECIFICATION Spec
INVARIANT
  RoundStartsAtSingleStake
