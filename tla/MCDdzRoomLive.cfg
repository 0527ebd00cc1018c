CONSTANTS
  p1 = p1
  p2 = p2
  p3 = p3
  Players <- MCPlayers
  None = None
  HandCards = 1
  BottomCards = 1
  MaxRedeals = 0
  JiabeiReplies = {0}
  Plays <- MCPlays
  MaxBeishu = 1
SPECIFICATION FairSpec
PROPERTIES
  RoundGoesOn
