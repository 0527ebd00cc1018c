------------------------------ MODULE CardPlay ------------------------------
(***************************************************************************)
(* The play of one round of the landlord game with its real cards: which   *)
(* plays on_game_action_chupai of game.lua accepts, what the script would  *)
(* play for the seat (which it works out on every play), and how game_over *)
(* settles the gold.  Phases, turns and timers are DdzRoom's; there a play *)
(* is only a number of cards, here the turn goes round and nothing else.   *)
(*                                                                         *)
(* A round is followed from a point where a seat leads: Deals gives the    *)
(* hands, how often each seat has played, and the stakes so far.           *)
(***************************************************************************)
EXTENDS Pokers

CONSTANTS
  Deals,         (* BOUND: the positions from which a round is followed    *)
  MaxRepeated    (* BOUND: cards in a hand of which a packet repeats one   *)

Seat  == 1..3

(* Gold may be below zero after an earlier round; multipliers are not.     *)
Stakes == [landlord : Seat, jiabei : [Seat -> Int], mingpai : Nat \ {0},
           bottom : Nat \ {0}, beishu : Nat \ {0}]
ASSUME DealsAssumption ==
  \A d \in Deals : d.gold \in [Seat -> Int] /\ d.turn \in Seat /\ d.stake \in Stakes
ASSUME RepeatedAssumption == MaxRepeated \in Nat

Rules == INSTANCE PokersRules

VARIABLES
  hand,          (* seat.hand_seq: a bag of points                         *)
  chued_count,   (* seat.chued_count: plays made                           *)
  gold,          (* seat.player.gold                                       *)
  curr_turn,     (* room.curr_turn; 0 when the round is over               *)
  banker_seat,   (* who made the play to be beaten, 0 before the first     *)
  last_chu,      (* the banker's last_chu: type, point and #pokers         *)
  on_table,      (* the banker's last_chu.pokers                           *)
  stake          (* landlord, jiabei, mingpai, beishu and the factor of    *)
                 (* the bottom cards                                       *)

vars == <<hand, chued_count, gold, curr_turn, banker_seat, last_chu,
          on_table, stake>>

Nothing == [type |-> "error", point |-> 0, count |-> 0]

Init ==
  \E d \in Deals :
    /\ hand = d.hand /\ chued_count = d.chued /\ gold = d.gold
    /\ curr_turn = d.turn
    /\ banker_seat = IF d.chued = [s \in Seat |-> 0] THEN 0 ELSE d.turn
    /\ last_chu = Nothing /\ on_table = NoCards
    /\ stake = d.stake

NextSeat(s) == (s % 3) + 1
Leads       == banker_seat \in {0, curr_turn}
ToBeat      == IF Leads THEN Nothing ELSE last_chu

-----------------------------------------------------------------------------
(* The checks of on_game_action_chupai.                                    *)

Higher(kind, count) ==
  /\ \/ kind.type = "bomb" /\ last_chu.type # "bomb"
     \/ kind.type = last_chu.type /\ kind.point > last_chu.point
  /\ kind.type = "bomb" \/ count = last_chu.count

KindOf(cards) == PokersTypeCheck(cards, ToBeat.type, ToBeat.count)

Accepts(cards) ==
  /\ KindOf(cards).type # "error"
  /\ Leads \/ Higher(KindOf(cards), BagCardinality(cards))

-----------------------------------------------------------------------------
(* game_over: the stakes and the change of each seat's gold.               *)

Double(reply)   == CASE reply = 1 -> 2 [] reply = 2 -> 4 [] OTHER -> 1
Landlord        == stake.landlord
Farmers         == Seat \ {Landlord}
FirstFarmer     == IF Landlord = 1 THEN 2 ELSE 1
SecondFarmer    == IF Landlord = 3 THEN 2 ELSE 3

(* Spring: the losers have not played (the landlord not twice); many cards *)
(* left in a loser's hand count as well.                                   *)
RoundFactor(s, h) ==
  LET losers   == IF s = Landlord THEN Farmers ELSE {Landlord}
      chuntian == \A t \in losers : chued_count[t] <= IF s = Landlord THEN 0 ELSE 1
      remain   == Min({BagCardinality(h[t]) : t \in losers})
  IN  (IF chuntian THEN 2 ELSE 1)
        * (IF remain > 12 THEN 3 ELSE IF remain > 6 THEN 2 ELSE 1)

SeatBeishu(beishu) ==
  LET Farmer(f) == beishu * Double(stake.jiabei[Landlord]) * Double(stake.jiabei[f])
  IN  [t \in Seat |-> IF t = Landlord
                      THEN Farmer(FirstFarmer) + Farmer(SecondFarmer)
                      ELSE Farmer(t)]

(* A farmer loses what it has at most, and the landlord wins what they     *)
(* lose.  MUTANT: nobody looks at the farmer's gold.                       *)
LandlordWinsUncapped(b) ==
  [t \in Seat |-> IF t = Landlord THEN b[FirstFarmer] + b[SecondFarmer] ELSE -b[t]]

LandlordWins(b) ==
  LET Loss(f) == IF gold[f] < b[f] THEN gold[f] ELSE b[f]
  IN  [t \in Seat |-> IF t = Landlord THEN Loss(FirstFarmer) + Loss(SecondFarmer)
                      ELSE -Loss(t)]

(* The landlord loses its whole stake, more than it has perhaps: the       *)
(* shares worked out again from it are the shares they were.               *)
FarmersWin(b) ==
  LET due      == b[FirstFarmer] + b[SecondFarmer]
      Share(f) == IF gold[Landlord] < due THEN (b[f] * b[Landlord]) \div b[Landlord]
                                          ELSE b[f]
  IN  [t \in Seat |-> IF t = Landlord THEN -b[t] ELSE Share(t)]

GoldChange(s, h, beishu) ==
  LET b == SeatBeishu(beishu * stake.bottom * RoundFactor(s, h) * stake.mingpai)
  IN  IF s = Landlord THEN LandlordWins(b) ELSE FarmersWin(b)

-----------------------------------------------------------------------------
(* A player's answer: a pass, a play that names each card once, the play   *)
(* of the last cards, and a play that names a card twice.                  *)

Pass(s) ==
  /\ curr_turn = s /\ banker_seat \notin {0, s}
  /\ curr_turn' = NextSeat(s)
  /\ UNCHANGED <<hand, chued_count, gold, banker_seat, last_chu, on_table, stake>>

Beishu(kind) == IF kind.type = "bomb" THEN 2 * stake.beishu ELSE stake.beishu

Put(s, cards) ==
  LET kind == KindOf(cards) IN
  /\ curr_turn = s
  /\ Accepts(cards)
  /\ hand' = [hand EXCEPT ![s] = @ (-) cards]
  /\ chued_count' = [chued_count EXCEPT ![s] = @ + 1]
  /\ banker_seat' = s
  /\ last_chu' = [type |-> kind.type, point |-> kind.point,
                  count |-> BagCardinality(cards)]
  /\ on_table' = cards
  /\ stake' = [stake EXCEPT !.beishu = Beishu(kind)]

Play(s, cards) ==
  /\ Put(s, cards)
  /\ cards # hand[s]
  /\ curr_turn' = NextSeat(s)
  /\ UNCHANGED gold

PlayLast(s, cards) ==
  /\ Put(s, cards)
  /\ cards = hand[s]
  /\ curr_turn' = 0
  /\ LET change == GoldChange(s, hand', stake'.beishu)
     IN  gold' = [t \in Seat |-> gold[t] + change[t]]

Parts(cards) == SubBag(cards) \ {NoCards}

(* What the two tests of the hand let through: no more cards than the hand *)
(* has, each of them somewhere in it, however often it is named.           *)
Named(held) ==
  LET n == BagCardinality(held)
  IN  {cards \in UNION {[points -> 1..n] : points \in SUBSET DOMAIN held \ {{}}} :
         BagCardinality(cards) <= n}

(* The cards named before the first repetition are gone from the hand when *)
(* the repeated one is not found there; the assertion that fails leaves    *)
(* the count of plays one higher and everything else as it was.  Which of  *)
(* the cards come first depends on their suits.                            *)
BreakOff(s) ==
  /\ curr_turn = s
  /\ BagCardinality(hand[s]) <= MaxRepeated
  /\ \E named \in Named(hand[s]), gone \in Parts(hand[s]) :
       /\ gone \sqsubseteq named
       /\ \E p \in DOMAIN gone : gone[p] < named[p]
       /\ Accepts(named)
       /\ hand' = [hand EXCEPT ![s] = @ (-) gone]
  /\ chued_count' = [chued_count EXCEPT ![s] = @ + 1]
  /\ UNCHANGED <<gold, curr_turn, banker_seat, last_chu, on_table, stake>>

PutCards(s) ==
  /\ curr_turn = s
  /\ \E cards \in Parts(hand[s]) : Play(s, cards) \/ PlayLast(s, cards)

Next == \E s \in Seat : Pass(s) \/ PutCards(s) \/ BreakOff(s)

Spec == Init /\ [][Next]_vars

-----------------------------------------------------------------------------
Playing == curr_turn # 0

(* Hands hold no card more than four times and a king once, and what lies  *)
(* on the table is a play, recorded with its length                        *)
(* (on_game_action_chupai, game.lua:1765).                                 *)
TypeOK ==
  /\ \A s \in Seat : \A p \in DOMAIN hand[s] :
       p \in Point /\ hand[s][p] \in 1..(IF p > Two THEN 1 ELSE 4)
  /\ \A s \in Seat : chued_count[s] \in Nat /\ gold[s] \in Int
  /\ curr_turn \in 0..3 /\ banker_seat \in 0..3
  /\ on_table # NoCards => /\ last_chu.type \in PokersTypes \ {"error"}
                           /\ last_chu.point \in DOMAIN on_table
                           /\ last_chu.count = BagCardinality(on_table)

(* Of all cards the seat on turn holds, named once each, the table takes   *)
(* exactly those that are a play and beat the banker's (pokers_type_check  *)
(* and the comparison at game.lua:1698): the index tests on sorted points  *)
(* agree with the kinds as they are described, at every length, through a  *)
(* whole round, broken-off plays included.                                 *)
PlaysFollowRules ==
  Playing => \A cards \in Parts(hand[curr_turn]) :
    Accepts(cards) <=>
      Rules!Allowed(cards, IF Leads THEN NoCards ELSE on_table)

(* Cards are where they belong, and the rules decide over all of them.     *)
PlayInv == TypeOK /\ PlaysFollowRules

(* What the script works out for the seat on turn (get_auto_action_pokers) *)
(* is in its hand and would be accepted from its player, whatever the      *)
(* banker played; on the lead it always finds something.                   *)
HintIsAccepted ==
  Playing /\ (~Leads => AnswerExists(last_chu.type)) =>
    LET found == AutoActionPokers(hand[curr_turn], ToBeat) IN
    \/ found = NoCards /\ ~Leads
    \/ found \in Parts(hand[curr_turn]) /\ Accepts(found)

(* get_auto_action_pokers calls the finders for airplanes without their    *)
(* arguments (pokers.lua:535): they would fail, and with them every play   *)
(* on an airplane.  They are never reached, since pokers_type_check takes  *)
(* an airplane only on an airplane and none can be led.                    *)
NoAnswerToAirplanes == Playing /\ ~Leads => AnswerExists(last_chu.type)

(* Gold only moves between the three seats (game_over, game.lua:1899).     *)
GoldConserved ==
  [][gold'[1] + gold'[2] + gold'[3] = gold[1] + gold[2] + gold[3]]_vars

(* A farmer never loses more than it has: only the landlord, whose loss is *)
(* not limited (game.lua:1917), can end a round below zero.                *)
FarmersCovered ==
  [][\A s \in Farmers : gold[s] >= 0 => gold'[s] >= 0]_vars

(* Where nobody owes anything, the seat that put its last card and its     *)
(* side do not lose, and the other side does not win.                      *)
WinnersPaid ==
  [][(\A s \in Seat : gold[s] >= 0) =>
       \A s \in Seat :
         IF (s = Landlord) = (curr_turn = Landlord)
         THEN gold'[s] >= gold[s] ELSE gold'[s] <= gold[s]]_vars

(* A round is settled among the three, by who won and what they can pay.   *)
FairSettlement == GoldConserved /\ FarmersCovered /\ WinnersPaid
=============================================================================
