------------------------------- MODULE Pokers -------------------------------
(***************************************************************************)
(* The card operators of lua/game/classic_ddz/pokers.lua: what kind a play *)
(* is (pokers_type_check) and which cards the script would play by itself  *)
(* (get_auto_action_pokers).                                               *)
(*                                                                         *)
(* A card is its point: 3..13, ace 14, two 15, the kings 16 and 17; suits  *)
(* decide nothing here.  Cards are a bag of points, which the code sorts   *)
(* before it looks at positions.                                           *)
(***************************************************************************)
EXTENDS Integers, Bags, SequencesExt

Point == 3..17
Two   == 15

NoCards      == EmptyBag
Copies(p, n) == IF n = 0 THEN NoCards ELSE p :> n
BothKings    == Copies(16, 1) (+) Copies(17, 1)
Held(p, cards) == IF p \in DOMAIN cards THEN cards[p] ELSE 0
Sorted(cards) ==
  FlattenSeq([i \in 1..15 |-> [j \in 1..Held(i + 2, cards) |-> i + 2]])

(* The points of which the cards hold exactly n.                           *)
Times(cards, n) == {p \in DOMAIN cards : cards[p] = n}

(* PROGRESSION_SUIT_ONE and PROGRESSION_SUIT_TWO are both 11: "suit_with". *)
NoPlay == [type |-> "error", point |-> 0]
Kind(t, p) == [type |-> t, point |-> p]
Airplanes == {"suit_none", "suit_with"}
PokersTypes == {"error", "single", "pair", "three", "bomb", "three_one",
                "three_pair", "progression", "pairs", "four_two"}
                \cup Airplanes

-----------------------------------------------------------------------------
(* pokers_type_check.  Points are an ascending sequence q.                 *)

IsProgression(q) == \A i \in 1..Len(q) - 1 : q[i + 1] = q[i] + 1

IsProgressionPairs(q) ==
  LET half == Len(q) \div 2 IN
  /\ Len(q) % 2 = 0 /\ Len(q) >= 6
  /\ \A i \in 1..half : q[2 * i] = q[2 * i - 1]
  /\ IsProgression([i \in 1..half |-> q[2 * i]])

IsThreeWithPairs(q) ==
  /\ Len(q) = 5 /\ q[5] <= Two
  /\ \/ q[1] = q[3] /\ q[4] = q[5]
     \/ q[1] = q[2] /\ q[3] = q[5]

(* Four cards of a point with two more cards or with two pairs.  The       *)
(* mutant asks for one pair of the two.                                    *)
FourWithTwoOnePair(q) ==
  IF Len(q) = 6 THEN IF \E i \in 1..3 : q[i] = q[i + 3] THEN q[3] ELSE 0
  ELSE IF Len(q) # 8 THEN 0
  ELSE IF q[1] = q[4] /\ q[5] = q[6] THEN q[1]
  ELSE IF q[3] = q[6] /\ q[1] = q[2] THEN q[3]
  ELSE IF q[5] = q[8] /\ q[1] = q[2] THEN q[5] ELSE 0

FourWithTwo(q) ==
  IF Len(q) = 6 THEN IF \E i \in 1..3 : q[i] = q[i + 3] THEN q[3] ELSE 0
  ELSE IF Len(q) # 8 THEN 0
  ELSE IF q[1] = q[4] /\ q[5] = q[6] /\ q[7] = q[8] THEN q[1]
  ELSE IF q[3] = q[6] /\ q[1] = q[2] /\ q[7] = q[8] THEN q[3]
  ELSE IF q[5] = q[8] /\ q[1] = q[2] /\ q[3] = q[4] THEN q[5] ELSE 0

(* is_progression_suit: triples in a row with as many single cards; the    *)
(* lowest triple may be the one that is broken up into single cards.       *)
ProgressionSuit(cards, bankerType) ==
  LET threes == SetToSortSeq(Times(cards, 3), LAMBDA x, y : x < y)
      rest   == Cardinality(Times(cards, 1)) + 2 * Cardinality(Times(cards, 2))
      n      == Len(threes)
      one    == bankerType = "suit_with"
  IN  IF Times(cards, 4) # {} \/ n < 2 THEN NoPlay
      ELSE IF one /\ rest < n
      THEN IF n >= 4 /\ IsProgression(Tail(threes)) /\ n - 1 = rest + 3
           THEN Kind(bankerType, threes[2]) ELSE NoPlay
      ELSE IF IsProgression(threes) /\ rest = (IF one THEN n ELSE 0)
      THEN Kind(bankerType, threes[1]) ELSE NoPlay

(* An airplane is looked for only to answer one.  The mutant looks for it  *)
(* on the lead too.                                                        *)
AirplaneCheckAlways(cards, bankerType) ==
  LET asked == IF bankerType = "error" THEN "suit_none" ELSE bankerType
  IN  IF asked \in Airplanes THEN ProgressionSuit(cards, asked) ELSE NoPlay

AirplaneCheck(cards, bankerType) ==
  IF bankerType \in Airplanes THEN ProgressionSuit(cards, bankerType)
                              ELSE NoPlay

LongTypeCheck(cards, bankerType, bankerCount) ==
  LET q == Sorted(cards)  n == Len(q) IN
  IF bankerCount > 0 /\ bankerCount # n THEN NoPlay
  ELSE IF q[n] = 17 /\ q[n - 1] = 16 THEN NoPlay
  ELSE IF q[n] < Two /\ IsProgression(q) THEN Kind("progression", q[1])
  ELSE IF q[n] < Two /\ IsProgressionPairs(q) THEN Kind("pairs", q[1])
  ELSE IF IsThreeWithPairs(q) THEN Kind("three_pair", q[3])
  ELSE IF FourWithTwo(q) > 0 THEN Kind("four_two", FourWithTwo(q))
  ELSE AirplaneCheck(cards, bankerType)

PokersTypeCheck(cards, bankerType, bankerCount) ==
  LET q == Sorted(cards)  n == Len(q) IN
  CASE n = 1 -> Kind("single", q[1])
    [] n = 2 -> IF q = <<16, 17>> THEN Kind("bomb", q[1])
                ELSE IF q[1] = q[2] THEN Kind("pair", q[1]) ELSE NoPlay
    [] n = 3 -> IF q[1] = q[3] THEN Kind("three", q[1]) ELSE NoPlay
    [] n = 4 -> IF q[1] = q[4] THEN Kind("bomb", q[1])
                ELSE IF q[1] = q[3] THEN Kind("three_one", q[1])
                ELSE IF q[2] = q[4] THEN Kind("three_one", q[2]) ELSE NoPlay
    [] OTHER -> LongTypeCheck(cards, bankerType, bankerCount)

-----------------------------------------------------------------------------
(* The find_ functions: the cards of a hand that answer a play, or none.   *)

FirstNonempty(sets) ==
  LET some == {i \in 1..Len(sets) : sets[i] # {}} IN
  IF some = {} THEN {} ELSE sets[Min(some)]

Over(hand, n, point) == {p \in Times(hand, n) : p > point}

LowestBomb(hand) ==
  IF Times(hand, 4) # {} THEN Copies(Min(Times(hand, 4)), 4)
  ELSE IF BothKings \sqsubseteq hand THEN BothKings ELSE NoCards

(* The kings are no answer to a single card, any four of a kind is.        *)
FindSingle(hand, point) ==
  LET fit == FirstNonempty(<<Over(hand, 1, point), Over(hand, 2, point),
                             Over(hand, 3, point)>>)
  IN  IF fit # {} THEN Copies(Min(fit), 1)
      ELSE IF Times(hand, 4) # {} THEN LowestBomb(hand) ELSE NoCards

FindPairs(hand, point) ==
  LET fit == FirstNonempty(<<Over(hand, 2, point), Over(hand, 3, point)>>)
  IN  IF fit # {} THEN Copies(Min(fit), 2) ELSE LowestBomb(hand)

FindThree(hand, point) ==
  LET fit == Over(hand, 3, point)
  IN  IF fit # {} THEN Copies(Min(fit), 3) ELSE LowestBomb(hand)

(* With the lowest triple over the banker's goes the lowest single card,   *)
(* else one of a pair or of a low triple, else the next triple with one of *)
(* the first, else a king whose fellow is not in the hand.                 *)
FindThreeWithOne(hand, point) ==
  LET threes == Over(hand, 3, point)
      low    == Times(hand, 3) \ threes
      lesser(n) == Times(hand, n) \cap 3..Two
      kicker == FirstNonempty(<<lesser(1), lesser(2), low>>)
      kings  == DOMAIN hand \cap {16, 17}
      Three(p) == Copies(Min(threes), 3) (+) Copies(p, 1)
  IN  IF threes = {} THEN LowestBomb(hand)
      ELSE IF kicker # {} THEN Three(Min(kicker))
      ELSE IF Cardinality(threes) > 1
      THEN Copies(Min(threes), 1) (+) Copies(Min(threes \ {Min(threes)}), 3)
      ELSE IF Cardinality(kings) = 1 THEN Three(Min(kings))
      ELSE LowestBomb(hand)

(* The mutant takes the pair from the kings too, which are no pair.        *)
FindThreeWithPairsOrKings(hand, point) ==
  LET threes == Over(hand, 3, point)
  IN  IF threes = {} THEN LowestBomb(hand)
      ELSE IF Times(hand, 2) # {}
      THEN Copies(Min(threes), 3) (+) Copies(Min(Times(hand, 2)), 2)
      ELSE Copies(Min(threes), 3) (+) LowestBomb(hand)

FindThreeWithPairs(hand, point) ==
  LET threes == Over(hand, 3, point)
      low    == Times(hand, 3) \ threes
      pairs  == FirstNonempty(<<Times(hand, 2), low>>)
  IN  IF threes = {} THEN LowestBomb(hand)
      ELSE IF pairs # {} THEN Copies(Min(threes), 3) (+) Copies(Min(pairs), 2)
      ELSE IF Cardinality(threes) > 1
      THEN Copies(Min(threes), 2) (+) Copies(Min(threes \ {Min(threes)}), 3)
      ELSE LowestBomb(hand)

(* The two lowest single cards, or the two lowest pairs, go with the four. *)
FindFourWithTwo(hand, point, count) ==
  LET fours == Over(hand, 4, point)
      n     == IF count = 6 THEN 1 ELSE 2
      fupai == SetToSortSeq(Times(hand, n), LAMBDA x, y : x < y)
  IN  IF fours = {}
      THEN IF BothKings \sqsubseteq hand THEN BothKings ELSE NoCards
      ELSE IF Len(fupai) < 2 \/ {fupai[1], fupai[2]} = {16, 17}
      THEN Copies(Min(fours), 4)
      ELSE Copies(Min(fours), 4) (+) Copies(fupai[1], n) (+) Copies(fupai[2], n)

(* The lowest row of points over the banker's, of each of which the hand   *)
(* holds n, as long as the banker's play.                                  *)
FindRow(hand, point, count, n) ==
  LET len  == count \div n
      Row(p) == p..p + len - 1
      rows == {p \in point + 1..Two - 1 : /\ Row(p) \subseteq 3..Two - 1
                                          /\ \A r \in Row(p) : Held(r, hand) >= n}
  IN  IF rows # {} THEN [r \in Row(Min(rows)) |-> n] ELSE LowestBomb(hand)

FindBomb(hand, point) ==
  LET fit == Over(hand, 4, point)
  IN  IF fit # {} THEN Copies(Min(fit), 4)
      ELSE IF BothKings \sqsubseteq hand THEN BothKings ELSE NoCards

(* get_auto_action_pokers_jiepai.  The branches for airplanes call the     *)
(* finders without arguments; AnswerExists says when there is an answer.   *)
AnswerExists(bankerType) == bankerType \notin Airplanes

Answer(hand, banker) ==
  CASE banker.type = "single"      -> FindSingle(hand, banker.point)
    [] banker.type = "pair"        -> FindPairs(hand, banker.point)
    [] banker.type = "progression" -> FindRow(hand, banker.point, banker.count, 1)
    [] banker.type = "pairs"       -> FindRow(hand, banker.point, banker.count, 2)
    [] banker.type = "three_one"   -> FindThreeWithOne(hand, banker.point)
    [] banker.type = "three_pair"  -> FindThreeWithPairs(hand, banker.point)
    [] banker.type = "four_two"    -> FindFourWithTwo(hand, banker.point, banker.count)
    [] banker.type = "bomb"        -> FindBomb(hand, banker.point)
    [] banker.type = "three"       -> FindThree(hand, banker.point)

(* get_auto_action_pokers; banker is the play to be beaten, of type error  *)
(* on the lead.  The whole hand is played when it is a play.               *)
AutoActionPokers(hand, banker) ==
  LET own  == PokersTypeCheck(hand, "error", 0)
      lead == banker.type = "error"
      Beaten == \/ own.type = "bomb" /\ banker.type # "bomb"
                \/ /\ own.type = banker.type /\ own.point > banker.point
                   /\ (own.type = "bomb" \/ BagCardinality(hand) = banker.count)
  IN  IF hand = BothKings \/ (own.type # "error" /\ (lead \/ Beaten)) THEN hand
      ELSE IF lead THEN Copies(Min(DOMAIN hand), hand[Min(DOMAIN hand)])
      ELSE Answer(hand, banker)
=============================================================================
