----------------------------- MODULE PokersRules -----------------------------
(***************************************************************************)
(* What a play is and which play beats which, said without looking at the  *)
(* order of the cards: every kind is given by the cards it consists of.    *)
(* CardPlay is checked against this module.  It describes the kinds that   *)
(* the table knows when a seat leads; airplanes are not among them, see    *)
(* CardPlay!AnswerExists.                                                  *)
(***************************************************************************)
EXTENDS Integers, FiniteSets, Bags, TLC

Ace       == 14
Same(p, n) == p :> n
InARow(cards, p, n) ==
  /\ DOMAIN cards = p..p + Cardinality(DOMAIN cards) - 1
  /\ \A q \in DOMAIN cards : cards[q] = n /\ q <= Ace

IsA(cards, type, p) ==
  LET others == cards (-) Same(p, 3)  two == cards (-) Same(p, 4)
      n      == BagCardinality(cards) IN
  CASE type = "single" -> cards = Same(p, 1)
    [] type = "pair"   -> cards = Same(p, 2)
    [] type = "three"  -> cards = Same(p, 3)
    [] type = "bomb"   -> cards = IF p = 16 THEN SetToBag({16, 17}) ELSE Same(p, 4)
    [] type = "three_one"   -> cards[p] = 3 /\ BagCardinality(others) = 1
    [] type = "three_pair"  -> cards[p] = 3 /\ \E q \in DOMAIN others : others = Same(q, 2)
    [] type = "progression" -> n >= 5 /\ InARow(cards, p, 1)
    [] type = "pairs"       -> n >= 6 /\ InARow(cards, p, 2)
    [] type = "four_two"    ->
         /\ cards[p] = 4 /\ ~SetToBag({16, 17}) \sqsubseteq cards
         /\ \/ n = 6
            \/ n = 8 /\ \A q \in DOMAIN two : two[q] = 2 \/ (two[q] = 4 /\ q > p)

RuleTypes == {"single", "pair", "three", "bomb", "three_one", "three_pair",
              "progression", "pairs", "four_two"}
Readings(cards) ==
  {k \in [type : RuleTypes, point : DOMAIN cards] : IsA(cards, k.type, k.point)}

(* cards may be put on the cards "on", or lead when there are none.        *)
Allowed(cards, on) ==
  \E k \in Readings(cards) :
    on # EmptyBag => \E j \in Readings(on) :
      \/ k.type = "bomb" /\ j.type # "bomb"
      \/ /\ k.type = j.type /\ k.point > j.point
         /\ \/ k.type = "bomb"
            \/ BagCardinality(cards) = BagCardinality(on)
=============================================================================
