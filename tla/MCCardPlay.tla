----------------------------- MODULE MCCardPlay -----------------------------
(* Positions of a round for TLC.  Hands are written point by point.        *)
EXTENDS CardPlay

Cards(seq) == [p \in {seq[i] : i \in 1..Len(seq)} |->
                 Cardinality({i \in 1..Len(seq) : seq[i] = p})]

Plain == [landlord |-> 1, jiabei |-> <<0, 0, 0>>, mingpai |-> 1,
          bottom |-> 1, beishu |-> 1]
Position(h1, h2, h3) ==
  [hand |-> <<Cards(h1), Cards(h2), Cards(h3)>>, chued |-> <<3, 2, 1>>,
   gold |-> <<9, 1, 5>>, turn |-> 1, stake |-> Plain]

(* Triples with a card or a pair, fours, kings; rows; pairs in a row;      *)
(* fours with two; two triples in a row.                                   *)
Positions ==
  { Position(<<3, 3, 3, 4, 4>>, <<5, 5, 5, 6, 6, 6>>, <<7, 7, 7, 7, 16, 17>>),
    Position(<<3, 3, 3, 4>>, <<5, 5, 5, 17>>, <<6, 6, 6, 7, 7, 7>>),
    Position(<<3, 4, 5, 6, 7>>, <<4, 5, 6, 7, 8, 14>>, <<9, 15, 16>>),
    Position(<<3, 3, 4, 4, 5, 5>>, <<6, 6, 7, 7, 8, 8>>, <<9, 9, 9, 9>>),
    Position(<<3, 3, 3, 3, 5, 6>>, <<4, 4, 4, 4, 7, 8>>, <<9, 9, 9, 9>>),
    Position(<<3, 3, 3, 3, 5, 5, 6, 6, 9>>, <<4, 4, 4, 4, 8, 8, 8, 8>>, <<7>>),
    Position(<<3, 3, 3, 4, 4, 4, 8>>, <<5, 5, 5, 6, 6, 6>>, <<10>>) }

(* Ends of a round with every stake: the landlord's last card before the   *)
(* farmers have played, and a farmer's last card while the landlord holds  *)
(* many.                                                                   *)
Four(p) == <<p, p, p, p>>
Farmer17(p) == Four(p) \o Four(p + 1) \o Four(p + 2) \o Four(p + 3) \o <<p + 4>>
MCStakes ==
  {[Plain EXCEPT !.jiabei = <<a, b, c>>, !.mingpai = m, !.bottom = x] :
     a \in {0, 1}, b \in 0..2, c \in {0, 1}, m \in {1, 5}, x \in {1, 4}}
Golds == {<<g, 2, 30>> : g \in {-3, 0, 3, 100}}
Ends ==
  {[hand |-> h, chued |-> c, gold |-> g, turn |-> t, stake |-> st] :
     h \in {<<Cards(<<3>>), Cards(Farmer17(4)), Cards(Farmer17(9))>>},
     c \in {<<9, 0, 0>>}, g \in Golds, t \in {1}, st \in MCStakes}
  \cup
  {[hand |-> h, chued |-> c, gold |-> g, turn |-> t, stake |-> st] :
     h \in {<<Cards(Four(10) \o <<3, 3, 4>>), Cards(<<5>>), Cards(<<6, 7>>)>>},
     c \in {<<1, 3, 4>>, <<2, 3, 4>>}, g \in Golds, t \in {2}, st \in MCStakes}

MCDeals == Positions \cup Ends
=============================================================================
