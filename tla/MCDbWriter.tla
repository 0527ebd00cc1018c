----------------------------- MODULE MCDbWriter -----------------------------
(* Two players, one of which changes twice, and a saver of a game log.     *)
EXTENDS DbWriter

CONSTANTS p1, p2, s1
MCPlayers == {p1, p2}
MCSavers  == {s1}
MCMaxVersion == [p \in MCPlayers |-> IF p = p1 THEN 2 ELSE 1]
=============================================================================
