----------------------------- MODULE MCDdzRoom -----------------------------
(* A small table for TLC: as many players as seats, two cards dealt to     *)
(* each and one extra card, so that the landlord holds three; the plays    *)
(* are singles, pairs and a bomb of two cards.                             *)
EXTENDS DdzRoom, TLC

CONSTANTS p1, p2, p3

MCPlayers == {p1, p2, p3}
MCPlays   == {[n |-> 1, bomb |-> FALSE], [n |-> 2, bomb |-> FALSE],
              [n |-> 2, bomb |-> TRUE]}
Symmetry  == Permutations(MCPlayers)
=============================================================================
