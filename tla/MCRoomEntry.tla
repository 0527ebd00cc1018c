---------------------------- MODULE MCRoomEntry ----------------------------
(* Two players and one room of two seats, or of one.                       *)
EXTENDS RoomEntry

CONSTANTS p1, p2, r1

TwoPlayers == {p1, p2}
OneRoom    == {r1}
=============================================================================
