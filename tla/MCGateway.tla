------------------------------ MODULE MCGateway ------------------------------
(* Two TCP connections, one more than there may be, and a websocket.  One  *)
(* connection has two messages, so that it can log in and enter a room.    *)
EXTENDS Gateway

CONSTANTS w1, t1, t2
MCWs  == {w1}
MCTcp == {t1, t2}
MCMsgs == [c \in Conns |-> CASE c = t1 -> 2 [] c = w1 -> 1 [] OTHER -> 0]
=============================================================================
