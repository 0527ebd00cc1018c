------------------------------ MODULE MCTcpConn ------------------------------
(* Two kinds of messages, so that their order shows, and one more message  *)
(* than the channel holds.                                                 *)
EXTENDS TcpConn

CONSTANTS m1, m2
MCMsgs == {m1, m2}
=============================================================================
