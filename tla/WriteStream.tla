----------------------------- MODULE WriteStream -----------------------------
(***************************************************************************)
(* What a connection promises to those who write to it: the messages it    *)
(* has accepted reach the socket in their order, each once, and nothing is *)
(* accepted after it was closed.  It ends in one of two ways: drained,     *)
(* when every accepted message has been sent, or cut, by somebody who      *)
(* destroys it, by a full channel or by the network, at any moment.        *)
(***************************************************************************)
EXTENDS Integers, Sequences

CONSTANT Msgs

VARIABLES accepted, (* messages accepted, in order                           *)
          sent,     (* messages handed to the socket, in order               *)
          closing,  (* nothing is accepted any more                          *)
          end       (* "none", "drained" or "cut"                            *)

Init == accepted = <<>> /\ sent = <<>> /\ closing = FALSE /\ end = "none"

Accept(m) ==
  /\ ~closing
  /\ accepted' = Append(accepted, m)
  /\ UNCHANGED <<sent, closing, end>>

Send ==
  /\ end = "none" /\ Len(sent) < Len(accepted)
  /\ sent' = Append(sent, accepted[Len(sent) + 1])
  /\ UNCHANGED <<accepted, closing, end>>

Close ==
  /\ ~closing /\ closing' = TRUE
  /\ UNCHANGED <<accepted, sent, end>>

Drained ==
  /\ closing /\ end = "none" /\ sent = accepted
  /\ end' = "drained"
  /\ UNCHANGED <<accepted, sent, closing>>

Cut ==
  /\ end = "none" /\ end' = "cut"
  /\ closing' \in {closing, TRUE}
  /\ UNCHANGED <<accepted, sent>>

Next == (\E m \in Msgs : Accept(m)) \/ Send \/ Close \/ Drained \/ Cut

Spec == Init /\ [][Next]_<<accepted, sent, closing, end>>
=============================================================================
