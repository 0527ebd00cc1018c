------------------------------ MODULE AgentLife ------------------------------
(***************************************************************************)
(* What the module that owns the connections (AgentChanRPC of the gate)    *)
(* may rely on: of each connection it hears that it is new, then its       *)
(* messages, and then once, after all of them, that it is closed.          *)
(***************************************************************************)
EXTENDS Integers

CONSTANT Conns

VARIABLES life,   (* per connection: "none", "new" or "closed"               *)
          served  (* per connection: the number of its messages executed     *)

Init == life = [c \in Conns |-> "none"] /\ served = [c \in Conns |-> 0]

NewAgent(c) ==
  /\ life[c] = "none" /\ life' = [life EXCEPT ![c] = "new"]
  /\ UNCHANGED served

Message(c) ==
  /\ life[c] = "new" /\ served' = [served EXCEPT ![c] = @ + 1]
  /\ UNCHANGED life

CloseAgent(c) ==
  /\ life[c] = "new" /\ life' = [life EXCEPT ![c] = "closed"]
  /\ UNCHANGED served

Next == \E c \in Conns : NewAgent(c) \/ Message(c) \/ CloseAgent(c)

LSpec == Init /\ [][Next]_<<life, served>>
=============================================================================
