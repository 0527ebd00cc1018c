----------------------------- MODULE CallPromise -----------------------------
(***************************************************************************)
(* What a skeleton promises those who use AsynCall, whatever becomes of    *)
(* the server: at most Limit calls are pending, a call is executed at most *)
(* once and called back exactly once, with the result of its execution, or *)
(* with a refusal if it was never executed and never will be.              *)
(***************************************************************************)
EXTENDS Integers

CONSTANTS Calls, Limit

VARIABLES status,  (* "idle", "pending", or what the callback was told       *)
          result,  (* "none", or what executing the call came to             *)
          pending  (* how many calls are pending                             *)

pvars == <<status, result, pending>>

PInit == /\ status = [c \in Calls |-> "idle"]
         /\ result = [c \in Calls |-> "none"]
         /\ pending = 0

Ask(c) == /\ status[c] = "idle" /\ pending < Limit
          /\ status' = [status EXCEPT ![c] = "pending"]
          /\ pending' = pending + 1
          /\ UNCHANGED result

TooMany(c) == /\ status[c] = "idle" /\ pending >= Limit
              /\ status' = [status EXCEPT ![c] = "refused"]
              /\ UNCHANGED <<result, pending>>

Run(c, r) == /\ status[c] = "pending" /\ result[c] = "none"
             /\ result' = [result EXCEPT ![c] = r]
             /\ UNCHANGED <<status, pending>>

CallBack(c) == /\ status[c] = "pending"
               /\ status' = [status EXCEPT
                    ![c] = IF result[c] = "none" THEN "refused" ELSE result[c]]
               /\ pending' = pending - 1
               /\ UNCHANGED result

PNext == \E c \in Calls : \/ Ask(c) \/ TooMany(c) \/ CallBack(c)
                          \/ \E r \in {"ok", "failed"} : Run(c, r)

PSpec == PInit /\ [][PNext]_pvars
=============================================================================
