---------------------------- MODULE SkeletonProofs ----------------------------
(***************************************************************************)
(* Calls and tasks of a skeleton, for every number of them and every       *)
(* capacity.  A pending call is in ChanCall, with the server, or in        *)
(* ChanAsynRet; as pendingAsynCall counts them and is at most the capacity *)
(* of ChanAsynRet, the answer of a call that is not yet there fits.        *)
(***************************************************************************)
EXTENDS Skeleton, FiniteSetTheorems, SequenceTheorems, TLAPS

Elems(s) == {s[i] : i \in DOMAIN s}
Once(s)  == \A i, j \in DOMAIN s : s[i] = s[j] => i = j

(* What waits in ChanCall is there once, and it is not what the server has *)
(* called; a goroutine that waits there has sent and is not yet answered.  *)
ChanOnce ==
  /\ Once(chanCall)
  /\ \A i \in DOMAIN chanCall : /\ chanCall[i] \in Peers => peer[chanCall[i]] = "sent"
                                /\ cur # <<>> => chanCall[i] # cur[1]
  /\ cur # <<>> /\ cur[1] \in Peers => peer[cur[1]] = "sent"

(* What is told of a call is what became of it.                            *)
ResultsAgree ==
  /\ \A c \in Calls : status[c] = "idle" => result[c] = "none"
  /\ \A c \in Waiting : result[c] = "none"
  /\ \A c \in InHand : result[c] = server
  /\ \A i \in DOMAIN asynRet :
       asynRet[i].res = IF result[asynRet[i].call] = "none" THEN "refused"
                        ELSE result[asynRet[i].call]

CallInv == TypeOK /\ OnePlace /\ ChanOnce /\ ResultsAgree

(* pendingAsynCall counts the pending calls.                               *)
PendingCount == pendingAsyn = Cardinality(Pending) /\ pendingAsyn <= AsynCap

-----------------------------------------------------------------------------
(* Types.                                                                  *)
LEMMA TailFacts ==
  ASSUME NEW S, NEW s \in Seq(S), s # <<>>
  PROVE  /\ Tail(s) \in Seq(S)
         /\ Len(s) > 0 /\ Head(s) = s[1] /\ Head(s) \in S /\ Len(Tail(s)) = Len(s) - 1
         /\ \A i \in 1..Len(Tail(s)) : Tail(s)[i] = s[i + 1]
OBVIOUS

LEMMA AppendFacts ==
  ASSUME NEW S, NEW s \in Seq(S), NEW x \in S
  PROVE  /\ Append(s, x) \in Seq(S) /\ Len(Append(s, x)) = Len(s) + 1
         /\ Append(s, x)[Len(s) + 1] = x
         /\ \A i \in 1..Len(s) : Append(s, x)[i] = s[i]
OBVIOUS

LEMMA AppendElems ==
  ASSUME NEW S, NEW s \in Seq(S), NEW x \in S
  PROVE  /\ Elems(Append(s, x)) = Elems(s) \cup {x}
         /\ Once(s) /\ x \notin Elems(s) => Once(Append(s, x))
<1>1. /\ DOMAIN Append(s, x) = 1..(Len(s) + 1) /\ DOMAIN s = 1..Len(s)
      /\ Append(s, x)[Len(s) + 1] = x
      /\ \A i \in 1..Len(s) : Append(s, x)[i] = s[i]
      /\ Len(s) \in Nat
  OBVIOUS
<1>2. Elems(Append(s, x)) = Elems(s) \cup {x}
  BY <1>1 DEF Elems
<1>3. ASSUME Once(s), x \notin Elems(s) PROVE Once(Append(s, x))
  BY <1>1, <1>3 DEF Elems, Once
<1> QED BY <1>2, <1>3

LEMMA TailElems ==
  ASSUME NEW S, NEW s \in Seq(S), s # <<>>, Once(s)
  PROVE  /\ Head(s) \in Elems(s) /\ Head(s) \in S
         /\ Elems(Tail(s)) = Elems(s) \ {Head(s)}
         /\ Once(Tail(s))
<1>1. /\ DOMAIN s = 1..Len(s) /\ DOMAIN Tail(s) = 1..(Len(s) - 1) /\ Len(s) \in Nat
      /\ Len(s) > 0 /\ Head(s) = s[1] /\ Head(s) \in S
      /\ \A i \in 1..(Len(s) - 1) : Tail(s)[i] = s[i + 1]
  OBVIOUS
<1>2. Head(s) \in Elems(s)
  BY <1>1 DEF Elems
<1>3. Once(Tail(s))
  BY <1>1 DEF Once
<1>4. Elems(Tail(s)) \subseteq Elems(s) \ {Head(s)}
  BY <1>1 DEF Elems, Once
<1>5. ASSUME NEW y \in Elems(s), y # Head(s) PROVE y \in Elems(Tail(s))
  <2>1. PICK i \in 1..Len(s) : y = s[i]
    BY <1>1, <1>5 DEF Elems
  <2>2. i - 1 \in 1..(Len(s) - 1) /\ Tail(s)[i - 1] = y
    BY <1>1, <1>5, <2>1
  <2> QED BY <1>1, <2>2 DEF Elems
<1> QED BY <1>1, <1>2, <1>3, <1>4, <1>5

LEMMA Caps ==
  /\ AsynCap \in Nat /\ AsynCap > 0 /\ CallCap \in Nat /\ CallCap > 0
  /\ GoCap \in Nat /\ GoCap > 0
BY CapAssumption

LEMMA TypeInit == Init => TypeOK
<1> SUFFICES ASSUME Init PROVE TypeOK
  OBVIOUS
<1>1. /\ asynRet \in Seq([call : Calls, res : Ends]) /\ Len(asynRet) <= AsynCap
      /\ linearGo \in Seq(Linear) /\ began \in Seq(Linear)
      /\ chanCb \in Seq(Tasks) /\ Len(chanCb) <= GoCap
      /\ cur \in Seq(Calls \cup Peers) /\ Len(cur) = 0
      /\ chanCall \in Seq(Calls \cup Peers) /\ Len(chanCall) <= CallCap
  BY Caps DEF Init
<1>2. /\ status \in [Calls -> {"idle", "pending"} \cup Ends]
      /\ task \in [Tasks -> {"idle", "queued", "run", "sent", "back"}]
      /\ peer \in [Peers -> {"send", "sent"} \cup Ends]
      /\ result \in [Calls -> {"none", "ok", "failed"}]
  BY DEF Init
<1>3. chanClosed = (server = "closed")
  BY DEF Init
<1> QED BY <1>1, <1>2, <1>3 DEF Init, TypeOK

LEMMA RetTypes ==
  ASSUME TypeOK, NEW x \in Calls \cup Peers, NEW r \in Ends, Ret(x, r)
  PROVE  /\ asynRet' \in Seq([call : Calls, res : Ends]) /\ Len(asynRet') <= AsynCap
         /\ peer' \in [Peers -> {"send", "sent"} \cup Ends]
<1>1. CASE x \in Calls
  <2>1. [call |-> x, res |-> r] \in [call : Calls, res : Ends]
    BY <1>1
  <2>2. asynRet' = Append(asynRet, [call |-> x, res |-> r]) /\ Len(asynRet) < AsynCap
    BY <1>1 DEF Ret
  <2>3. asynRet' \in Seq([call : Calls, res : Ends]) /\ Len(asynRet') <= AsynCap
    BY <2>1, <2>2, Caps, AppendFacts DEF TypeOK
  <2>4. peer' = peer
    BY <1>1, KindsAssumption DEF Ret
  <2> QED BY <2>3, <2>4 DEF TypeOK
<1>2. CASE x \notin Calls
  <2>1. asynRet' = asynRet
    BY <1>2 DEF Ret
  <2>2. peer' \in [Peers -> {"send", "sent"} \cup Ends]
    BY DEF Ret, TypeOK
  <2> QED BY <2>1, <2>2 DEF TypeOK
<1> QED BY <1>1, <1>2

LEMMA TypeStep == ASSUME TypeOK, [Next]_vars PROVE TypeOK'
<1> USE DEF clientVars, taskVars, serverVars
<1>1. CASE Handle
  BY <1>1 DEF Handle, TypeOK
<1>2. CASE Return
  BY <1>2 DEF Return, TypeOK
<1>3. ASSUME NEW c \in Calls, AsynCall(c) PROVE TypeOK'
  <2>1. status' \in [Calls -> {"idle", "pending"} \cup Ends] /\ pendingAsyn' \in Int
    <3>1. status \in [Calls -> {"idle", "pending"} \cup Ends] /\ pendingAsyn \in Int
      BY DEF TypeOK
    <3>2. \/ status' = [status EXCEPT ![c] = "refused"] /\ pendingAsyn' = pendingAsyn
          \/ status' = [status EXCEPT ![c] = "pending"] /\ pendingAsyn' = pendingAsyn + 1
      BY <1>3 DEF AsynCall
    <3> QED BY <3>1, <3>2 DEF Ends
  <2>2. chanCall' \in Seq(Calls \cup Peers) /\ Len(chanCall') <= CallCap
    <3>1. CASE chanCall' = chanCall
      BY <3>1 DEF TypeOK
    <3>2. CASE chanCall' # chanCall
      <4>1. chanCall' = Append(chanCall, c) /\ Len(chanCall) < CallCap
        BY <1>3, <3>2 DEF AsynCall, Accepts
      <4> QED BY <4>1, Caps, AppendFacts DEF TypeOK
    <3> QED BY <3>1, <3>2
  <2>3. asynRet' \in Seq([call : Calls, res : Ends]) /\ Len(asynRet') <= AsynCap
    <3>1. CASE asynRet' = asynRet
      BY <3>1 DEF TypeOK
    <3>2. CASE asynRet' # asynRet
      <4>1. /\ asynRet' = Append(asynRet, [call |-> c, res |-> "refused"])
            /\ Len(asynRet) < AsynCap
        BY <1>3, <3>2 DEF AsynCall
      <4>2. [call |-> c, res |-> "refused"] \in [call : Calls, res : Ends]
        BY DEF Ends
      <4> QED BY <4>1, <4>2, Caps, AppendFacts DEF TypeOK
    <3> QED BY <3>1, <3>2
  <2> QED BY <1>3, <2>1, <2>2, <2>3 DEF AsynCall, TypeOK
<1>4. ASSUME NEW t \in Tasks, Go(t) PROVE TypeOK'
  <2>1. linearGo' \in Seq(Linear) /\ began' \in Seq(Linear)
    <3>1. linearGo \in Seq(Linear) /\ began \in Seq(Linear)
      BY DEF TypeOK
    <3>2. CASE t \in Linear
      <4>1. linearGo' = Append(linearGo, t) /\ began' = Append(began, t)
        BY <1>4, <3>2 DEF Go
      <4> QED BY <3>1, <3>2, <4>1, AppendFacts
    <3>3. CASE t \notin Linear
      BY <1>4, <3>1, <3>3 DEF Go
    <3> QED BY <3>2, <3>3
  <2>2. /\ task' \in [Tasks -> {"idle", "queued", "run", "sent", "back"}]
        /\ pendingGo' \in Int
    BY <1>4 DEF Go, TypeOK
  <2> QED BY <1>4, <2>1, <2>2 DEF Go, TypeOK
<1>5. CASE TakeAnswer
  <2>1. /\ asynRet' \in Seq([call : Calls, res : Ends])
        /\ Len(asynRet') <= AsynCap
        /\ Head(asynRet) \in [call : Calls, res : Ends]
    <3>1. asynRet \in Seq([call : Calls, res : Ends]) /\ Len(asynRet) <= AsynCap
      BY DEF TypeOK
    <3>2. asynRet # <<>> /\ asynRet' = Tail(asynRet)
      BY <1>5 DEF TakeAnswer
    <3>3. /\ Tail(asynRet) \in Seq([call : Calls, res : Ends])
          /\ Head(asynRet) \in [call : Calls, res : Ends]
          /\ Len(Tail(asynRet)) = Len(asynRet) - 1
      BY <3>1, <3>2, TailFacts
    <3> QED BY <3>1, <3>2, <3>3, Caps
  <2>2. status' \in [Calls -> {"idle", "pending"} \cup Ends] /\ pendingAsyn' \in Int
    BY <1>5, <2>1 DEF TakeAnswer, TypeOK
  <2> QED BY <1>5, <2>1, <2>2 DEF TakeAnswer, TypeOK
<1>6. CASE TakeCb
  <2>1. /\ chanCb' \in Seq(Tasks) /\ Len(chanCb') <= GoCap
        /\ Head(chanCb) \in Tasks
    BY <1>6, Caps, TailFacts DEF TakeCb, TypeOK
  <2> QED BY <1>6, <2>1 DEF TakeCb, TypeOK
<1>7. CASE CloseClient \/ GoClosed \/ CallsClosed
  BY <1>7 DEF CloseClient, GoClosed, CallsClosed, TypeOK
<1>8. CASE TakeLinear
  <2>1. linearGo' \in Seq(Linear) /\ Head(linearGo) \in Linear
    BY <1>8, TailFacts DEF TakeLinear, TypeOK
  <2> QED BY <1>8, <2>1, TasksAssumption DEF TakeLinear, TypeOK
<1>9. ASSUME NEW t \in Tasks, SendCb(t) PROVE TypeOK'
  <2>1. chanCb' \in Seq(Tasks) /\ Len(chanCb') <= GoCap
    BY <1>9, Caps, AppendFacts DEF SendCb, TypeOK
  <2> QED BY <1>9, <2>1 DEF SendCb, TypeOK
<1>10. ASSUME NEW p \in Peers, SendCall(p) PROVE TypeOK'
  <2>1. chanCall' \in Seq(Calls \cup Peers) /\ Len(chanCall') <= CallCap
    BY <1>10, Caps, AppendFacts DEF SendCall, Accepts, TypeOK
  <2> QED BY <1>10, <2>1 DEF SendCall, TypeOK
<1>11. ASSUME NEW p \in Peers, SendPanics(p) PROVE TypeOK'
  BY <1>11 DEF SendPanics, TypeOK, Ends
<1>12. ASSUME NEW r \in {"ok", "failed"}, Exec(r) PROVE TypeOK'
  <2>1. /\ chanCall' \in Seq(Calls \cup Peers) /\ Len(chanCall') <= CallCap
        /\ Head(chanCall) \in Calls \cup Peers
    BY <1>12, Caps, TailFacts DEF Exec, TypeOK
  <2>2. cur' \in Seq(Calls \cup Peers) /\ Len(cur') = 1
    BY <1>12, <2>1 DEF Exec
  <2>3. result' \in [Calls -> {"none", "ok", "failed"}]
    BY <1>12 DEF Exec, TypeOK
  <2>4. chanClosed' = (server' = "closed") /\ server' \in {"ok", "failed"}
    BY <1>12 DEF Exec, TypeOK
  <2> QED BY <1>12, <2>1, <2>2, <2>3, <2>4 DEF Exec, TypeOK
<1>13. CASE Answer
  <2>1. cur[1] \in Calls \cup Peers /\ server \in Ends
    <3>1. cur \in Seq(Calls \cup Peers) /\ Len(cur) = 1
      BY <1>13 DEF Answer, TypeOK
    <3> QED BY <1>13, <3>1, ElementOfSeq DEF Answer, Ends
  <2>2. cur' \in Seq(Calls \cup Peers) /\ Len(cur') = 0
    BY <1>13 DEF Answer
  <2>3. chanClosed' = (server' = "closed") /\ server' = "select"
    BY <1>13 DEF Answer, TypeOK
  <2>4. /\ asynRet' \in Seq([call : Calls, res : Ends]) /\ Len(asynRet') <= AsynCap
        /\ peer' \in [Peers -> {"send", "sent"} \cup Ends]
    BY <1>13, <2>1, RetTypes DEF Answer
  <2> QED BY <1>13, <2>2, <2>3, <2>4 DEF Answer, TypeOK
<1>14. CASE CloseServer
  BY <1>14 DEF CloseServer, TypeOK
<1>15. CASE Drain
  <2>1. /\ chanCall' \in Seq(Calls \cup Peers) /\ Len(chanCall') <= CallCap
        /\ Head(chanCall) \in Calls \cup Peers
    BY <1>15, Caps, TailFacts DEF Drain, TypeOK
  <2>2. /\ asynRet' \in Seq([call : Calls, res : Ends]) /\ Len(asynRet') <= AsynCap
        /\ peer' \in [Peers -> {"send", "sent"} \cup Ends]
    BY <1>15, <2>1, RetTypes DEF Drain, Ends
  <2> QED BY <1>15, <2>1, <2>2 DEF Drain, TypeOK
<1>16. CASE UNCHANGED vars
  BY <1>16 DEF vars, TypeOK
<1> QED
  BY <1>1, <1>2, <1>3, <1>4, <1>5, <1>6, <1>7, <1>8, <1>9, <1>10, <1>11, <1>12,
     <1>13, <1>14, <1>15, <1>16 DEF Next, Client, Server

(* The types, for every value of the constants.                            *)
THEOREM SkeletonTypes == Spec => []TypeOK
<1>1. Init => TypeOK
  BY TypeInit
<1>2. TypeOK /\ [Next]_vars => TypeOK'
  BY TypeStep
<1> QED BY <1>1, <1>2, PTL DEF Spec

-----------------------------------------------------------------------------
(* Where the calls are.                                                    *)
Answers == [call : Calls, res : Ends]

LEMMA ToldAppend ==
  ASSUME TypeOK, NEW x \in Calls, NEW r \in Ends,
         asynRet' = Append(asynRet, [call |-> x, res |-> r])
  PROVE  /\ Told' = Told \cup {x}
         /\ \A i \in DOMAIN asynRet' :
              \/ i \in DOMAIN asynRet /\ asynRet'[i] = asynRet[i]
              \/ asynRet'[i] = [call |-> x, res |-> r]
         /\ OnePlace /\ x \notin Told
              => \A i, j \in DOMAIN asynRet' :
                   asynRet'[i].call = asynRet'[j].call => i = j
<1> DEFINE a == [call |-> x, res |-> r]
<1>1. asynRet \in Seq(Answers) /\ a \in Answers
  BY DEF TypeOK, Answers
<1>2. /\ DOMAIN asynRet' = 1..(Len(asynRet) + 1) /\ DOMAIN asynRet = 1..Len(asynRet)
      /\ Len(asynRet) \in Nat /\ asynRet'[Len(asynRet) + 1] = a
      /\ \A i \in 1..Len(asynRet) : asynRet'[i] = asynRet[i]
  BY <1>1
<1>3. a.call = x
  OBVIOUS
<1> HIDE DEF a
<1>4. Told' = Told \cup {x}
  BY <1>2, <1>3 DEF Told
<1>5. \A i \in DOMAIN asynRet' : \/ i \in DOMAIN asynRet /\ asynRet'[i] = asynRet[i]
                                 \/ asynRet'[i] = a
  BY <1>2
<1>6. ASSUME OnePlace, x \notin Told
      PROVE  \A i, j \in DOMAIN asynRet' : asynRet'[i].call = asynRet'[j].call => i = j
  <2>1. \A i, j \in 1..Len(asynRet) : asynRet[i].call = asynRet[j].call => i = j
    BY <1>2, <1>6 DEF OnePlace
  <2>2. \A i \in 1..Len(asynRet) : asynRet[i].call # x
    BY <1>2, <1>6 DEF Told
  <2> QED BY <1>2, <1>3, <2>1, <2>2
<1> QED BY <1>4, <1>5, <1>6 DEF a

LEMMA ToldTail ==
  ASSUME TypeOK, OnePlace, asynRet # <<>>, asynRet' = Tail(asynRet)
  PROVE  /\ Head(asynRet) \in Answers /\ Head(asynRet).call \in Told
         /\ Told' = Told \ {Head(asynRet).call}
         /\ \A i \in DOMAIN asynRet' : i + 1 \in DOMAIN asynRet /\ asynRet'[i] = asynRet[i + 1]
         /\ \A i, j \in DOMAIN asynRet' : asynRet'[i].call = asynRet'[j].call => i = j
<1>1. asynRet \in Seq(Answers)
  BY DEF TypeOK, Answers
<1>2. /\ DOMAIN asynRet = 1..Len(asynRet) /\ DOMAIN asynRet' = 1..(Len(asynRet) - 1)
      /\ Len(asynRet) \in Nat /\ Len(asynRet) > 0
      /\ Head(asynRet) = asynRet[1] /\ Head(asynRet) \in Answers
      /\ \A i \in 1..(Len(asynRet) - 1) : asynRet'[i] = asynRet[i + 1]
  BY <1>1
<1>3. \A i, j \in 1..Len(asynRet) : asynRet[i].call = asynRet[j].call => i = j
  BY <1>2 DEF OnePlace
<1>4. Told' \subseteq Told \ {Head(asynRet).call}
  BY <1>2, <1>3 DEF Told
<1>5. ASSUME NEW y \in Told, y # Head(asynRet).call PROVE y \in Told'
  <2>1. PICK i \in 1..Len(asynRet) : y = asynRet[i].call
    BY <1>2 DEF Told
  <2>2. i - 1 \in 1..(Len(asynRet) - 1) /\ asynRet'[i - 1] = asynRet[i]
    BY <1>2, <1>5, <2>1
  <2> QED BY <1>2, <2>1, <2>2 DEF Told
<1>6. \A i, j \in DOMAIN asynRet' : asynRet'[i].call = asynRet'[j].call => i = j
  BY <1>2, <1>3
<1>7. Head(asynRet).call \in Told
  BY <1>2 DEF Told
<1>8. \A i \in DOMAIN asynRet' : i + 1 \in DOMAIN asynRet /\ asynRet'[i] = asynRet[i + 1]
  BY <1>2
<1> QED BY <1>2, <1>4, <1>5, <1>6, <1>7, <1>8

(* Steps that move no call.                                                *)
LEMMA CallFrame ==
  ASSUME CallInv, UNCHANGED <<status, asynRet, cur, chanCall, peer, result>>,
         server' = server \/ cur = <<>>
  PROVE  OnePlace' /\ ChanOnce' /\ ResultsAgree' /\ Pending' = Pending
<1>1. /\ Pending' = Pending /\ Waiting' = Waiting /\ InHand' = InHand /\ Told' = Told
  BY DEF Pending, Waiting, InHand, Told
<1>2. InHand # {} => server' = server
  BY DEF InHand
<1>3. OnePlace'
  BY <1>1 DEF CallInv, OnePlace
<1>4. ChanOnce'
  BY DEF CallInv, ChanOnce, Once
<1>5. ResultsAgree'
  BY <1>1, <1>2 DEF CallInv, ResultsAgree
<1> QED BY <1>1, <1>3, <1>4, <1>5

LEMMA InHandIs == ASSUME TypeOK
  PROVE  /\ cur = <<>> => InHand = {}
         /\ cur # <<>> => /\ server \in {"ok", "failed"} /\ Len(cur) = 1
                         /\ cur[1] \in Calls \cup Peers /\ InHand = Calls \cap {cur[1]}
<1>1. cur = <<>> => InHand = {}
  BY DEF InHand
<1>2. ASSUME cur # <<>>
      PROVE  /\ server \in {"ok", "failed"} /\ Len(cur) = 1
             /\ cur[1] \in Calls \cup Peers /\ InHand = Calls \cap {cur[1]}
  <2>1. cur \in Seq(Calls \cup Peers)
    BY DEF TypeOK
  <2>2. Len(cur) # 0 /\ DOMAIN cur = 1..Len(cur)
    BY <1>2, <2>1
  <2>3. server \in {"ok", "failed"} /\ Len(cur) = 1
    BY <2>2 DEF TypeOK
  <2> QED BY <2>1, <2>2, <2>3 DEF InHand
<1> QED BY <1>1, <1>2

LEMMA AsynCallStep ==
  ASSUME CallInv, NEW c \in Calls, AsynCall(c)
  PROVE  /\ OnePlace' /\ ChanOnce' /\ ResultsAgree'
         /\ \/ Pending' = Pending /\ pendingAsyn' = pendingAsyn
            \/ /\ c \notin Pending /\ Pending' = Pending \cup {c}
               /\ pendingAsyn' = pendingAsyn + 1 /\ pendingAsyn < AsynCap
<1>1. /\ c \notin Pending /\ status[c] = "idle" /\ result[c] = "none"
      /\ c \notin Waiting /\ c \notin InHand /\ c \notin Told
      /\ status \in [Calls -> {"idle", "pending"} \cup Ends]
      /\ UNCHANGED <<cur, server, result, peer>>
  BY DEF AsynCall, Pending, CallInv, OnePlace, ResultsAgree, serverVars, TypeOK
<1>2. CASE TooMany
  <2>1. status' = [status EXCEPT ![c] = "refused"] /\ UNCHANGED <<pendingAsyn, asynRet, chanCall>>
    BY <1>2 DEF AsynCall
  <2>2. \A d \in Calls : status'[d] = IF d = c THEN "refused" ELSE status[d]
    BY <1>1, <2>1
  <2>3. /\ Pending' = Pending /\ Waiting' = Waiting /\ InHand' = InHand /\ Told' = Told
    BY <1>1, <2>1, <2>2 DEF Pending, Waiting, InHand, Told
  <2>4. OnePlace' /\ ChanOnce'
    BY <1>1, <2>1, <2>3 DEF CallInv, OnePlace, ChanOnce, Once
  <2>5. ResultsAgree'
    BY <1>1, <2>1, <2>2, <2>3 DEF CallInv, ResultsAgree
  <2> QED BY <2>1, <2>3, <2>4, <2>5
<1>3. CASE ~TooMany
  <2>1. /\ status' = [status EXCEPT ![c] = "pending"] /\ pendingAsyn' = pendingAsyn + 1
        /\ pendingAsyn < AsynCap
    BY <1>3, Caps DEF AsynCall, TooMany, CallInv, TypeOK
  <2>2. \A d \in Calls : status'[d] = IF d = c THEN "pending" ELSE status[d]
    BY <1>1, <2>1
  <2>3. Pending' = Pending \cup {c} /\ InHand' = InHand
    BY <1>1, <2>2 DEF Pending, InHand
  <2>4. CASE chanCall' = Append(chanCall, c) /\ asynRet' = asynRet
    <3>1. chanCall \in Seq(Calls \cup Peers) /\ c \in Calls \cup Peers
      BY DEF CallInv, TypeOK
    <3>2. Once(chanCall) /\ c \notin Elems(chanCall)
      BY <1>1 DEF CallInv, ChanOnce, Waiting, Elems
    <3>3. Elems(chanCall') = Elems(chanCall) \cup {c} /\ Once(chanCall')
      BY <2>4, <3>1, <3>2, AppendElems
    <3>4. Waiting' = Waiting \cup {c} /\ Told' = Told
      BY <2>4, <3>3 DEF Waiting, Elems, Told
    <3>5. OnePlace'
      BY <1>1, <2>3, <2>4, <3>3, <3>4 DEF CallInv, OnePlace, Once
    <3>6. \A i \in DOMAIN chanCall' : chanCall'[i] = c \/ \E j \in DOMAIN chanCall : chanCall'[i] = chanCall[j]
      BY <3>3 DEF Elems
    <3>7. c \notin Peers /\ (cur # <<>> => c # cur[1])
      BY <1>1, KindsAssumption, InHandIs DEF Peers, CallInv
    <3>8. ChanOnce'
      BY <1>1, <3>3, <3>6, <3>7 DEF CallInv, ChanOnce
    <3>9. ResultsAgree'
      BY <1>1, <2>2, <2>3, <2>4, <3>4 DEF CallInv, ResultsAgree
    <3> QED BY <1>1, <2>1, <2>3, <3>5, <3>8, <3>9
  <2>5. CASE chanCall' = chanCall /\ asynRet' = Append(asynRet, [call |-> c, res |-> "refused"])
    <3>1. TypeOK /\ OnePlace /\ "refused" \in Ends
      BY DEF CallInv, Ends
    <3>2. /\ Told' = Told \cup {c} /\ Waiting' = Waiting
          /\ \A i \in DOMAIN asynRet' : \/ i \in DOMAIN asynRet /\ asynRet'[i] = asynRet[i]
                                        \/ asynRet'[i] = [call |-> c, res |-> "refused"]
          /\ \A i, j \in DOMAIN asynRet' : asynRet'[i].call = asynRet'[j].call => i = j
      BY <1>1, <2>5, <3>1, ToldAppend DEF Waiting
    <3>3. OnePlace'
      BY <1>1, <2>3, <2>5, <3>1, <3>2 DEF OnePlace
    <3>4. ChanOnce'
      BY <1>1, <2>5 DEF CallInv, ChanOnce, Once
    <3>5. ResultsAgree'
      BY <1>1, <2>2, <2>3, <3>2 DEF CallInv, ResultsAgree
    <3> QED BY <1>1, <2>1, <2>3, <3>3, <3>4, <3>5
  <2> QED BY <1>3, <2>4, <2>5 DEF AsynCall
<1> QED BY <1>2, <1>3

LEMMA TakeAnswerStep ==
  ASSUME CallInv, TakeAnswer
  PROVE  /\ OnePlace' /\ ChanOnce' /\ ResultsAgree'
         /\ \E c \in Pending :
              /\ Pending' = Pending \ {c} /\ pendingAsyn' = pendingAsyn - 1
              /\ UNCHANGED result
              /\ status' = [status EXCEPT ![c] = IF result[c] = "none" THEN "refused"
                                                ELSE result[c]]
<1> DEFINE c == Head(asynRet).call
<1>1. /\ asynRet # <<>> /\ asynRet' = Tail(asynRet) /\ pendingAsyn' = pendingAsyn - 1
      /\ status' = [status EXCEPT ![c] = Head(asynRet).res]
      /\ UNCHANGED <<cur, server, result, peer, chanCall>>
  BY DEF TakeAnswer, serverVars
<1>2. /\ Head(asynRet) \in Answers /\ c \in Told /\ Told' = Told \ {c}
      /\ \A i \in DOMAIN asynRet' : i + 1 \in DOMAIN asynRet /\ asynRet'[i] = asynRet[i + 1]
      /\ \A i, j \in DOMAIN asynRet' : asynRet'[i].call = asynRet'[j].call => i = j
  BY <1>1, ToldTail DEF CallInv
<1>3. c \in Calls /\ Head(asynRet).res \in Ends
  BY <1>2 DEF Answers
<1>4. Head(asynRet).res = IF result[c] = "none" THEN "refused" ELSE result[c]
  <2>1. Head(asynRet) = asynRet[1] /\ 1 \in DOMAIN asynRet
    BY <1>1 DEF CallInv, TypeOK
  <2> QED BY <2>1 DEF CallInv, ResultsAgree
<1> HIDE DEF c
<1>5. \A d \in Calls : status'[d] = IF d = c THEN Head(asynRet).res ELSE status[d]
  BY <1>1, <1>3 DEF CallInv, TypeOK
<1>6. Head(asynRet).res \notin {"idle", "pending"}
  BY <1>3 DEF Ends
<1>7. Pending' = Pending \ {c} /\ c \in Pending /\ Waiting' = Waiting /\ InHand' = InHand
  BY <1>1, <1>2, <1>3, <1>5, <1>6 DEF Pending, Waiting, InHand, CallInv, OnePlace
<1>8. OnePlace'
  BY <1>1, <1>2, <1>7 DEF CallInv, OnePlace
<1>9. ChanOnce'
  BY <1>1 DEF CallInv, ChanOnce, Once
<1>10. ResultsAgree'
  BY <1>1, <1>2, <1>5, <1>6, <1>7 DEF CallInv, ResultsAgree
<1> QED BY <1>1, <1>4, <1>7, <1>8, <1>9, <1>10

LEMMA ToldIn == ASSUME TypeOK PROVE Told \subseteq Calls
<1>1. asynRet \in Seq(Answers)
  BY DEF TypeOK, Answers
<1>2. \A i \in DOMAIN asynRet : asynRet[i] \in Answers
  BY <1>1
<1> QED BY <1>2 DEF Told, Answers

LEMMA ChanIs == ASSUME ChanOnce, NEW x \in Elems(chanCall)
  PROVE  /\ x \in Peers => peer[x] = "sent"
         /\ cur # <<>> => x # cur[1]
<1>1. PICK i \in DOMAIN chanCall : x = chanCall[i]
  BY DEF Elems
<1> QED BY <1>1 DEF ChanOnce

LEMMA SendStep ==
  ASSUME CallInv, NEW q \in Peers, SendCall(q) \/ SendPanics(q)
  PROVE  OnePlace' /\ ChanOnce' /\ ResultsAgree' /\ Pending' = Pending
<1>1. /\ peer[q] = "send" /\ UNCHANGED <<status, asynRet, cur, server, result>>
      /\ q \notin Calls /\ q \notin Elems(chanCall) /\ (cur # <<>> => cur[1] # q)
  <2>1. peer[q] = "send" /\ UNCHANGED <<status, asynRet, cur, server, result>>
    BY DEF SendCall, SendPanics, clientVars, serverVars
  <2>2. q \notin Elems(chanCall)
    BY <2>1, ChanIs DEF CallInv
  <2>3. cur # <<>> => cur[1] # q
    BY <2>1 DEF CallInv, ChanOnce
  <2> QED BY <2>1, <2>2, <2>3, KindsAssumption DEF Peers
<1>2. \A x \in Peers : x # q => peer'[x] = peer[x]
  BY DEF SendCall, SendPanics, CallInv, TypeOK
<1>3. CASE chanCall' = chanCall
  <2>1. /\ Pending' = Pending /\ Waiting' = Waiting /\ InHand' = InHand /\ Told' = Told
    BY <1>1, <1>3 DEF Pending, Waiting, InHand, Told
  <2>2. OnePlace' /\ ResultsAgree'
    BY <1>1, <1>3, <2>1 DEF CallInv, OnePlace, ResultsAgree
  <2>3. ChanOnce'
    BY <1>1, <1>2, <1>3 DEF CallInv, ChanOnce, Once, Elems
  <2> QED BY <2>1, <2>2, <2>3
<1>4. CASE chanCall' = Append(chanCall, q) /\ peer'[q] = "sent"
  <2>1. chanCall \in Seq(Calls \cup Peers) /\ q \in Calls \cup Peers
    BY DEF CallInv, TypeOK
  <2>2. Elems(chanCall') = Elems(chanCall) \cup {q} /\ Once(chanCall')
    BY <1>1, <1>4, <2>1, AppendElems DEF CallInv, ChanOnce
  <2>3. /\ Pending' = Pending /\ Waiting' = Waiting /\ InHand' = InHand /\ Told' = Told
    BY <1>1, <2>2 DEF Pending, Waiting, InHand, Told, Elems
  <2>4. OnePlace' /\ ResultsAgree'
    BY <1>1, <2>2, <2>3 DEF CallInv, OnePlace, ResultsAgree, Once
  <2>5. \A i \in DOMAIN chanCall' : chanCall'[i] = q \/ \E j \in DOMAIN chanCall : chanCall'[i] = chanCall[j]
    BY <2>2 DEF Elems
  <2>6. ChanOnce'
    BY <1>1, <1>2, <1>4, <2>2, <2>5 DEF CallInv, ChanOnce
  <2> QED BY <2>3, <2>4, <2>6
<1>5. CASE SendCall(q)
  BY <1>4, <1>5 DEF SendCall, CallInv, TypeOK
<1>6. CASE SendPanics(q)
  BY <1>3, <1>6 DEF SendPanics
<1> QED BY <1>5, <1>6

LEMMA ExecStep ==
  ASSUME CallInv, NEW r \in {"ok", "failed"}, Exec(r)
  PROVE  /\ OnePlace' /\ ChanOnce' /\ ResultsAgree' /\ Pending' = Pending
         /\ \/ UNCHANGED result
            \/ \E c \in Pending : /\ result[c] = "none"
                                 /\ result' = [result EXCEPT ![c] = r]
<1> DEFINE h == Head(chanCall)
<1>1. /\ chanCall # <<>> /\ server = "select" /\ cur' = <<h>> /\ chanCall' = Tail(chanCall)
      /\ server' = r /\ result' = [c \in Calls |-> IF c = h THEN r ELSE result[c]]
      /\ UNCHANGED <<status, asynRet, peer>>
  BY DEF Exec, clientVars
<1>2. chanCall \in Seq(Calls \cup Peers) /\ Once(chanCall) /\ result \in [Calls -> {"none", "ok", "failed"}]
  BY DEF CallInv, TypeOK, ChanOnce
<1>3. /\ h \in Elems(chanCall) /\ Elems(chanCall') = Elems(chanCall) \ {h} /\ Once(chanCall')
      /\ h \in Calls \cup Peers
  BY <1>1, <1>2, TailElems
<1>4. InHand = {}
  BY <1>1, InHandIs DEF CallInv
<1> HIDE DEF h
<1>5. /\ Pending' = Pending /\ Waiting' = Waiting \ {h} /\ InHand' = Calls \cap {h} /\ Told' = Told
  <2>1. Pending' = Pending /\ Told' = Told
    BY <1>1 DEF Pending, Told
  <2>2. Waiting' = Waiting \ {h}
    BY <1>3 DEF Waiting, Elems
  <2>3. InHand' = Calls \cap {h}
    BY <1>1 DEF InHand
  <2> QED
    BY <2>1, <2>2, <2>3
<1>6. h \in Calls => h \in Waiting /\ h \in Pending /\ h \notin Told /\ result[h] = "none"
  BY <1>3 DEF CallInv, OnePlace, Waiting, Elems, ResultsAgree
<1>7. OnePlace'
  <2>1. Pending' = Waiting' \cup InHand' \cup Told'
    <3>1. Waiting \subseteq Calls
      BY DEF Waiting
    <3> QED BY <3>1, <1>4, <1>5, <1>6 DEF CallInv, OnePlace
  <2>2. Waiting' \cap InHand' = {} /\ Waiting' \cap Told' = {} /\ InHand' \cap Told' = {}
    BY <1>5, <1>6 DEF CallInv, OnePlace
  <2>3. \A i, j \in DOMAIN chanCall' : chanCall'[i] = chanCall'[j] => i = j
    BY <1>3 DEF Once
  <2>4. \A i, j \in DOMAIN asynRet' : asynRet'[i].call = asynRet'[j].call => i = j
    BY <1>1 DEF CallInv, OnePlace
  <2> QED BY <2>1, <2>2, <2>3, <2>4 DEF OnePlace
<1>8. ChanOnce'
  <2>1. \A i \in DOMAIN chanCall' : /\ chanCall'[i] # h
                                    /\ \E j \in DOMAIN chanCall : chanCall'[i] = chanCall[j]
    BY <1>3 DEF Elems
  <2>2. h \in Peers => peer[h] = "sent"
    BY <1>3, ChanIs DEF CallInv
  <2>3. cur'[1] = h /\ cur' # <<>>
    BY <1>1
  <2> QED BY <1>1, <1>3, <2>1, <2>2, <2>3 DEF CallInv, ChanOnce
<1>9. \A c \in Calls : result'[c] = IF c = h THEN r ELSE result[c]
  BY <1>1
<1>10. ResultsAgree'
  <2>1. \A c \in Calls : status[c] = "idle" => c # h
    BY <1>6 DEF Pending
  <2>2. \A i \in DOMAIN asynRet : asynRet[i].call # h /\ asynRet[i].call \in Calls
    BY <1>3, <1>6, ToldIn, KindsAssumption DEF Told, CallInv
  <2>3. \A c \in InHand' : result'[c] = server'
    BY <1>1, <1>5, <1>9
  <2>4. \A c \in Waiting' : result'[c] = "none"
    BY <1>5, <1>9 DEF CallInv, ResultsAgree, Waiting
  <2>5. \A c \in Calls : status'[c] = "idle" => result'[c] = "none"
    BY <1>1, <1>9, <2>1 DEF CallInv, ResultsAgree
  <2>6. \A i \in DOMAIN asynRet' :
          asynRet'[i].res = IF result'[asynRet'[i].call] = "none" THEN "refused"
                            ELSE result'[asynRet'[i].call]
    BY <1>1, <1>9, <2>2 DEF CallInv, ResultsAgree
  <2> QED BY <2>3, <2>4, <2>5, <2>6 DEF ResultsAgree
<1>11. \/ UNCHANGED result
       \/ \E c \in Pending : result[c] = "none" /\ result' = [result EXCEPT ![c] = r]
  <2>1. CASE h \in Calls
    <3>1. result' = [result EXCEPT ![h] = r]
      BY <1>1, <1>2
    <3> QED BY <1>6, <2>1, <3>1
  <2>2. CASE h \notin Calls
    BY <1>1, <1>2, <2>2
  <2> QED BY <2>1, <2>2
<1> QED BY <1>5, <1>7, <1>8, <1>10, <1>11

(* An answer goes to ChanAsynRet or to the caller that waits for it.       *)
LEMMA RetMoves ==
  ASSUME CallInv, NEW x \in Calls \cup Peers, NEW r \in Ends, Ret(x, r), x \notin Told
  PROVE  /\ Told' = Told \cup (Calls \cap {x})
         /\ \A i \in DOMAIN asynRet' :
              \/ i \in DOMAIN asynRet /\ asynRet'[i] = asynRet[i]
              \/ x \in Calls /\ asynRet'[i] = [call |-> x, res |-> r]
         /\ \A i, j \in DOMAIN asynRet' : asynRet'[i].call = asynRet'[j].call => i = j
         /\ \A y \in Peers : y # x => peer'[y] = peer[y]
<1>1. TypeOK /\ OnePlace
  BY DEF CallInv
<1>2. \A y \in Peers : y # x => peer'[y] = peer[y]
  BY <1>1 DEF Ret, TypeOK
<1>3. CASE x \in Calls
  <2>1. asynRet' = Append(asynRet, [call |-> x, res |-> r])
    BY <1>3 DEF Ret
  <2> QED BY <1>1, <1>2, <1>3, <2>1, ToldAppend
<1>4. CASE x \notin Calls
  <2>1. asynRet' = asynRet
    BY <1>4 DEF Ret
  <2> QED BY <1>1, <1>2, <1>4, <2>1 DEF Told, OnePlace
<1> QED BY <1>3, <1>4

LEMMA AnswerStep ==
  ASSUME CallInv, Answer
  PROVE  OnePlace' /\ ChanOnce' /\ ResultsAgree' /\ Pending' = Pending
<1>1. /\ server \in {"ok", "failed"} /\ Ret(cur[1], server) /\ cur' = <<>>
      /\ UNCHANGED <<status, chanCall, result>>
  BY DEF Answer, clientVars
<1>2. /\ cur # <<>> /\ cur[1] \in Calls \cup Peers /\ InHand = Calls \cap {cur[1]}
      /\ server \in Ends
  <2>1. TypeOK /\ Len(cur) = 1
    BY <1>1 DEF CallInv, TypeOK
  <2>2. cur # <<>>
    BY <2>1
  <2> QED BY <1>1, <2>1, <2>2, InHandIs DEF Ends
<1>3. cur[1] \notin Told
  <2>1. Told \subseteq Calls
    BY ToldIn DEF CallInv
  <2> QED BY <1>2, <2>1 DEF CallInv, OnePlace
<1>4. /\ Told' = Told \cup InHand
      /\ \A i \in DOMAIN asynRet' :
           \/ i \in DOMAIN asynRet /\ asynRet'[i] = asynRet[i]
           \/ cur[1] \in Calls /\ asynRet'[i] = [call |-> cur[1], res |-> server]
      /\ \A i, j \in DOMAIN asynRet' : asynRet'[i].call = asynRet'[j].call => i = j
      /\ \A y \in Peers : y # cur[1] => peer'[y] = peer[y]
  BY <1>1, <1>2, <1>3, RetMoves
<1>5. Pending' = Pending /\ Waiting' = Waiting /\ InHand' = {}
  BY <1>1 DEF Pending, Waiting, InHand
<1>6. OnePlace'
  BY <1>1, <1>4, <1>5 DEF CallInv, OnePlace
<1>7. ChanOnce'
  BY <1>1, <1>2, <1>4 DEF CallInv, ChanOnce, Once
<1>8. ResultsAgree'
  BY <1>1, <1>2, <1>4, <1>5 DEF CallInv, ResultsAgree
<1> QED BY <1>5, <1>6, <1>7, <1>8

LEMMA DrainStep ==
  ASSUME CallInv, Drain
  PROVE  OnePlace' /\ ChanOnce' /\ ResultsAgree' /\ Pending' = Pending
<1> DEFINE h == Head(chanCall)
<1>1. /\ server = "closed" /\ chanCall # <<>> /\ Ret(h, "refused")
      /\ chanCall' = Tail(chanCall) /\ UNCHANGED <<status, cur, server, result>>
  BY DEF Drain, clientVars, serverVars
<1>2. chanCall \in Seq(Calls \cup Peers) /\ Once(chanCall)
  BY DEF CallInv, TypeOK, ChanOnce
<1>3. /\ h \in Elems(chanCall) /\ Elems(chanCall') = Elems(chanCall) \ {h} /\ Once(chanCall')
      /\ h \in Calls \cup Peers
  BY <1>1, <1>2, TailElems
<1>4. cur = <<>> /\ InHand = {}
  <2>1. cur = <<>>
    BY <1>1, InHandIs DEF CallInv
  <2> QED BY <2>1, InHandIs DEF CallInv
<1> HIDE DEF h
<1>5. h \in Calls => h \in Waiting /\ h \in Pending /\ result[h] = "none"
  BY <1>3 DEF CallInv, OnePlace, Waiting, Elems, ResultsAgree
<1>6. h \notin Told
  <2>1. Told \subseteq Calls
    BY ToldIn DEF CallInv
  <2> QED BY <1>5, <2>1 DEF CallInv, OnePlace
<1>7. /\ Told' = Told \cup (Calls \cap {h})
      /\ \A i \in DOMAIN asynRet' :
           \/ i \in DOMAIN asynRet /\ asynRet'[i] = asynRet[i]
           \/ h \in Calls /\ asynRet'[i] = [call |-> h, res |-> "refused"]
      /\ \A i, j \in DOMAIN asynRet' : asynRet'[i].call = asynRet'[j].call => i = j
      /\ \A y \in Peers : y # h => peer'[y] = peer[y]
  BY <1>1, <1>3, <1>6, RetMoves DEF Ends
<1>8. /\ Pending' = Pending /\ Waiting' = Waiting \ {h} /\ InHand' = InHand
  BY <1>1, <1>3 DEF Pending, Waiting, InHand, Elems
<1>9. OnePlace'
  <2>1. Pending' = Waiting' \cup InHand' \cup Told'
    <3>1. Waiting \subseteq Calls
      BY DEF Waiting
    <3> QED BY <3>1, <1>4, <1>5, <1>7, <1>8 DEF CallInv, OnePlace
  <2>2. Waiting' \cap InHand' = {} /\ Waiting' \cap Told' = {} /\ InHand' \cap Told' = {}
    BY <1>4, <1>7, <1>8 DEF CallInv, OnePlace
  <2> QED BY <1>3, <1>7, <2>1, <2>2 DEF OnePlace, Once
<1>10. ChanOnce'
  <2>1. \A i \in DOMAIN chanCall' : /\ chanCall'[i] # h
                                    /\ \E j \in DOMAIN chanCall : chanCall'[i] = chanCall[j]
    BY <1>3 DEF Elems
  <2> QED BY <1>1, <1>3, <1>4, <1>7, <2>1 DEF CallInv, ChanOnce
<1>11. ResultsAgree'
  BY <1>1, <1>5, <1>7, <1>8 DEF CallInv, ResultsAgree
<1> QED BY <1>8, <1>9, <1>10, <1>11

-----------------------------------------------------------------------------
(* How many calls are pending.                                             *)
CallsInv == CallInv /\ PendingCount

LEMMA PendingFinite == IsFiniteSet(Pending) /\ IsFiniteSet(Pending)'
BY CallsAssumption, FS_Subset DEF Pending

LEMMA CallInit == Init => CallsInv
<1> SUFFICES ASSUME Init PROVE CallsInv
  OBVIOUS
<1>1. Pending = {} /\ Waiting = {} /\ InHand = {} /\ Told = {}
  BY DEF Init, Pending, Waiting, InHand, Told
<1>2. PendingCount
  BY <1>1, FS_EmptySet, Caps DEF Init, PendingCount
<1>3. OnePlace
  BY <1>1 DEF Init, OnePlace
<1>4. ChanOnce
  BY DEF Init, ChanOnce, Once
<1>5. ResultsAgree
  BY <1>1 DEF Init, ResultsAgree
<1> QED BY <1>2, <1>3, <1>4, <1>5, TypeInit DEF CallsInv, CallInv

(* What a step does to the calls, as CallPromise sees it.                  *)
LEMMA CallStep ==
  ASSUME CallsInv, [Next]_vars
  PROVE  /\ OnePlace' /\ ChanOnce' /\ ResultsAgree' /\ PendingCount'
         /\ [Promise!PNext]_(Promise!pvars)
<1> USE DEF CallsInv
<1>a. ASSUME Pending' = Pending, UNCHANGED pendingAsyn PROVE PendingCount'
  BY <1>a DEF PendingCount
<1>b. ASSUME UNCHANGED <<status, result, pendingAsyn>> PROVE [Promise!PNext]_(Promise!pvars)
  BY <1>b DEF Promise!pvars
<1>1. CASE Handle \/ Return \/ TakeCb \/ CloseClient \/ GoClosed \/ CallsClosed \/ TakeLinear
  <2>1. UNCHANGED <<status, asynRet, cur, chanCall, peer, result, server, pendingAsyn>>
    BY <1>1 DEF Handle, Return, TakeCb, CloseClient, GoClosed, CallsClosed, TakeLinear,
       clientVars, serverVars
  <2> QED BY <1>a, <1>b, <2>1, CallFrame
<1>2. ASSUME NEW t \in Tasks, Go(t) \/ SendCb(t)
      PROVE  /\ OnePlace' /\ ChanOnce' /\ ResultsAgree' /\ PendingCount'
             /\ [Promise!PNext]_(Promise!pvars)
  <2>1. UNCHANGED <<status, asynRet, cur, chanCall, peer, result, server, pendingAsyn>>
    BY <1>2 DEF Go, SendCb, clientVars, serverVars
  <2> QED BY <1>a, <1>b, <2>1, CallFrame
<1>3. CASE CloseServer
  <2>1. /\ UNCHANGED <<status, asynRet, cur, chanCall, peer, result, pendingAsyn>>
        /\ server = "select"
    BY <1>3 DEF CloseServer, clientVars
  <2>2. cur = <<>>
    BY <2>1, InHandIs DEF CallInv
  <2> QED BY <1>a, <1>b, <2>1, <2>2, CallFrame
<1>4. ASSUME NEW c \in Calls, AsynCall(c)
      PROVE  /\ OnePlace' /\ ChanOnce' /\ ResultsAgree' /\ PendingCount'
             /\ [Promise!PNext]_(Promise!pvars)
  <2>1. PendingCount'
    <3>1. CASE Pending' = Pending /\ pendingAsyn' = pendingAsyn
      BY <1>a, <3>1
    <3>2. CASE /\ c \notin Pending /\ Pending' = Pending \cup {c}
               /\ pendingAsyn' = pendingAsyn + 1 /\ pendingAsyn < AsynCap
      <4>1. Cardinality(Pending') = Cardinality(Pending) + 1
        BY <3>2, PendingFinite, FS_AddElement
      <4> QED BY <3>2, <4>1, Caps DEF PendingCount, CallInv, TypeOK
    <3> QED BY <1>4, <3>1, <3>2, AsynCallStep
  <2>2. UNCHANGED result /\ status[c] = "idle"
    BY <1>4 DEF AsynCall, serverVars
  <2>3. Promise!Ask(c) \/ Promise!TooMany(c)
    BY <1>4, <2>2, Caps DEF AsynCall, TooMany, Promise!Ask, Promise!TooMany, CallInv, TypeOK
  <2>4. Promise!PNext
    BY <2>3 DEF Promise!PNext
  <2> QED BY <1>4, <2>1, <2>4, AsynCallStep
<1>5. CASE TakeAnswer
  <2>1. PICK c \in Pending :
          /\ Pending' = Pending \ {c} /\ pendingAsyn' = pendingAsyn - 1 /\ UNCHANGED result
          /\ status' = [status EXCEPT ![c] = IF result[c] = "none" THEN "refused" ELSE result[c]]
    BY <1>5, TakeAnswerStep
  <2>2. Cardinality(Pending') = Cardinality(Pending) - 1
    BY <2>1, PendingFinite, FS_RemoveElement
  <2>3. PendingCount'
    BY <2>1, <2>2, Caps DEF PendingCount, CallInv, TypeOK
  <2>4. c \in Calls /\ Promise!CallBack(c)
    BY <2>1 DEF Promise!CallBack, Pending
  <2>5. Promise!PNext
    BY <2>4 DEF Promise!PNext
  <2> QED BY <1>5, <2>3, <2>5, TakeAnswerStep
<1>6. ASSUME NEW q \in Peers, SendCall(q) \/ SendPanics(q)
      PROVE  /\ OnePlace' /\ ChanOnce' /\ ResultsAgree' /\ PendingCount'
             /\ [Promise!PNext]_(Promise!pvars)
  <2>1. UNCHANGED <<status, result, pendingAsyn>>
    BY <1>6 DEF SendCall, SendPanics, clientVars, serverVars
  <2> QED BY <1>6, <1>a, <1>b, <2>1, SendStep
<1>7. ASSUME NEW r \in {"ok", "failed"}, Exec(r)
      PROVE  /\ OnePlace' /\ ChanOnce' /\ ResultsAgree' /\ PendingCount'
             /\ [Promise!PNext]_(Promise!pvars)
  <2>1. UNCHANGED <<status, pendingAsyn>>
    BY <1>7 DEF Exec, clientVars
  <2>2. CASE UNCHANGED result
    BY <1>7, <1>a, <1>b, <2>1, <2>2, ExecStep
  <2>3. ASSUME NEW c \in Pending, result[c] = "none", result' = [result EXCEPT ![c] = r]
        PROVE  Promise!PNext
    <3>1. c \in Calls /\ Promise!Run(c, r)
      BY <2>1, <2>3 DEF Promise!Run, Pending
    <3> QED BY <3>1 DEF Promise!PNext
  <2> QED BY <1>7, <1>a, <2>1, <2>2, <2>3, ExecStep
<1>8. CASE Answer \/ Drain
  <2>1. UNCHANGED <<status, result, pendingAsyn>>
    BY <1>8 DEF Answer, Drain, clientVars, serverVars
  <2> QED BY <1>8, <1>a, <1>b, <2>1, AnswerStep, DrainStep
<1>9. CASE UNCHANGED vars
  <2>1. UNCHANGED <<status, asynRet, cur, chanCall, peer, result, server, pendingAsyn>>
    BY <1>9 DEF vars, clientVars, serverVars
  <2> QED BY <1>a, <1>b, <2>1, CallFrame
<1> QED
  BY <1>1, <1>2, <1>3, <1>4, <1>5, <1>6, <1>7, <1>8, <1>9 DEF Next, Client, Server

LEMMA CallsInvariant == Spec => []CallsInv
<1>1. Init => CallsInv
  BY CallInit
<1>2. CallsInv /\ [Next]_vars => CallsInv'
  BY TypeStep, CallStep DEF CallsInv, CallInv
<1> QED BY <1>1, <1>2, PTL DEF Spec

(* ChanAsynRet has no more answers than there are pending calls, less the  *)
(* one the server has in hand.                                             *)
LEMMA Fits == CallsInv => AnswersFit
<1> SUFFICES ASSUME CallsInv PROVE AnswersFit
  OBVIOUS
<1>1. ASSUME NEW c \in InHand PROVE Len(asynRet) < AsynCap
  <2> DEFINE told == [i \in 1..Len(asynRet) |-> asynRet[i].call]
             T    == Pending \ {c}
  <2>1. DOMAIN asynRet = 1..Len(asynRet) /\ Len(asynRet) \in Nat
    BY DEF CallsInv, CallInv, TypeOK
  <2>2. \A i \in 1..Len(asynRet) : told[i] \in T
    BY <1>1, <2>1 DEF CallsInv, CallInv, OnePlace, Told
  <2>3. \A i, j \in 1..Len(asynRet) : told[i] = told[j] => i = j
    BY <2>1 DEF CallsInv, CallInv, OnePlace
  <2>4. told \in Injection(1..Len(asynRet), T)
    <3>1. told \in [1..Len(asynRet) -> T]
      BY <2>2
    <3> HIDE DEF told, T
    <3> QED BY <2>3, <3>1 DEF Injection, IsInjective
  <2>5. /\ IsFiniteSet(T) /\ Cardinality(T) = Cardinality(Pending) - 1
    BY <1>1, PendingFinite, FS_RemoveElement DEF CallsInv, CallInv, OnePlace
  <2> HIDE DEF told, T
  <2>6. Cardinality(1..Len(asynRet)) <= Cardinality(T)
    BY <2>4, <2>5, FS_Injection
  <2>7. Cardinality(1..Len(asynRet)) = Len(asynRet)
    <3> DEFINE n == Len(asynRet)
    <3>1. n \in Nat
      BY <2>1
    <3> HIDE DEF n
    <3>2. Cardinality(1..n) = IF 1 > n THEN 0 ELSE n - 1 + 1
      BY <3>1, FS_Interval
    <3>3. Cardinality(1..n) = n
      BY <3>1, <3>2
    <3> QED BY <3>3 DEF n
  <2> QED BY <2>1, <2>5, <2>6, <2>7, Caps DEF CallsInv, CallInv, PendingCount, TypeOK
<1> QED BY <1>1 DEF AnswersFit, CallsInv, PendingCount

(* No call is lost and none is answered twice, for every number of calls   *)
(* and callers; neither server nor client ever waits for room in           *)
(* ChanAsynRet.                                                            *)
THEOREM AnsweredOnce == Spec => []AnswerOnce
<1>1. CallsInv => TypeOK /\ OnePlace
  BY DEF CallsInv, CallInv
<1> QED BY <1>1, CallsInvariant, Fits, PTL DEF AnswerOnce

(* A skeleton keeps what it promises to those who use AsynCall.            *)
THEOREM PromiseKept == Spec => KeepsPromise
<1>1. Init => Promise!PInit
  BY DEF Init, Promise!PInit
<1>2. CallsInv /\ [Next]_vars => [Promise!PNext]_(Promise!pvars)
  BY CallStep
<1> QED BY <1>1, <1>2, CallsInvariant, PTL DEF Spec, KeepsPromise, Promise!PSpec

-----------------------------------------------------------------------------
(* The tasks: pendingGo counts those that are under way and the one whose  *)
(* callback runs; ChanCb holds those that were sent.                       *)
UnderWay == {t \in Tasks : task[t] \in {"queued", "run", "sent"}}
InTask   == IF code = "task" THEN 1 ELSE 0
GoCount  == pendingGo = Cardinality(UnderWay) + InTask
CbOnce   ==
  /\ Once(chanCb)
  /\ \A t \in Tasks : task[t] = "sent" <=> t \in Elems(chanCb)
DoneIs   == phase = "done" => code = "no" /\ pendingGo = 0 /\ pendingAsyn = 0

TaskInv == GoCount /\ CbOnce /\ DoneIs

(* The list of the LinearContext is the end of what was given to it, and   *)
(* callbacks of its tasks are in ChanCb in the order they were given.      *)
Ran == Len(began) - Len(linearGo)
LinearQueue ==
  /\ Ran \in Nat
  /\ \A i \in 1..Len(linearGo) : linearGo[i] = began[Ran + i]
  /\ Once(began)
  /\ \A i \in 1..Len(began) : /\ task[began[i]] # "idle"
                              /\ task[began[i]] = "queued" <=> i > Ran
CbOrder ==
  \A i, j \in 1..Len(began) : \A a, b \in 1..Len(chanCb) :
    i < j /\ chanCb[a] = began[i] /\ chanCb[b] = began[j] => a < b

LinearInv == LinearQueue /\ LinearInOrder /\ CbOrder

LEMMA TasksFinite == IsFiniteSet(UnderWay) /\ IsFiniteSet(UnderWay)'
BY TasksAssumption, FS_Subset DEF UnderWay

LEMMA TaskInit == Init => TaskInv
<1> SUFFICES ASSUME Init PROVE TaskInv
  OBVIOUS
<1>1. UnderWay = {} /\ Elems(chanCb) = {}
  BY DEF Init, UnderWay, Elems
<1> QED BY <1>1, FS_EmptySet DEF Init, TaskInv, GoCount, CbOnce, DoneIs, InTask, Once

(* One task moves from a state to another.                                 *)
LEMMA TaskMoves ==
  ASSUME TypeOK, NEW t \in Tasks, NEW s \in {"queued", "run", "sent", "back"},
         task' = [task EXCEPT ![t] = s]
  PROVE  /\ \A u \in Tasks : task'[u] = IF u = t THEN s ELSE task[u]
         /\ t \in UnderWay /\ s # "back" => Cardinality(UnderWay') = Cardinality(UnderWay)
         /\ t \in UnderWay /\ s = "back" => Cardinality(UnderWay') = Cardinality(UnderWay) - 1
         /\ t \notin UnderWay /\ s # "back" => Cardinality(UnderWay') = Cardinality(UnderWay) + 1
<1>1. \A u \in Tasks : task'[u] = IF u = t THEN s ELSE task[u]
  BY DEF TypeOK
<1>2. s # "back" => UnderWay' = UnderWay \cup {t}
  BY <1>1 DEF UnderWay
<1>3. s = "back" => UnderWay' = UnderWay \ {t}
  BY <1>1 DEF UnderWay
<1> QED BY <1>1, <1>2, <1>3, TasksFinite, FS_AddElement, FS_RemoveElement

LEMMA HeadIsNext ==
  ASSUME TypeOK, LinearQueue, linearGo # <<>>
  PROVE  /\ Head(linearGo) \in Tasks /\ Head(linearGo) \in Linear
         /\ Ran + 1 \in 1..Len(began) /\ Head(linearGo) = began[Ran + 1]
         /\ task[Head(linearGo)] = "queued"
<1>1. linearGo \in Seq(Linear) /\ began \in Seq(Linear)
  BY DEF TypeOK
<1>2. /\ Head(linearGo) = linearGo[1] /\ Head(linearGo) \in Linear
      /\ Len(linearGo) \in Nat /\ Len(linearGo) > 0 /\ Len(began) \in Nat
  BY <1>1
<1>3. Ran + 1 \in 1..Len(began) /\ Ran + 1 > Ran
  BY <1>2 DEF LinearQueue, Ran
<1>4. Head(linearGo) = began[Ran + 1]
  BY <1>2 DEF LinearQueue
<1> QED BY <1>2, <1>3, <1>4, TasksAssumption DEF LinearQueue

LEMMA TaskStep == ASSUME TypeOK, TaskInv, LinearQueue, [Next]_vars PROVE TaskInv'
<1> USE DEF TaskInv, clientVars, taskVars
<1>0. Cardinality(UnderWay) \in Nat /\ pendingGo \in Int
  BY TasksFinite, FS_CardinalityType DEF TypeOK
<1>f. ASSUME UNCHANGED <<task, chanCb, pendingGo>>, (code = "task") = (code' = "task"), DoneIs'
      PROVE  TaskInv'
  <2>1. UnderWay' = UnderWay /\ InTask' = InTask
    BY <1>f DEF UnderWay, InTask
  <2> QED BY <1>f, <2>1 DEF GoCount, CbOnce, Once, Elems
<1>1. CASE Handle
  BY <1>1, <1>f DEF Handle, DoneIs
<1>2. CASE Return
  <2>1. UnderWay' = UnderWay /\ CbOnce'
    BY <1>2 DEF Return, UnderWay, CbOnce, Once, Elems
  <2>2. GoCount'
    BY <1>0, <1>2, <2>1 DEF Return, GoCount, InTask
  <2> QED BY <1>2, <2>1, <2>2 DEF Return, DoneIs
<1>3. ASSUME NEW c \in Calls, AsynCall(c) PROVE TaskInv'
  BY <1>3, <1>f DEF AsynCall, DoneIs
<1>4. ASSUME NEW t \in Tasks, Go(t) PROVE TaskInv'
  <2> DEFINE s == IF t \in Linear THEN "queued" ELSE "run"
  <2>1. /\ task' = [task EXCEPT ![t] = s] /\ task[t] = "idle" /\ pendingGo' = pendingGo + 1
        /\ UNCHANGED <<code, phase, pendingAsyn, chanCb>> /\ code # "no"
    <3>1. task' = [task EXCEPT ![t] = s]
      BY <1>4, Zenon DEF Go
    <3>2. task[t] = "idle" /\ pendingGo' = pendingGo + 1 /\ code # "no"
      BY <1>4 DEF Go
    <3>3. UNCHANGED <<code, phase, pendingAsyn, chanCb>>
      BY <1>4 DEF Go
    <3> QED BY <3>1, <3>2, <3>3
  <2>2. s \in {"queued", "run"} /\ t \notin UnderWay
    BY <2>1 DEF UnderWay
  <2> HIDE DEF s
  <2>3. /\ \A u \in Tasks : task'[u] = IF u = t THEN s ELSE task[u]
        /\ Cardinality(UnderWay') = Cardinality(UnderWay) + 1
    <3>1. s \in {"queued", "run", "sent", "back"} /\ s # "back"
      BY <2>2
    <3> QED BY <2>1, <2>2, <3>1, TaskMoves
  <2>4. GoCount'
    BY <1>0, <2>1, <2>3 DEF GoCount, InTask
  <2>5. CbOnce'
    BY <2>1, <2>2, <2>3 DEF CbOnce, Once, Elems
  <2> QED BY <2>1, <2>4, <2>5 DEF DoneIs
<1>5. CASE TakeAnswer
  BY <1>5, <1>f DEF TakeAnswer, DoneIs
<1>6. CASE TakeCb
  <2> DEFINE h == Head(chanCb)
  <2>1. /\ task' = [task EXCEPT ![h] = "back"] /\ chanCb' = Tail(chanCb) /\ chanCb # <<>>
        /\ code = "no" /\ code' = "task" /\ phase # "done" /\ UNCHANGED <<phase, pendingGo>>
    BY <1>6 DEF TakeCb
  <2>2. chanCb \in Seq(Tasks) /\ Once(chanCb)
    BY DEF TypeOK, CbOnce
  <2>3. /\ h \in Elems(chanCb) /\ h \in Tasks /\ Elems(chanCb') = Elems(chanCb) \ {h}
        /\ Once(chanCb')
    BY <2>1, <2>2, TailElems
  <2> HIDE DEF h
  <2>4. task[h] = "sent" /\ h \in UnderWay
    BY <2>3 DEF CbOnce, UnderWay
  <2>5. /\ \A u \in Tasks : task'[u] = IF u = h THEN "back" ELSE task[u]
        /\ Cardinality(UnderWay') = Cardinality(UnderWay) - 1
    BY <2>1, <2>3, <2>4, TaskMoves
  <2>6. GoCount'
    BY <1>0, <2>1, <2>5 DEF GoCount, InTask
  <2>7. CbOnce'
    BY <2>3, <2>5 DEF CbOnce
  <2> QED BY <2>1, <2>6, <2>7 DEF DoneIs
<1>7. CASE CloseClient \/ GoClosed \/ CallsClosed
  <2>1. DoneIs'
    BY <1>7 DEF CloseClient, GoClosed, CallsClosed, GoOn, DoneIs
  <2> QED BY <1>7, <1>f, <2>1 DEF CloseClient, GoClosed, CallsClosed
<1>8. CASE TakeLinear
  <2> DEFINE h == Head(linearGo)
  <2>1. /\ task' = [task EXCEPT ![h] = "run"] /\ linearGo # <<>>
        /\ UNCHANGED <<code, phase, pendingGo, pendingAsyn, chanCb>>
    BY <1>8 DEF TakeLinear, clientVars
  <2>2. h \in Tasks /\ task[h] = "queued"
    BY <2>1, HeadIsNext
  <2> HIDE DEF h
  <2>3. h \in UnderWay
    BY <2>2 DEF UnderWay
  <2>4. /\ \A u \in Tasks : task'[u] = IF u = h THEN "run" ELSE task[u]
        /\ Cardinality(UnderWay') = Cardinality(UnderWay)
    BY <2>1, <2>2, <2>3, TaskMoves
  <2>5. GoCount' /\ DoneIs'
    BY <1>0, <2>1, <2>4 DEF GoCount, InTask, DoneIs
  <2>6. CbOnce'
    BY <2>1, <2>2, <2>4 DEF CbOnce, Once, Elems
  <2> QED BY <2>5, <2>6
<1>9. ASSUME NEW t \in Tasks, SendCb(t) PROVE TaskInv'
  <2>1. /\ task' = [task EXCEPT ![t] = "sent"] /\ task[t] = "run" /\ chanCb' = Append(chanCb, t)
        /\ UNCHANGED <<code, phase, pendingGo, pendingAsyn>>
    BY <1>9 DEF SendCb, clientVars
  <2>2. t \in UnderWay /\ t \notin Elems(chanCb)
    BY <2>1 DEF UnderWay, CbOnce
  <2>3. /\ \A u \in Tasks : task'[u] = IF u = t THEN "sent" ELSE task[u]
        /\ Cardinality(UnderWay') = Cardinality(UnderWay)
    BY <2>1, <2>2, TaskMoves
  <2>4. GoCount' /\ DoneIs'
    BY <1>0, <2>1, <2>3 DEF GoCount, InTask, DoneIs
  <2>5. Elems(chanCb') = Elems(chanCb) \cup {t} /\ Once(chanCb')
    BY <2>1, <2>2, AppendElems DEF CbOnce, TypeOK
  <2>6. CbOnce'
    BY <2>3, <2>5 DEF CbOnce
  <2> QED BY <2>4, <2>6
<1>10. ASSUME NEW q \in Peers, SendCall(q) \/ SendPanics(q) PROVE TaskInv'
  BY <1>10, <1>f DEF SendCall, SendPanics, DoneIs
<1>11. ASSUME NEW r \in {"ok", "failed"}, Exec(r) PROVE TaskInv'
  BY <1>11, <1>f DEF Exec, DoneIs
<1>12. CASE Answer \/ CloseServer \/ Drain
  BY <1>12, <1>f DEF Answer, CloseServer, Drain, DoneIs
<1>13. CASE UNCHANGED vars
  BY <1>13, <1>f DEF vars, DoneIs
<1> QED
  BY <1>1, <1>2, <1>3, <1>4, <1>5, <1>6, <1>7, <1>8, <1>9, <1>10, <1>11, <1>12, <1>13
  DEF Next, Client, Server

LEMMA LinearInit == Init => LinearInv
<1> SUFFICES ASSUME Init PROVE LinearInv
  OBVIOUS
<1>1. began = <<>> /\ linearGo = <<>> /\ Len(began) = 0 /\ Len(linearGo) = 0
  BY DEF Init
<1>2. Ran \in Nat
  BY <1>1 DEF Ran
<1> QED BY <1>1, <1>2 DEF LinearInv, LinearQueue, LinearInOrder, CbOrder, Once

LEMMA LinearFrame ==
  ASSUME LinearInv, UNCHANGED taskVars
  PROVE  LinearInv'
<1>1. Ran' = Ran
  BY DEF Ran, taskVars
<1> QED BY <1>1 DEF LinearInv, LinearQueue, LinearInOrder, CbOrder, Once, taskVars

(* Every step keeps the tasks of the LinearContext in their order.         *)
LEMMA LinearStep ==
  ASSUME TypeOK, TaskInv, LinearInv, [Next]_vars
  PROVE  LinearInv'
<1> USE DEF LinearInv
<1>0. /\ began \in Seq(Linear) /\ linearGo \in Seq(Linear) /\ chanCb \in Seq(Tasks)
      /\ DOMAIN began = 1..Len(began) /\ Len(began) \in Nat /\ Len(linearGo) \in Nat
      /\ DOMAIN chanCb = 1..Len(chanCb) /\ Len(chanCb) \in Nat
      /\ \A i \in 1..Len(began) : began[i] \in Linear /\ began[i] \in Tasks
  BY TasksAssumption DEF TypeOK
<1>1. CASE UNCHANGED taskVars
  BY <1>1, LinearFrame
<1>2. CASE Return
  <2>1. UNCHANGED <<task, linearGo, chanCb, began>>
    BY <1>2 DEF Return
  <2>2. Ran' = Ran
    BY <2>1 DEF Ran
  <2> QED BY <2>1, <2>2 DEF LinearQueue, LinearInOrder, CbOrder, Once
<1>3. ASSUME NEW t \in Tasks, Go(t) PROVE LinearInv'
  <2>1. task[t] = "idle" /\ UNCHANGED chanCb
    BY <1>3 DEF Go
  <2>2. \A i \in 1..Len(began) : began[i] # t
    BY <2>1 DEF LinearQueue
  <2>3. \A a \in 1..Len(chanCb) : chanCb[a] # t
    BY <1>0, <2>1 DEF TaskInv, CbOnce, Elems
  <2>4. CASE t \notin Linear
    <3>1. UNCHANGED <<linearGo, began>> /\ \A u \in Tasks : u # t => task'[u] = task[u]
      BY <1>3, <2>4 DEF Go, TypeOK
    <3>2. Ran' = Ran
      BY <3>1 DEF Ran
    <3>3. \A i \in 1..Len(began) : task'[began[i]] = task[began[i]]
      BY <1>0, <2>2, <3>1
    <3>4. LinearQueue'
      BY <3>1, <3>2, <3>3 DEF LinearQueue, Once
    <3>5. LinearInOrder'
      BY <1>0, <3>1, <3>3 DEF LinearInOrder
    <3>6. CbOrder'
      BY <2>1, <3>1 DEF CbOrder
    <3> QED BY <3>4, <3>5, <3>6
  <2>5. CASE t \in Linear
    <3>1. linearGo' = Append(linearGo, t) /\ began' = Append(began, t)
      BY <1>3, <2>5 DEF Go
    <3>2. \A u \in Tasks : task'[u] = IF u = t THEN "queued" ELSE task[u]
      BY <1>3, <2>5 DEF Go, TypeOK
    <3>3. /\ Len(began') = Len(began) + 1 /\ Len(linearGo') = Len(linearGo) + 1
          /\ DOMAIN began' = 1..(Len(began) + 1)
          /\ began'[Len(began) + 1] = t /\ linearGo'[Len(linearGo) + 1] = t
          /\ \A i \in 1..Len(began) : began'[i] = began[i]
          /\ \A i \in 1..Len(linearGo) : linearGo'[i] = linearGo[i]
      BY <1>0, <2>5, <3>1
    <3>4. Ran' = Ran
      BY <1>0, <3>3 DEF Ran
    <3>5. \A i \in 1..Len(began) : task'[began'[i]] = task[began[i]] /\ began'[i] # t
      BY <1>0, <2>2, <3>2, <3>3
    <3>6. task'[began'[Len(began) + 1]] = "queued"
      BY <3>2, <3>3
    <3>7. Ran + Len(linearGo) = Len(began)
      BY <1>0 DEF Ran
    <3>8. LinearQueue'
      <4>1. \A i \in 1..Len(linearGo') : linearGo'[i] = began'[Ran + i]
        <5>1. ASSUME NEW i \in 1..Len(linearGo') PROVE linearGo'[i] = began'[Ran + i]
          <6>1. CASE i \in 1..Len(linearGo)
            <7>1. Ran + i \in 1..Len(began) /\ linearGo[i] = began[Ran + i]
              BY <1>0, <3>7, <6>1 DEF LinearQueue
            <7> QED BY <3>3, <6>1, <7>1
          <6>2. CASE i = Len(linearGo) + 1
            <7>1. Ran + i = Len(began) + 1
              BY <1>0, <3>7, <6>2 DEF LinearQueue
            <7> QED BY <3>3, <6>2, <7>1
          <6> QED BY <1>0, <3>3, <6>1, <6>2
        <5> QED BY <5>1
      <4>2. Once(began')
        BY <1>0, <3>3, <3>5 DEF LinearQueue, Once
      <4>3. \A i \in 1..Len(began') : /\ task'[began'[i]] # "idle"
                                      /\ task'[began'[i]] = "queued" <=> i > Ran
        <5>1. ASSUME NEW i \in 1..Len(began')
              PROVE  /\ task'[began'[i]] # "idle"
                     /\ task'[began'[i]] = "queued" <=> i > Ran
          <6>1. CASE i \in 1..Len(began)
            BY <3>5, <6>1 DEF LinearQueue
          <6>2. CASE i = Len(began) + 1
            <7>1. i > Ran
              BY <1>0, <3>7, <6>2 DEF LinearQueue
            <7> QED BY <3>6, <6>2, <7>1
          <6> QED BY <1>0, <3>3, <6>1, <6>2
        <5> QED BY <5>1
      <4> QED BY <3>4, <4>1, <4>2, <4>3 DEF LinearQueue
    <3>9. LinearInOrder'
      <4>1. ASSUME NEW i \in 1..Len(began'), NEW j \in 1..Len(began'), i < j
            PROVE  /\ task'[began'[j]] # "queued" => task'[began'[i]] \in {"sent", "back"}
                   /\ task'[began'[j]] = "back" => task'[began'[i]] = "back"
        <5>1. CASE j \in 1..Len(began)
          <6>1. i \in 1..Len(began)
            BY <1>0, <3>3, <4>1, <5>1
          <6> QED BY <1>0, <3>5, <4>1, <5>1, <6>1 DEF LinearInOrder
        <5>2. CASE j = Len(began) + 1
          BY <3>6, <5>2
        <5> QED BY <1>0, <3>3, <5>1, <5>2
      <4>2. DOMAIN began' = 1..Len(began')
        BY <3>3
      <4> QED BY <4>1, <4>2 DEF LinearInOrder
    <3>10. CbOrder'
      <4>1. ASSUME NEW i \in 1..Len(began'), NEW j \in 1..Len(began'),
                   NEW a \in 1..Len(chanCb), NEW b \in 1..Len(chanCb),
                   i < j, chanCb[a] = began'[i], chanCb[b] = began'[j]
            PROVE  a < b
        <5>1. i # Len(began) + 1 /\ j # Len(began) + 1
          BY <2>3, <3>3, <4>1
        <5>2. i \in 1..Len(began) /\ j \in 1..Len(began)
          BY <1>0, <3>3, <5>1
        <5> QED BY <3>3, <4>1, <5>2 DEF CbOrder
      <4> QED BY <2>1, <4>1 DEF CbOrder
    <3> QED BY <3>8, <3>9, <3>10
  <2> QED BY <2>4, <2>5
<1>4. CASE TakeCb
  <2> DEFINE h == Head(chanCb)
  <2>1. /\ chanCb # <<>> /\ chanCb' = Tail(chanCb) /\ task' = [task EXCEPT ![h] = "back"]
        /\ UNCHANGED <<linearGo, began>>
    BY <1>4 DEF TakeCb
  <2>2. /\ Len(chanCb) > 0 /\ h = chanCb[1] /\ h \in Tasks /\ Len(chanCb') = Len(chanCb) - 1
        /\ \A a \in 1..Len(chanCb') : chanCb'[a] = chanCb[a + 1]
    BY <1>0, <2>1
  <2> HIDE DEF h
  <2>3. \A u \in Tasks : task'[u] = IF u = h THEN "back" ELSE task[u]
    BY <2>1, <2>2 DEF TypeOK
  <2>4. task[h] = "sent"
    BY <1>0, <2>2 DEF TaskInv, CbOnce, Elems
  <2>5. Ran' = Ran
    BY <2>1 DEF Ran
  <2>6. LinearQueue'
    <3>1. \A i \in 1..Len(began) : /\ task'[began[i]] # "idle"
                                   /\ task'[began[i]] = "queued" <=> i > Ran
      <4> SUFFICES ASSUME NEW i \in 1..Len(began)
                   PROVE  /\ task'[began[i]] # "idle"
                          /\ task'[began[i]] = "queued" <=> i > Ran
        OBVIOUS
      <4>1. /\ task[began[i]] # "idle"
            /\ task[began[i]] = "queued" <=> i > Ran
        BY <1>0 DEF LinearQueue
      <4>2. began[i] \in Tasks
        BY <1>0, TasksAssumption DEF TypeOK
      <4> QED BY <2>3, <2>4, <4>1, <4>2
    <3> QED BY <1>0, <2>1, <2>5, <3>1 DEF LinearQueue
  <2>7. ASSUME NEW i \in 1..Len(began), NEW j \in 1..Len(began), i < j, began[j] = h
        PROVE  task[began[i]] = "back"
    <3>1. task[began[i]] \in {"sent", "back"}
      BY <1>0, <2>4, <2>7 DEF LinearInOrder
    <3>2. ASSUME task[began[i]] = "sent" PROVE FALSE
      <4>1. PICK a \in 1..Len(chanCb) : chanCb[a] = began[i]
        BY <1>0, <3>2 DEF TaskInv, CbOnce, Elems
      <4>2. a < 1
        BY <1>0, <2>2, <2>7, <4>1 DEF CbOrder
      <4> QED BY <4>1, <4>2
    <3> QED BY <3>1, <3>2
  <2>8. LinearInOrder'
    BY <1>0, <2>1, <2>3, <2>4, <2>7 DEF LinearInOrder
  <2>9. CbOrder'
    BY <1>0, <2>1, <2>2 DEF CbOrder
  <2> QED BY <2>6, <2>8, <2>9
<1>5. CASE TakeLinear
  <2> DEFINE h == Head(linearGo)
  <2>1. /\ linearGo # <<>> /\ linearGo' = Tail(linearGo) /\ task' = [task EXCEPT ![h] = "run"]
        /\ UNCHANGED <<chanCb, began>> /\ \A t \in Linear : task[t] # "run"
    BY <1>5 DEF TakeLinear, ExecutionFree
  <2>2. /\ h \in Tasks /\ Ran + 1 \in 1..Len(began) /\ h = began[Ran + 1] /\ task[h] = "queued"
    BY <2>1, HeadIsNext
  <2>3. /\ Len(linearGo') = Len(linearGo) - 1 /\ Len(linearGo) > 0
        /\ \A i \in 1..Len(linearGo') : linearGo'[i] = linearGo[i + 1]
    BY <1>0, <2>1
  <2> HIDE DEF h
  <2>4. \A u \in Tasks : task'[u] = IF u = h THEN "run" ELSE task[u]
    BY <2>1, <2>2 DEF TypeOK
  <2>5. Ran' = Ran + 1 /\ Ran \in Nat
    BY <1>0, <2>1, <2>3 DEF Ran, LinearQueue
  <2>6. \A i \in 1..Len(began) : began[i] = h => i = Ran + 1
    BY <1>0, <2>2 DEF LinearQueue, Once
  <2>7. LinearQueue'
    <3>1. \A i \in 1..Len(linearGo') : linearGo'[i] = began'[Ran' + i]
      BY <1>0, <2>1, <2>3, <2>5 DEF LinearQueue
    <3>2. \A i \in 1..Len(began') : /\ task'[began'[i]] # "idle"
                                    /\ task'[began'[i]] = "queued" <=> i > Ran'
      BY <1>0, <2>1, <2>2, <2>4, <2>5, <2>6 DEF LinearQueue
    <3> QED BY <2>1, <2>5, <3>1, <3>2 DEF LinearQueue, Once
  <2>8. ASSUME NEW i \in 1..Len(began), i < Ran + 1
        PROVE  task'[began'[i]] \in {"sent", "back"}
    <3>1. began[i] # h /\ task[began[i]] \notin {"idle", "queued", "run"}
      BY <1>0, <2>1, <2>2, <2>5, <2>6, <2>8 DEF LinearQueue
    <3> QED BY <1>0, <2>1, <2>4, <3>1 DEF TypeOK
  <2>9. ASSUME NEW i \in DOMAIN began', NEW j \in DOMAIN began', i < j
        PROVE  /\ task'[began'[j]] # "queued" => task'[began'[i]] \in {"sent", "back"}
               /\ task'[began'[j]] = "back" => task'[began'[i]] = "back"
    <3>1. CASE j = Ran + 1
      BY <1>0, <2>1, <2>2, <2>4, <2>8, <2>9, <3>1
    <3>2. CASE j # Ran + 1
      <4>1. task'[began'[j]] = task[began[j]]
        BY <1>0, <2>1, <2>4, <2>6, <2>9, <3>2
      <4>2. CASE i = Ran + 1
        BY <1>0, <2>1, <2>2, <2>5, <2>9, <4>1, <4>2 DEF LinearQueue
      <4>3. CASE i # Ran + 1
        <5>1. task'[began'[i]] = task[began[i]]
          BY <1>0, <2>1, <2>4, <2>6, <2>9, <4>3
        <5> QED BY <1>0, <2>1, <2>9, <4>1, <5>1 DEF LinearInOrder
      <4> QED BY <4>2, <4>3
    <3> QED BY <3>1, <3>2
  <2>10. CbOrder'
    BY <2>1 DEF CbOrder
  <2> QED BY <2>7, <2>9, <2>10 DEF LinearInOrder
<1>6. ASSUME NEW t \in Tasks, SendCb(t) PROVE LinearInv'
  <2>1. /\ task[t] = "run" /\ chanCb' = Append(chanCb, t) /\ task' = [task EXCEPT ![t] = "sent"]
        /\ UNCHANGED <<linearGo, began>>
    BY <1>6 DEF SendCb
  <2>2. /\ Len(chanCb') = Len(chanCb) + 1 /\ chanCb'[Len(chanCb) + 1] = t
        /\ \A a \in 1..Len(chanCb) : chanCb'[a] = chanCb[a]
    BY <1>0, <2>1
  <2>3. \A u \in Tasks : task'[u] = IF u = t THEN "sent" ELSE task[u]
    BY <2>1 DEF TypeOK
  <2>4. Ran' = Ran
    BY <2>1 DEF Ran
  <2>5. LinearQueue'
    <3>1. \A i \in 1..Len(began) : /\ task'[began[i]] # "idle"
                                   /\ task'[began[i]] = "queued" <=> i > Ran
      <4> SUFFICES ASSUME NEW i \in 1..Len(began)
                   PROVE  /\ task'[began[i]] # "idle"
                          /\ task'[began[i]] = "queued" <=> i > Ran
        OBVIOUS
      <4>1. /\ task[began[i]] # "idle"
            /\ task[began[i]] = "queued" <=> i > Ran
        BY <1>0 DEF LinearQueue
      <4>2. began[i] \in Tasks
        BY <1>0, TasksAssumption DEF TypeOK
      <4> QED BY <2>1, <2>3, <4>1, <4>2
    <3> QED BY <1>0, <2>1, <2>4, <3>1 DEF LinearQueue
  <2>6. LinearInOrder'
    BY <1>0, <2>1, <2>3 DEF LinearInOrder
  <2>7. ASSUME NEW a \in 1..Len(chanCb) PROVE task[chanCb[a]] = "sent"
    <3>1. chanCb[a] \in Tasks /\ chanCb[a] \in Elems(chanCb)
      BY <1>0 DEF Elems
    <3> QED BY <3>1 DEF TaskInv, CbOnce
  <2>8. ASSUME NEW i \in 1..Len(began'), NEW j \in 1..Len(began'),
               NEW a \in 1..Len(chanCb'), NEW b \in 1..Len(chanCb'),
               i < j, chanCb'[a] = began'[i], chanCb'[b] = began'[j]
        PROVE  a < b
    <3>1. CASE b \in 1..Len(chanCb) /\ a \in 1..Len(chanCb)
      BY <2>1, <2>2, <2>8, <3>1 DEF CbOrder
    <3>2. CASE b = Len(chanCb) + 1 /\ a \in 1..Len(chanCb)
      BY <1>0, <3>2
    <3>3. CASE a = Len(chanCb) + 1 /\ b = Len(chanCb) + 1
      <4>1. began[i] = t /\ began[j] = t
        BY <2>1, <2>2, <2>8, <3>3
      <4>2. i = j
        BY <1>0, <2>1, <4>1 DEF LinearQueue, Once
      <4> QED BY <1>0, <2>1, <2>8, <4>2
    <3>4. CASE a = Len(chanCb) + 1 /\ b \in 1..Len(chanCb)
      <4>1. began[i] = t /\ task[began[j]] = "sent"
        BY <2>1, <2>2, <2>7, <2>8, <3>4
      <4>2. task[began[i]] \in {"sent", "back"}
        BY <1>0, <2>1, <2>8, <4>1 DEF LinearInOrder
      <4> QED BY <2>1, <4>1, <4>2
    <3> QED BY <1>0, <2>2, <3>1, <3>2, <3>3, <3>4
  <2>9. CbOrder'
    BY <2>8 DEF CbOrder
  <2> QED BY <2>5, <2>6, <2>9
<1>7. CASE UNCHANGED vars
  BY <1>1, <1>7 DEF vars
<1>8. CASE \/ Handle \/ TakeAnswer \/ CloseClient \/ GoClosed \/ CallsClosed
           \/ CloseServer \/ Answer \/ Drain
           \/ \E c \in Calls : AsynCall(c)
           \/ \E q \in Peers : SendCall(q) \/ SendPanics(q)
           \/ \E r \in {"ok", "failed"} : Exec(r)
  BY <1>1, <1>8 DEF Handle, TakeAnswer, CloseClient, GoClosed, CallsClosed, CloseServer, Answer,
     Drain, AsynCall, SendCall, SendPanics, Exec
<1> QED
  BY <1>2, <1>3, <1>4, <1>5, <1>6, <1>7, <1>8 DEF Next, Client, Server

SkeletonInv == CallsInv /\ TaskInv /\ LinearInv

LEMMA SkeletonInvariant == Spec => []SkeletonInv
<1>1. Init => SkeletonInv
  BY CallInit, TaskInit, LinearInit DEF SkeletonInv
<1>2. SkeletonInv /\ [Next]_vars => SkeletonInv'
  BY TypeStep, CallStep, TaskStep, LinearStep DEF SkeletonInv, CallsInv, CallInv, LinearInv
<1> QED BY <1>1, <1>2, PTL DEF Spec

(* The tasks of a LinearContext run and are called back in the order they  *)
(* were given, however many goroutines compete for the mutex.              *)
THEOREM LinearStaysInOrder == Spec => []LinearInOrder
BY SkeletonInvariant, PTL DEF SkeletonInv, LinearInv

(* A skeleton that has closed left no call and no task behind.             *)
THEOREM ClosedLeavesNothing == Spec => []ClosedIsQuiet
<1>1. SkeletonInv => ClosedIsQuiet
  <2> SUFFICES ASSUME SkeletonInv, phase = "done" PROVE
        /\ Pending = {} /\ asynRet = <<>> /\ chanCb = <<>>
        /\ \A t \in Tasks : task[t] \in {"idle", "back"}
    BY DEF ClosedIsQuiet
  <2>1. code = "no" /\ pendingGo = 0 /\ pendingAsyn = 0
    BY DEF SkeletonInv, TaskInv, DoneIs
  <2>2. Pending = {}
    <3>1. Cardinality(Pending) = 0
      BY <2>1 DEF SkeletonInv, CallsInv, PendingCount
    <3> QED BY <3>1, PendingFinite, FS_EmptySet
  <2>3. UnderWay = {}
    <3>1. Cardinality(UnderWay) \in Nat
      BY TasksFinite, FS_CardinalityType
    <3>2. Cardinality(UnderWay) = 0
      BY <2>1, <3>1 DEF SkeletonInv, TaskInv, GoCount, InTask
    <3> QED BY <3>2, TasksFinite, FS_EmptySet
  <2>4. asynRet = <<>>
    <3>1. Told = {} /\ asynRet \in Seq(Answers)
      BY <2>2 DEF SkeletonInv, CallsInv, CallInv, OnePlace, TypeOK, Answers
    <3>2. Len(asynRet) \in Nat /\ DOMAIN asynRet = 1..Len(asynRet)
      BY <3>1
    <3>3. ASSUME Len(asynRet) > 0 PROVE FALSE
      <4>1. 1 \in DOMAIN asynRet
        BY <3>2, <3>3
      <4>2. asynRet[1].call \in Told
        BY <4>1 DEF Told
      <4> QED BY <3>1, <4>2
    <3>4. Len(asynRet) = 0
      BY <3>2, <3>3
    <3> QED BY <3>1, <3>4
  <2>5. \A t \in Tasks : task[t] \in {"idle", "back"}
    <3>1. task \in [Tasks -> {"idle", "queued", "run", "sent", "back"}]
      BY DEF SkeletonInv, CallsInv, CallInv, TypeOK
    <3> QED BY <2>3, <3>1 DEF UnderWay
  <2>6. chanCb = <<>>
    <3>1. chanCb \in Seq(Tasks)
      BY DEF SkeletonInv, CallsInv, CallInv, TypeOK
    <3>2. /\ Len(chanCb) \in Nat /\ DOMAIN chanCb = 1..Len(chanCb)
          /\ \A i \in 1..Len(chanCb) : chanCb[i] \in Tasks
      BY <3>1
    <3>3. \A i \in 1..Len(chanCb) : task[chanCb[i]] = "sent"
      BY <3>2 DEF SkeletonInv, TaskInv, CbOnce, Elems
    <3>4. Len(chanCb) = 0
      BY <2>5, <3>2, <3>3
    <3> QED BY <3>1, <3>4
  <2> QED BY <2>2, <2>4, <2>5, <2>6
<1> QED BY <1>1, SkeletonInvariant, PTL
=============================================================================
