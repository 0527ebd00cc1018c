------------------------------ MODULE Skeleton ------------------------------
(***************************************************************************)
(* The loop every module of the server runs (leaf/module/skeleton.go), its *)
(* calls to other modules (leaf/chanrpc/chanrpc.go) and its goroutines     *)
(* with a callback (leaf/go/go.go).  Two skeletons meet here, each with    *)
(* the half that the other one needs:                                      *)
(*                                                                         *)
(*   the client  makes asynchronous calls and starts tasks, and runs their *)
(*               callbacks, which may make more of both;                   *)
(*   the server  executes what arrives in ChanCall.                        *)
(*                                                                         *)
(* Other goroutines call the server synchronously (Call0, Call1, CallN),   *)
(* or post to it (Go).  Either skeleton may be told to close at any time.  *)
(***************************************************************************)
EXTENDS Integers, Sequences, FiniteSets

CONSTANTS Calls,        (* asynchronous calls, each made at most once        *)
          Unregistered, (* those that name a function the server lacks       *)
          Callers,      (* goroutines that make one synchronous call         *)
          Posts,        (* goroutines that post one message                  *)
          Tasks,        (* functions run in a goroutine, once each           *)
          Linear,       (* those of one LinearContext                        *)
          AsynCap,      (* AsynCallLen                                       *)
          CallCap,      (* capacity of the server's ChanCall                 *)
          GoCap         (* GoLen                                             *)

ASSUME CallsAssumption == IsFiniteSet(Calls) /\ Unregistered \subseteq Calls
ASSUME KindsAssumption == Calls \cap (Callers \cup Posts) = {} /\ Callers \cap Posts = {}
ASSUME TasksAssumption == IsFiniteSet(Tasks) /\ Linear \subseteq Tasks
ASSUME CapAssumption == {AsynCap, CallCap, GoCap} \subseteq Nat \ {0}

VARIABLES
  phase,       (* client: "run", closing in "go" or in "client", or "done"   *)
  code,        (* client: the code its loop is in: "no", a handler or the    *)
               (* callback of a call ("handler"), or of a task ("task")      *)
  pendingAsyn, (* pendingAsynCall                                            *)
  asynRet,     (* ChanAsynRet: answers waiting for the client                *)
  status,      (* per call: "idle", "pending", or what its callback was told *)
  pendingGo,
  task,        (* per task: "idle", "queued", "run", "sent", "back"          *)
  linearGo,    (* the list of the LinearContext                              *)
  chanCb,      (* ChanCb: tasks whose callback waits for the client          *)
  began,       (* HISTORY: the linear tasks in the order they were given     *)
  server,      (* "select", how the function it called ended ("ok",          *)
               (* "failed") until that is answered, or "closed"              *)
  cur,         (* <<>> or what the server has called                         *)
  chanCall,    (* ChanCall: calls, callers and posts waiting for the server  *)
  chanClosed,
  peer,        (* per caller and post: "send", "sent", or its end            *)
  result       (* HISTORY: per call "none", or what its execution came to    *)

clientVars == <<phase, code, pendingAsyn, status>>
taskVars   == <<pendingGo, task, linearGo, chanCb, began>>
serverVars == <<server, cur, chanClosed, result>>
vars == <<clientVars, asynRet, taskVars, serverVars, chanCall, peer>>

Peers == Callers \cup Posts

Init ==
  /\ phase = "run" /\ code = "no" /\ pendingAsyn = 0
  /\ asynRet = <<>> /\ status = [c \in Calls |-> "idle"]
  /\ pendingGo = 0 /\ task = [t \in Tasks |-> "idle"]
  /\ linearGo = <<>> /\ chanCb = <<>> /\ began = <<>>
  /\ server = "select" /\ cur = <<>> /\ chanCall = <<>> /\ chanClosed = FALSE
  /\ peer = [p \in Peers |-> "send"]
  /\ result = [c \in Calls |-> "none"]

-----------------------------------------------------------------------------
(* The client's loop.  Some event of its own, a timer or a message, brings *)
(* it into a handler; a handler or callback makes calls and starts tasks   *)
(* and returns.                                                            *)

Handle ==
  /\ phase = "run" /\ code = "no" /\ code' = "handler"
  /\ UNCHANGED <<phase, pendingAsyn, status, asynRet, taskVars, serverVars,
                 chanCall, peer>>

(* g.Cb counts the task as done only after its callback.                   *)
Return ==
  /\ code # "no" /\ code' = "no"
  /\ pendingGo' = IF code = "task" THEN pendingGo - 1 ELSE pendingGo
  /\ UNCHANGED <<phase, pendingAsyn, status, asynRet, task, linearGo, chanCb,
                 began, serverVars, chanCall, peer>>

(* MUTANT: off by one.                                                     *)
TooManyLate == pendingAsyn > AsynCap
TooMany     == pendingAsyn >= AsynCap

Accepts == ~chanClosed /\ Len(chanCall) < CallCap

(* MUTANT: does not answer a call it cannot send.                          *)
AsynCallForgets(c) ==
  /\ code # "no" /\ status[c] = "idle"
  /\ IF TooMany
     THEN /\ status' = [status EXCEPT ![c] = "refused"]
          /\ UNCHANGED <<pendingAsyn, chanCall>>
     ELSE /\ status' = [status EXCEPT ![c] = "pending"]
          /\ pendingAsyn' = pendingAsyn + 1
          /\ chanCall' = IF c \notin Unregistered /\ Accepts
                         THEN Append(chanCall, c) ELSE chanCall
  /\ UNCHANGED <<phase, code, asynRet, taskVars, serverVars, peer>>
(* The callback of the call that is one too many runs at once.  A call     *)
(* that cannot be sent is answered by the client itself.                   *)
AsynCall(c) ==
  /\ code # "no" /\ status[c] = "idle"
  /\ IF TooMany
     THEN /\ status' = [status EXCEPT ![c] = "refused"]
          /\ UNCHANGED <<pendingAsyn, asynRet, chanCall>>
     ELSE /\ status' = [status EXCEPT ![c] = "pending"]
          /\ pendingAsyn' = pendingAsyn + 1
          /\ IF c \notin Unregistered /\ Accepts
             THEN /\ chanCall' = Append(chanCall, c)
                  /\ UNCHANGED asynRet
             ELSE /\ Len(asynRet) < AsynCap
                  /\ asynRet' = Append(asynRet, [call |-> c, res |-> "refused"])
                  /\ UNCHANGED <<chanCall>>
  /\ UNCHANGED <<phase, code, taskVars, serverVars, peer>>

(* Go of the skeleton, or of its LinearContext.                            *)
Go(t) ==
  /\ code # "no" /\ task[t] = "idle"
  /\ pendingGo' = pendingGo + 1
  /\ task' = [task EXCEPT ![t] = IF t \in Linear THEN "queued" ELSE "run"]
  /\ IF t \in Linear
     THEN linearGo' = Append(linearGo, t) /\ began' = Append(began, t)
     ELSE UNCHANGED <<linearGo, began>>
  /\ UNCHANGED <<clientVars, asynRet, chanCb, serverVars, chanCall, peer>>

(* MUTANT: forgets the count.                                              *)
TakeAnswerLeaks ==
  /\ code = "no" /\ phase \in {"run", "client"} /\ asynRet # <<>>
  /\ asynRet' = Tail(asynRet)
  /\ status' = [status EXCEPT ![Head(asynRet).call] = Head(asynRet).res]
  /\ code' = "handler"
  /\ UNCHANGED <<phase, pendingAsyn, taskVars, serverVars, chanCall, peer>>
(* Cb of the client: in the loop, and in Close.                            *)
TakeAnswer ==
  /\ code = "no" /\ phase \in {"run", "client"} /\ asynRet # <<>>
  /\ phase = "client" => pendingAsyn > 0
  /\ asynRet' = Tail(asynRet)
  /\ pendingAsyn' = pendingAsyn - 1
  /\ status' = [status EXCEPT ![Head(asynRet).call] = Head(asynRet).res]
  /\ code' = "handler"
  /\ UNCHANGED <<phase, taskVars, serverVars, chanCall, peer>>

(* Cb of the tasks: in the loop, and in Close.                             *)
TakeCb ==
  /\ code = "no" /\ phase \in {"run", "go"} /\ chanCb # <<>>
  /\ phase = "go" => pendingGo > 0
  /\ chanCb' = Tail(chanCb)
  /\ task' = [task EXCEPT ![Head(chanCb)] = "back"]
  /\ code' = "task"
  /\ UNCHANGED <<phase, pendingAsyn, status, asynRet, pendingGo, linearGo,
                 began, serverVars, chanCall, peer>>

(* MUTANT: closes the tasks and then the calls, once.                      *)
GoOnOnce == phase = "run"
GoOn     == pendingGo # 0 \/ pendingAsyn # 0

(* The loop that closes: first the tasks, then the calls, and again while  *)
(* the callbacks leave something to wait for.                              *)
CloseClient ==
  /\ phase = "run" /\ code = "no"
  /\ phase' = IF GoOn THEN "go" ELSE "done"
  /\ UNCHANGED <<code, pendingAsyn, status, asynRet, taskVars, serverVars,
                 chanCall, peer>>
GoClosed ==
  /\ phase = "go" /\ code = "no" /\ pendingGo = 0
  /\ phase' = "client"
  /\ UNCHANGED <<code, pendingAsyn, status, asynRet, taskVars, serverVars,
                 chanCall, peer>>
CallsClosed ==
  /\ phase = "client" /\ code = "no" /\ pendingAsyn = 0
  /\ phase' = IF GoOn THEN "go" ELSE "done"
  /\ UNCHANGED <<code, pendingAsyn, status, asynRet, taskVars, serverVars,
                 chanCall, peer>>

-----------------------------------------------------------------------------
(* The goroutines of the tasks.  Those of the LinearContext take turns at  *)
(* mutexExecution, hold it until their callback is in ChanCb, and run what *)
(* is first in the list, which need not be what they were started for.     *)

(* MUTANT: no mutex.                                                       *)
ExecutionIgnored == TRUE
ExecutionFree    == \A t \in Linear : task[t] # "run"

TakeLinear ==
  /\ linearGo # <<>> /\ ExecutionFree
  /\ task' = [task EXCEPT ![Head(linearGo)] = "run"]
  /\ linearGo' = Tail(linearGo)
  /\ UNCHANGED <<clientVars, asynRet, pendingGo, chanCb, began, serverVars,
                 chanCall, peer>>

(* f returns or panics: its callback is sent either way.                   *)
SendCb(t) ==
  /\ task[t] = "run" /\ Len(chanCb) < GoCap
  /\ task' = [task EXCEPT ![t] = "sent"]
  /\ chanCb' = Append(chanCb, t)
  /\ UNCHANGED <<clientVars, asynRet, pendingGo, linearGo, began, serverVars,
                 chanCall, peer>>

-----------------------------------------------------------------------------
(* The goroutines that call the server or post to it.                      *)

(* The send waits for room.  One that meets the close, waiting or not,     *)
(* panics: a caller gets that as an error, a post is lost.                 *)
SendCall(p) ==
  /\ peer[p] = "send" /\ Accepts
  /\ chanCall' = Append(chanCall, p)
  /\ peer' = [peer EXCEPT ![p] = "sent"]
  /\ UNCHANGED <<clientVars, asynRet, taskVars, serverVars>>

SendPanics(p) ==
  /\ peer[p] = "send" /\ chanClosed
  /\ peer' = [peer EXCEPT ![p] = "refused"]
  /\ UNCHANGED <<clientVars, asynRet, taskVars, serverVars, chanCall>>

-----------------------------------------------------------------------------
(* The server's loop.                                                      *)

(* ret: a call's answer waits for room in ChanAsynRet, a caller's has a    *)
(* channel of its own, and a post has none.                                *)
Ret(x, r) ==
  /\ IF x \in Calls
     THEN /\ Len(asynRet) < AsynCap
          /\ asynRet' = Append(asynRet, [call |-> x, res |-> r])
     ELSE UNCHANGED asynRet
  /\ peer' = IF x \in Callers THEN [peer EXCEPT ![x] = r] ELSE peer

(* The function runs as soon as the call is out of the channel, and returns*)
(* ("ok") or panics ("failed").                                            *)
Exec(r) ==
  /\ server = "select" /\ chanCall # <<>>
  /\ cur' = <<Head(chanCall)>> /\ chanCall' = Tail(chanCall)
  /\ server' = r
  /\ result' = [c \in Calls |-> IF c = Head(chanCall) THEN r ELSE result[c]]
  /\ UNCHANGED <<clientVars, asynRet, taskVars, chanClosed, peer>>

Answer ==
  /\ server \in {"ok", "failed"}
  /\ Ret(cur[1], server)
  /\ cur' = <<>> /\ server' = "select"
  /\ UNCHANGED <<clientVars, taskVars, chanCall, chanClosed, result>>

CloseServer ==
  /\ server = "select"
  /\ chanClosed' = TRUE /\ server' = "closed"
  /\ UNCHANGED <<clientVars, asynRet, taskVars, cur, chanCall, peer, result>>

(* MUTANT: closes the channel and leaves what waits in it.                 *)
DrainSilently ==
  /\ server = "closed" /\ chanCall # <<>>
  /\ chanCall' = Tail(chanCall)
  /\ UNCHANGED <<clientVars, asynRet, taskVars, serverVars, peer>>
(* What still waits is answered "chanrpc server closed"; a post is lost.   *)
Drain ==
  /\ server = "closed" /\ chanCall # <<>>
  /\ Ret(Head(chanCall), "refused")
  /\ chanCall' = Tail(chanCall)
  /\ UNCHANGED <<clientVars, taskVars, serverVars>>

-----------------------------------------------------------------------------
Client == \/ Handle \/ Return \/ TakeAnswer \/ TakeCb
          \/ CloseClient \/ GoClosed \/ CallsClosed
Server == (\E r \in {"ok", "failed"} : Exec(r)) \/ Answer \/ Drain

Next ==
  \/ Client \/ Server \/ CloseServer
  \/ \E c \in Calls : AsynCall(c)
  \/ \E t \in Tasks : Go(t) \/ SendCb(t)
  \/ TakeLinear
  \/ \E p \in Peers : SendCall(p) \/ SendPanics(p)

Spec == Init /\ [][Next]_vars

(* Every goroutine runs, and functions, handlers and callbacks return.     *)
(* Go's select picks at random among the cases that are ready, and its     *)
(* channels serve the senders that wait in their order: a case or a sender *)
(* that is ready again and again is not passed over for ever.  Nobody has  *)
(* to close a skeleton, call it, or start anything.                        *)
FairSpec ==
  /\ Spec
  /\ WF_vars(Return) /\ WF_vars(GoClosed) /\ WF_vars(CallsClosed)
  /\ SF_vars(TakeAnswer) /\ SF_vars(TakeCb)
  /\ WF_vars(Server) /\ WF_vars(TakeLinear)
  /\ \A t \in Tasks : SF_vars(SendCb(t))
  /\ \A p \in Peers : SF_vars(SendCall(p)) /\ WF_vars(SendPanics(p))

-----------------------------------------------------------------------------
(* Properties.                                                             *)

Ends == {"ok", "failed", "refused"}

TypeOK ==
  /\ phase \in {"run", "go", "client", "done"}
  /\ code \in {"no", "handler", "task"}
  /\ pendingAsyn \in Int /\ pendingGo \in Int
  /\ asynRet \in Seq([call : Calls, res : Ends]) /\ Len(asynRet) <= AsynCap
  /\ status \in [Calls -> {"idle", "pending"} \cup Ends]
  /\ task \in [Tasks -> {"idle", "queued", "run", "sent", "back"}]
  /\ linearGo \in Seq(Linear) /\ began \in Seq(Linear)
  /\ chanCb \in Seq(Tasks) /\ Len(chanCb) <= GoCap
  /\ server \in {"select", "ok", "failed", "closed"}
  /\ cur \in Seq(Calls \cup Peers)
  /\ Len(cur) = IF server \in {"ok", "failed"} THEN 1 ELSE 0
  /\ chanCall \in Seq(Calls \cup Peers) /\ Len(chanCall) <= CallCap
  /\ chanClosed = (server = "closed")
  /\ peer \in [Peers -> {"send", "sent"} \cup Ends]
  /\ result \in [Calls -> {"none", "ok", "failed"}]

Pending == {c \in Calls : status[c] = "pending"}
Waiting == Calls \cap {chanCall[i] : i \in DOMAIN chanCall}
InHand  == Calls \cap {cur[i] : i \in DOMAIN cur}
Told    == {asynRet[i].call : i \in DOMAIN asynRet}

(* A pending call is in one place, and a call that is not is in none: no   *)
(* call is lost or answered twice, by the server that executes it, by the  *)
(* one that closes, or by the client itself.                               *)
OnePlace ==
  /\ Pending = Waiting \cup InHand \cup Told
  /\ Waiting \cap InHand = {} /\ Waiting \cap Told = {} /\ InHand \cap Told = {}
  /\ \A i, j \in DOMAIN chanCall : chanCall[i] = chanCall[j] => i = j
  /\ \A i, j \in DOMAIN asynRet : asynRet[i].call = asynRet[j].call => i = j

(* pendingAsynCall counts the pending calls, and so an answer always finds *)
(* room in ChanAsynRet: neither does the server wait for a client, nor the *)
(* client, which answers what it could not send, for itself.               *)
AnswersFit ==
  /\ pendingAsyn = Cardinality(Pending) /\ pendingAsyn <= AsynCap
  /\ InHand # {} => Len(asynRet) < AsynCap

(* Every call has its one answer to come, and room for it.                 *)
AnswerOnce == TypeOK /\ OnePlace /\ AnswersFit

(* The skeleton keeps what it promises to who uses AsynCall.               *)
Promise == INSTANCE CallPromise WITH Limit <- AsynCap, pending <- pendingAsyn
KeepsPromise == Promise!PSpec

(* The tasks of a LinearContext run one after the other in the order they  *)
(* were given, and so do their callbacks, in whatever order the goroutines *)
(* get the mutex.                                                          *)
LinearInOrder ==
  \A i, j \in DOMAIN began :
    i < j => /\ task[began[j]] # "queued" => task[began[i]] \in {"sent", "back"}
             /\ task[began[j]] = "back" => task[began[i]] = "back"

(* A client that has closed has nothing under way, whatever its last       *)
(* callbacks still called and started.                                     *)
ClosedIsQuiet ==
  phase = "done" => /\ Pending = {} /\ asynRet = <<>> /\ chanCb = <<>>
                    /\ \A t \in Tasks : task[t] \in {"idle", "back"}

(* Every call is called back, every task too, and no goroutine waits for   *)
(* ever for a server, whether it serves on, panics or closes; a client     *)
(* that closes comes to its end.                                           *)
CallsAnswered == \A c \in Calls : status[c] = "pending" ~> status[c] # "pending"
TasksReturn   == \A t \in Tasks : task[t] # "idle" ~> task[t] = "back"
PeersReleased ==
  /\ \A p \in Callers : peer[p] = "send" ~> peer[p] \in Ends
  /\ \A p \in Posts   : peer[p] = "send" ~> peer[p] # "send"
ClientCloses  == phase = "go" ~> phase = "done"
WorkReturns   == CallsAnswered /\ TasksReturn /\ ClientCloses
=============================================================================
