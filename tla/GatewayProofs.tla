---------------------------- MODULE GatewayProofs ----------------------------
(***************************************************************************)
(* The server and its end, for any connections, limit of connections,      *)
(* capacity of the channels and numbers of messages.                       *)
(*                                                                         *)
(* The books of the servers (Registered, CloseWaits) are kept because      *)
(* every step moves at most one connection, from one place to the next;    *)
(* Progress says what the steps of the shutdown have done already.  What   *)
(* the game hears is in order because a connection has its begin, its      *)
(* messages and its end in one channel, in this order (QueueInv), and      *)
(* LifeInv ties the place of its goroutine to what the game has heard.     *)
(***************************************************************************)
EXTENDS Gateway, FiniteSetTheorems, SequenceTheorems, TLAPS

USE DEF connVars, setVars, roomVars, modVars, stopVars

(* Only connections that were dialled are anywhere.                        *)
Dialled == {c \in Conns : pc[c] # "none"}

(* What the steps of the shutdown have done.                               *)
Progress ==
  /\ down = 0 <=> gate # "closed"
  /\ gate # "run" => stopping
  /\ "game" \in closed <=> down > 1
  /\ "hall" \in closed <=> down > 2
  /\ gate \in {"ws_closed", "tcp", "closed"} => "ws" \in nilled
  /\ gate = "closed" => "tcp" \in nilled
  /\ ~accepting => InHand = {}
  /\ "tcp" \in nilled => ~accepting

Books == IsFiniteSet(Dialled) /\ Registered /\ CloseWaits

(* Where a connection is before the game can have heard of it, and where   *)
(* while it may still have something to tell.                              *)
Early == {"none", "backlog", "found", "listed", "announce"}
Heard == {"read", "login", "enter", "cleanup", "leave", "called"}

New(c) == [conn |-> c, what |-> "new"]

(* In the game's channel a connection's begin is before all else of it and *)
(* its end behind all else; the hall gets logins only.                     *)
Told(q, p, l) ==
  /\ \A i \in DOMAIN q :
       /\ p[q[i].conn] \in Heard
       /\ q[i].what # "login"
       /\ q[i].what = "close" => p[q[i].conn] = "called"
       /\ q[i].what = "new" => l[q[i].conn] = "none"
       /\ q[i].what # "new" => \/ l[q[i].conn] = "new"
                               \/ \E j \in DOMAIN q : j < i /\ q[j] = New(q[i].conn)
  /\ \A i, j \in DOMAIN q :
       i < j /\ q[i].conn = q[j].conn => q[j].what # "new" /\ q[i].what # "close"

QueueInv ==
  /\ Told(queue["game"], pc, life)
  /\ \A i \in DOMAIN queue["hall"] : queue["hall"][i].what = "login"

(* What the game has heard of a connection, by where its goroutine is.     *)
Tells(c, q) == \E i \in DOMAIN q : q[i] = New(c)

HeardOf(q, p, l, r) ==
  \A c \in Conns :
    /\ p[c] \in Early => l[c] = "none" /\ r[c] = 0
    /\ p[c] \in Heard => l[c] = "new" \/ (l[c] = "none" /\ Tells(c, q))
    /\ p[c] = "over" => l[c] = "closed"
    /\ p[c] = "gone" => l[c] = "closed" \/ (l[c] = "none" /\ r[c] = 0)

LifeInv == HeardOf(queue["game"], pc, life, reads)

(* Who entered a room has a player as user data.                           *)
UserInv == entered \subseteq userData /\ OfflineReported

GateInv == TypeOK /\ Progress /\ Books
HeardInv == QueueInv /\ LifeInv /\ UserInv
Inv == GateInv /\ HeardInv

-----------------------------------------------------------------------------
(* Sequences.                                                              *)
Msgs == [conn : Conns, what : {"new", "login", "enter", "close"}]

QueueOK ==
  /\ queue \in [{"game", "hall"} -> Seq(Msgs)]
  /\ \A m \in {"game", "hall"} : Len(queue[m]) <= ChanCap

(* The first of a channel taken away.                                      *)
LEMMA TailFacts ==
  ASSUME NEW S, NEW s \in Seq(S), s # <<>>
  PROVE  /\ Tail(s) \in Seq(S)
         /\ Len(s) \in Nat /\ Len(s) > 0 /\ Head(s) = s[1] /\ Head(s) \in S
         /\ Len(Tail(s)) = Len(s) - 1
         /\ DOMAIN s = 1..Len(s) /\ DOMAIN Tail(s) = 1..(Len(s) - 1)
         /\ \A i \in 1..(Len(s) - 1) : Tail(s)[i] = s[i + 1]
OBVIOUS

(* One added at the end of a channel.                                      *)
LEMMA AppendFacts ==
  ASSUME NEW S, NEW s \in Seq(S), NEW x \in S
  PROVE  /\ Append(s, x) \in Seq(S) /\ Len(s) \in Nat
         /\ Len(Append(s, x)) = Len(s) + 1
         /\ DOMAIN s = 1..Len(s) /\ DOMAIN Append(s, x) = 1..(Len(s) + 1)
         /\ Append(s, x)[Len(s) + 1] = x
         /\ \A i \in 1..Len(s) : Append(s, x)[i] = s[i]
OBVIOUS

(* The bounds, and the modules in the order in which they are destroyed.   *)
LEMMA Bounds ==
  /\ MaxConnNum \in Nat /\ ChanCap \in Nat /\ ChanCap > 0 /\ MaxConnNum > 0
  /\ MaxMsgs \in [Conns -> Nat] /\ Ws \cap Tcp = {}
  /\ Len(Mods) = 3
  /\ ToDestroy(1) = "gate" /\ ToDestroy(2) = "game" /\ ToDestroy(3) = "hall"
BY BoundsAssumption, KindsAssumption DEF Conns, Mods, ToDestroy

(* A send that goes through keeps the types and the capacity.              *)
LEMMA SendTypes ==
  ASSUME TypeOK, NEW m \in {"game", "hall"}, NEW c \in Conns,
         NEW what \in {"new", "login", "enter", "close"},
         CanSend(m), Send(m, c, what)
  PROVE  QueueOK'
<1> USE DEF QueueOK
<1>1. CASE m \in closed
  BY <1>1 DEF Send, TypeOK, Msgs
<1>2. CASE m \notin closed
  <2> DEFINE x == [conn |-> c, what |-> what]
  <2>1. queue' = [queue EXCEPT ![m] = Append(queue[m], x)] /\ Len(queue[m]) < ChanCap
    BY <1>2 DEF Send, CanSend
  <2>2. queue \in [{"game", "hall"} -> Seq(Msgs)] /\ x \in Msgs /\ ChanCap \in Nat
    BY Bounds DEF TypeOK, Msgs
  <2>3. Append(queue[m], x) \in Seq(Msgs) /\ Len(Append(queue[m], x)) <= ChanCap
    BY <2>1, <2>2, AppendFacts
  <2> QED
    BY <2>1, <2>2, <2>3 DEF TypeOK
<1> QED
  BY <1>1, <1>2

(* What is first in a channel is a message of a connection.                *)
HeadOK(m) == /\ Head(queue[m]).conn \in Conns
             /\ Head(queue[m]).what \in {"new", "login", "enter", "close"}
             /\ Head(queue[m]) = queue[m][1] /\ 1 \in DOMAIN queue[m]

(* The first message of a channel is well formed.                          *)
LEMMA HeadFacts ==
  ASSUME TypeOK, NEW m \in {"game", "hall"}, queue[m] # <<>>
  PROVE  HeadOK(m)
<1>1. queue[m] \in Seq(Msgs)
  BY DEF TypeOK, Msgs
<1>2. /\ Head(queue[m]) \in Msgs /\ Head(queue[m]) = queue[m][1]
      /\ DOMAIN queue[m] = 1..Len(queue[m]) /\ Len(queue[m]) > 0 /\ Len(queue[m]) \in Nat
  BY <1>1, TailFacts
<1> QED
  BY <1>2 DEF HeadOK, Msgs

(* The wait group is positive as long as somebody is counted in it.        *)
LEMMA WgPositive ==
  ASSUME TypeOK, Books, NEW c \in Conns,
         pc[c] = "over" \/ (c \in Ws /\ pc[c] = "found")
  PROVE  wg[Kind(c)] - 1 \in Nat
<1> DEFINE S == IF Kind(c) = "ws" THEN Of("ws", Open \cup Leaving \cup {"found"})
                                  ELSE Of("tcp", (Open \ {"listed"}) \cup Leaving)
<1>1. S \subseteq Dialled /\ IsFiniteSet(Dialled)
  BY DEF Of, Dialled, Open, Leaving, Books, Kind
<1>2. IsFiniteSet(S) /\ Cardinality(S) \in Nat
  BY <1>1, FS_Subset, FS_CardinalityType
<1>3. c \in S
  BY DEF Of, Open, Leaving, Kind
<1>4. Cardinality(S) # 0
  BY <1>2, <1>3, FS_EmptySet
<1>5. wg[Kind(c)] = Cardinality(S)
  BY DEF Books, CloseWaits, Kind
<1> QED
  BY <1>2, <1>4, <1>5

(* The types of what a call of the game's loop may change, and of the rest *)
(* without the channels.                                                   *)
HeardTypes ==
  /\ pc \in [Conns -> Steps] /\ life \in [Conns -> {"none", "new", "closed"}]
  /\ served \in [Conns -> Nat]
  /\ userData \subseteq Conns /\ entered \subseteq Conns /\ offline \subseteq Conns
  /\ waiting \in [Conns -> Nat] /\ room \subseteq Conns /\ late \subseteq Conns

OtherTypes ==
  /\ shut \subseteq Conns /\ reads \in [Conns -> Nat] /\ \A c \in Conns : reads[c] <= MaxMsgs[c]
  /\ listening \subseteq Servers /\ accepting \in BOOLEAN
  /\ conns \in [Servers -> SUBSET Conns] /\ nilled \subseteq Servers
  /\ wg \in [Servers -> Nat] /\ closed \subseteq {"game", "hall"}
  /\ stopping \in BOOLEAN /\ down \in 0..Len(Mods)
  /\ gate \in {"run", "ws", "ws_closed", "tcp", "closed"}

(* A call of the game's loop keeps the types of what it changes.           *)
LEMMA GameTypes ==
  ASSUME HeardTypes, NEW c \in Conns, NEW what,
         Hear(c, what) \/ EnterRoom(c, what) \/ CloseAgent(c, what)
  PROVE  HeardTypes'
<1>1. CASE Hear(c, what)
  BY <1>1 DEF Hear, HeardTypes
<1>2. CASE EnterRoom(c, what)
  <2>1. /\ served' = [served EXCEPT ![c] = served[c] + 1]
        /\ pc' = pc /\ life' = life /\ UNCHANGED <<offline, room, late>>
    BY <1>2 DEF EnterRoom
  <2>2. served' \in [Conns -> Nat]
    BY <2>1 DEF HeardTypes
  <2>3. userData' \subseteq Conns /\ entered' \subseteq Conns
    BY <1>2 DEF EnterRoom, AsksForRoom, HeardTypes
  <2>4. waiting' = waiting \/ waiting' = [waiting EXCEPT ![c] = waiting[c] + 1]
    BY <1>2 DEF EnterRoom, AsksForRoom
  <2>5. waiting' \in [Conns -> Nat]
    BY <2>4 DEF HeardTypes
  <2> QED
    BY <2>1, <2>2, <2>3, <2>5 DEF HeardTypes
<1>3. CASE CloseAgent(c, what)
  <2>1. /\ pc' = [pc EXCEPT ![c] = "over"] /\ life' = [life EXCEPT ![c] = "closed"]
        /\ UNCHANGED <<served, userData, entered, waiting, room, late>>
    BY <1>3 DEF CloseAgent, At
  <2>2. "over" \in Steps
    BY DEF Steps, Open, Leaving
  <2>3. pc' \in [Conns -> Steps]
    BY <2>1, <2>2 DEF HeardTypes
  <2>4. life' \in [Conns -> {"none", "new", "closed"}]
    BY <2>1 DEF HeardTypes
  <2>5. offline' \subseteq Conns
    BY <1>3 DEF CloseAgent, HeardTypes
  <2> QED
    BY <2>1, <2>3, <2>4, <2>5 DEF HeardTypes
<1> QED
  BY <1>1, <1>2, <1>3

(* These are the types of all variables.                                   *)
LEMMA TypeParts == TypeOK <=> HeardTypes /\ OtherTypes /\ QueueOK
BY DEF TypeOK, HeardTypes, OtherTypes, QueueOK, Msgs

(* The loops of the game and of the hall keep the types.                   *)
LEMMA ExecTypes ==
  ASSUME TypeOK, GameExec \/ HallExec
  PROVE  TypeOK'
<1>1. PICK n \in {"game", "hall"} :
        /\ (n = "game" /\ GameExec) \/ (n = "hall" /\ HallExec)
        /\ queue[n] # <<>> /\ queue' = [queue EXCEPT ![n] = Tail(queue[n])]
  BY DEF GameExec, HallExec
<1>2. HeardTypes /\ OtherTypes /\ QueueOK
  BY TypeParts
<1>3. queue[n] \in Seq(Msgs) /\ Len(queue[n]) <= ChanCap /\ ChanCap \in Nat
  BY <1>2, Bounds DEF QueueOK
<1>4. /\ Tail(queue[n]) \in Seq(Msgs) /\ Head(queue[n]) \in Msgs
      /\ Len(Tail(queue[n])) = Len(queue[n]) - 1 /\ Len(queue[n]) \in Nat
  BY <1>1, <1>3, TailFacts
<1>5. QueueOK'
  BY <1>1, <1>2, <1>3, <1>4 DEF QueueOK
<1>6. Head(queue[n]).conn \in Conns
  BY <1>4 DEF Msgs
<1>7. OtherTypes'
  BY <1>1, <1>2 DEF GameExec, HallExec, OtherTypes
<1>8. CASE n = "game" /\ GameExec
  <2>1. PICK c, what : /\ c = Head(queue["game"]).conn
                       /\ Hear(c, what) \/ EnterRoom(c, what) \/ CloseAgent(c, what)
    BY <1>8 DEF GameExec
  <2>2. HeardTypes'
    BY <1>2, <1>6, <1>8, <2>1, GameTypes
  <2> QED
    BY <1>5, <1>7, <2>2 DEF TypeOK, HeardTypes, OtherTypes, QueueOK, Msgs
<1>9. CASE n = "hall" /\ HallExec
  <2>1. HeardTypes'
    BY <1>2, <1>6, <1>9 DEF HallExec, HeardTypes
  <2> QED
    BY <1>5, <1>7, <2>1 DEF TypeOK, HeardTypes, OtherTypes, QueueOK, Msgs
<1> QED
  BY <1>1, <1>8, <1>9

(* Rooms come and go without the server of connections, the channels and   *)
(* the calls of the game.                                                  *)
RestStays ==
  /\ UNCHANGED <<pc, shut, reads, listening, accepting, conns, nilled, wg>>
  /\ UNCHANGED <<queue, closed, life, served, userData, entered, offline>>
  /\ UNCHANGED <<stopping, down, gate>>

LEMMA RoomSteps ==
  ASSUME NEW c \in Conns, SetRoom(c) \/ LeaveRoom(c)
  PROVE  RestStays
BY DEF SetRoom, LeaveRoom, RestStays

(* Types; a wait group only goes down for one that it counts.              *)
LEMMA TypeStep ==
  ASSUME TypeOK, Progress, Books, [Next]_vars
  PROVE  TypeOK'
<1> USE DEF Steps, Open, Leaving, Kind, Servers, TypeOK
<1>1. ASSUME NEW c \in Conns, Dial(c) PROVE TypeOK'
  BY <1>1 DEF Dial, At
<1>2. ASSUME NEW c \in Conns, HangUp(c) PROVE TypeOK'
  BY <1>2 DEF HangUp
<1>3. ASSUME NEW c \in Conns, UpgradeFails(c) PROVE TypeOK'
  BY <1>3 DEF UpgradeFails, At
<1>4. ASSUME NEW c \in Conns, Accept(c) PROVE TypeOK'
  BY <1>4 DEF Accept, At
<1>5. ASSUME NEW c \in Conns, Upgrade(c) PROVE TypeOK'
  <2>1. wg' = [wg EXCEPT !["ws"] = wg["ws"] + 1] /\ wg["ws"] + 1 \in Nat
    BY <1>5 DEF Upgrade, TypeOK
  <2>2. wg' \in [Servers -> Nat]
    BY <2>1 DEF TypeOK
  <2> QED
    BY <1>5, <2>2 DEF Upgrade, At, TypeOK
<1>6. ASSUME NEW c \in Conns, Admit(c) PROVE TypeOK'
  BY <1>6 DEF Admit, At
<1>7. ASSUME NEW c \in Conns, Refuse(c) PROVE TypeOK'
  BY <1>7, WgPositive DEF Refuse, At
<1>8. ASSUME NEW c \in Conns, Count(c) PROVE TypeOK'
  <2>1. wg' = [wg EXCEPT !["tcp"] = wg["tcp"] + 1] /\ wg["tcp"] + 1 \in Nat
    BY <1>8 DEF Count, TypeOK
  <2>2. wg' \in [Servers -> Nat]
    BY <2>1 DEF TypeOK
  <2> QED
    BY <1>8, <2>2 DEF Count, At, TypeOK
<1>9. ASSUME NEW c \in Conns, Announce(c) PROVE TypeOK'
  <2>1. Send("game", c, "new") /\ CanSend("game")
    BY <1>9 DEF Announce
  <2>2. QueueOK'
    BY <2>1, SendTypes
  <2> QED
    BY <1>9, <2>2 DEF Announce, At, TypeOK, Msgs, QueueOK
<1>10. ASSUME NEW c \in Conns, Route(c) PROVE TypeOK'
  <2>1. pc[c] \in {"login", "enter"} /\ RouteOf(pc[c]) \in {"game", "hall"}
    BY <1>10 DEF Route, RouteOf
  <2>2. Send(RouteOf(pc[c]), c, pc[c]) /\ CanSend(RouteOf(pc[c]))
    BY <1>10 DEF Route
  <2>3. QueueOK'
    BY <2>1, <2>2, SendTypes
  <2> QED
    BY <1>10, <2>3 DEF Route, At, TypeOK, Msgs, QueueOK
<1>11. ASSUME NEW c \in Conns, ReadFails(c) PROVE TypeOK'
  BY <1>11 DEF ReadFails, At
<1>12. ASSUME NEW c \in Conns, Remove(c) PROVE TypeOK'
  BY <1>12 DEF Remove, At
<1>13. ASSUME NEW c \in Conns, OnClose(c) PROVE TypeOK'
  <2>1. Send("game", c, "close") /\ CanSend("game")
    BY <1>13 DEF OnClose
  <2>2. QueueOK'
    BY <2>1, SendTypes
  <2> QED
    BY <1>13, <2>2 DEF OnClose, At, TypeOK, Msgs, QueueOK
<1>14. ASSUME NEW c \in Conns, Done(c) PROVE TypeOK'
  BY <1>14, WgPositive DEF Done, At
<1>15. ASSUME NEW c \in Conns, NEW what \in {"login", "enter"}, Read(c, what)
     PROVE TypeOK'
  <2>1. /\ reads' = [reads EXCEPT ![c] = reads[c] + 1]
        /\ reads[c] < MaxMsgs[c] /\ MaxMsgs[c] \in Nat /\ reads[c] \in Nat
    BY <1>15, Bounds DEF Read, TypeOK
  <2>2. reads' \in [Conns -> Nat] /\ \A d \in Conns : reads'[d] <= MaxMsgs[d]
    BY <2>1 DEF TypeOK
  <2> QED
    BY <1>15, <2>2 DEF Read, At, TypeOK
<1>16. CASE AcceptEnds
  BY <1>16 DEF AcceptEnds
<1>17. CASE GameExec \/ HallExec
  <2> QED
    BY <1>17, ExecTypes
<1>19. CASE Signal
  BY <1>19 DEF Signal
<1>25. ASSUME NEW c \in Conns, SetRoom(c) \/ LeaveRoom(c) PROVE TypeOK'
  <2>1. waiting' \in [Conns -> Nat]
    <3>1. waiting' = waiting \/ (waiting[c] > 0 /\ waiting' = [waiting EXCEPT ![c] = waiting[c] - 1])
      BY <1>25 DEF SetRoom, LeaveRoom
    <3>2. waiting[c] > 0 => waiting[c] - 1 \in Nat
      OBVIOUS
    <3> QED
      BY <3>1, <3>2
  <2>2. room' \subseteq Conns /\ late' \subseteq Conns
    BY <1>25 DEF SetRoom, LeaveRoom
  <2> QED
    BY <1>25, <2>1, <2>2, RoomSteps DEF RestStays
<1>20. ASSUME NEW s \in Servers, CloseListener(s) PROVE TypeOK'
  BY <1>20 DEF CloseListener
<1>21. ASSUME NEW s \in Servers, ShutAll(s) PROVE TypeOK'
  BY <1>21 DEF ShutAll
<1>22. ASSUME NEW s \in Servers, ServerClosed(s) PROVE TypeOK'
  <2>1. gate = "tcp" => down = 0
    BY <1>22 DEF ServerClosed, Progress
  <2>2. s = "tcp" => down' = 1 /\ down' \in 0..Len(Mods)
    BY <1>22, <2>1, Bounds DEF ServerClosed
  <2>3. gate' \in {"run", "ws", "ws_closed", "tcp", "closed"} /\ down' \in 0..Len(Mods)
    BY <1>22, <2>2 DEF ServerClosed, TypeOK, Servers
  <2> QED
    BY <1>22, <2>3 DEF ServerClosed, TypeOK
<1>23. ASSUME NEW m \in {"game", "hall"}, CloseSkeleton(m) PROVE TypeOK'
  <2>1. queue' = [queue EXCEPT ![m] = <<>>] /\ Len(<<>>) = 0
    BY <1>23 DEF CloseSkeleton
  <2>2. QueueOK'
    BY <2>1, Bounds DEF TypeOK, Msgs, QueueOK
  <2>3. down < 3 /\ closed' = closed \cup {m} /\ down' = down + 1
    BY <1>23, Bounds DEF CloseSkeleton, Destroying
  <2>5. down' \in 0..Len(Mods)
    BY <2>3, Bounds DEF TypeOK
  <2>4. pc' \in [Conns -> Steps]
    BY <1>23 DEF CloseSkeleton, TypeOK
  <2> QED
    BY <1>23, <2>2, <2>3, <2>4, <2>5 DEF CloseSkeleton, TypeOK, Msgs, QueueOK
<1>24. CASE UNCHANGED vars
  BY <1>24 DEF vars
<1> QED
  BY <1>1, <1>2, <1>3, <1>4, <1>5, <1>6, <1>7, <1>8, <1>9, <1>10,
     <1>11, <1>12, <1>13, <1>14, <1>15, <1>16, <1>17, <1>19, <1>20,
     <1>21, <1>22, <1>23, <1>24, <1>25 DEF Next, Serve, Goroutine

(* What the steps of the shutdown have done stays done; the accepting loop *)
(* of the TCP server has nothing in hand when it ends.                     *)
LEMMA ProgressStep ==
  ASSUME TypeOK, Progress, Books, [Next]_vars
  PROVE  Progress'
<1> USE DEF TypeOK, Progress, InHand, Destroying, Servers
<1>1. ASSUME NEW c \in Conns, Dial(c) PROVE Progress'
  BY <1>1, Bounds DEF Dial, At
<1>2. ASSUME NEW c \in Conns, HangUp(c) PROVE Progress'
  BY <1>2, Bounds DEF HangUp
<1>3. ASSUME NEW c \in Conns, UpgradeFails(c) PROVE Progress'
  BY <1>3, Bounds DEF UpgradeFails, At
<1>4. ASSUME NEW c \in Conns, Accept(c) PROVE Progress'
  BY <1>4, Bounds DEF Accept, At
<1>5. ASSUME NEW c \in Conns, Upgrade(c) PROVE Progress'
  BY <1>5, Bounds DEF Upgrade, At
<1>6. ASSUME NEW c \in Conns, Admit(c) PROVE Progress'
  BY <1>6, Bounds DEF Admit, At
<1>7. ASSUME NEW c \in Conns, Refuse(c) PROVE Progress'
  BY <1>7, Bounds DEF Refuse, At
<1>8. ASSUME NEW c \in Conns, Count(c) PROVE Progress'
  BY <1>8, Bounds DEF Count, At
<1>9. ASSUME NEW c \in Conns, Announce(c) PROVE Progress'
  BY <1>9, Bounds DEF Announce, At
<1>10. ASSUME NEW c \in Conns, Route(c) PROVE Progress'
  BY <1>10, Bounds DEF Route, At
<1>11. ASSUME NEW c \in Conns, ReadFails(c) PROVE Progress'
  BY <1>11, Bounds DEF ReadFails, At
<1>12. ASSUME NEW c \in Conns, Remove(c) PROVE Progress'
  BY <1>12, Bounds DEF Remove, At
<1>13. ASSUME NEW c \in Conns, OnClose(c) PROVE Progress'
  BY <1>13, Bounds DEF OnClose, At
<1>14. ASSUME NEW c \in Conns, Done(c) PROVE Progress'
  BY <1>14, Bounds DEF Done, At
<1>15. ASSUME NEW c \in Conns, NEW what \in {"login", "enter"}, Read(c, what)
     PROVE Progress'
  BY <1>15, Bounds DEF Read, At
<1>16. CASE AcceptEnds
  BY <1>16, Bounds DEF AcceptEnds
<1>17. CASE GameExec
  <2>1. \E c \in Conns : pc' \in {pc, [pc EXCEPT ![c] = "over"]}
    BY <1>17, HeadFacts DEF GameExec, Hear, EnterRoom, CloseAgent, At, HeadOK
  <2>2. InHand' \subseteq InHand
    BY <2>1 DEF Conns
  <2> QED
    BY <1>17, <2>2 DEF GameExec
<1>18. CASE HallExec
  BY <1>18, Bounds DEF HallExec
<1>19. CASE Signal
  BY <1>19, Bounds DEF Signal
<1>25. ASSUME NEW c \in Conns, SetRoom(c) \/ LeaveRoom(c) PROVE Progress'
  BY <1>25, RoomSteps, Bounds DEF RestStays
<1>20. ASSUME NEW s \in Servers, CloseListener(s) PROVE Progress'
  BY <1>20, Bounds DEF CloseListener
<1>21. ASSUME NEW s \in Servers, ShutAll(s) PROVE Progress'
  BY <1>21, Bounds DEF ShutAll
<1>22. ASSUME NEW s \in Servers, ServerClosed(s) PROVE Progress'
  <2>1. gate = "tcp" => down = 0
    BY <1>22 DEF ServerClosed
  <2> QED
    BY <1>22, <2>1, Bounds DEF ServerClosed
<1>23. ASSUME NEW m \in {"game", "hall"}, CloseSkeleton(m) PROVE Progress'
  <2>1. stopping /\ down < 3 /\ down \in Nat /\ ToDestroy(down + 1) = m
    BY <1>23, Bounds DEF CloseSkeleton
  <2>2. down = (IF m = "game" THEN 1 ELSE 2)
    BY <2>1, Bounds
  <2>3. \A c \in Conns : pc'[c] \in {pc[c], "over"}
    BY <1>23 DEF CloseSkeleton
  <2>4. InHand' \subseteq InHand
    BY <2>3 DEF Conns
  <2>8. UNCHANGED <<accepting, nilled, stopping>>
    BY <1>23 DEF CloseSkeleton
  <2>7. ~accepting => InHand' = {}
    BY <2>4
  <2>5. down' = down + 1 /\ gate' = gate /\ gate = "closed"
    BY <1>23, <2>2 DEF CloseSkeleton
  <2>6. /\ "game" \in closed' <=> down' > 1
        /\ "hall" \in closed' <=> down' > 2
    BY <1>23, <2>2, <2>5 DEF CloseSkeleton
  <2> QED
    BY <2>1, <2>2, <2>5, <2>6, <2>7, <2>8
<1>24. CASE UNCHANGED vars
  BY <1>24 DEF vars
<1> QED
  BY <1>1, <1>2, <1>3, <1>4, <1>5, <1>6, <1>7, <1>8, <1>9, <1>10,
     <1>11, <1>12, <1>13, <1>14, <1>15, <1>16, <1>17, <1>18, <1>19, <1>20,
     <1>21, <1>22, <1>23, <1>24, <1>25 DEF Next, Serve, Goroutine

(* Sets of connections by where they are: nothing changes, one is added,   *)
(* or one taken away.                                                      *)
In(f, s, S) == {d \in Conns : Kind(d) = s /\ f[d] \in S}

(* No connection of the server enters or leaves the set.                   *)
LEMMA SetStays ==
  ASSUME NEW f, NEW g, NEW s, NEW S,
         \A d \in Conns : Kind(d) = s => (f[d] \in S <=> g[d] \in S)
  PROVE  In(g, s, S) = In(f, s, S)
BY DEF In

(* One connection enters the set, which grows by one.                      *)
LEMMA SetGains ==
  ASSUME NEW f, NEW s, NEW S, IsFiniteSet(In(f, s, S)),
         NEW c \in Conns, Kind(c) = s, f[c] \notin S,
         NEW g, g[c] \in S, \A d \in Conns \ {c} : g[d] = f[d]
  PROVE  /\ In(g, s, S) = In(f, s, S) \cup {c}
         /\ Cardinality(In(g, s, S)) = Cardinality(In(f, s, S)) + 1
<1>1. In(g, s, S) = In(f, s, S) \cup {c} /\ c \notin In(f, s, S)
  BY DEF In
<1>2. Cardinality(In(f, s, S) \cup {c}) = Cardinality(In(f, s, S)) + 1
  BY <1>1, FS_AddElement
<1> QED
  BY <1>1, <1>2

(* One connection leaves the set, which shrinks by one.                    *)
LEMMA SetLoses ==
  ASSUME NEW f, NEW s, NEW S, IsFiniteSet(In(f, s, S)),
         NEW c \in Conns, Kind(c) = s, f[c] \in S,
         NEW g, g[c] \notin S, \A d \in Conns \ {c} : g[d] = f[d]
  PROVE  /\ In(g, s, S) = In(f, s, S) \ {c}
         /\ Cardinality(In(g, s, S)) = Cardinality(In(f, s, S)) - 1
<1>1. In(g, s, S) = In(f, s, S) \ {c} /\ c \in In(f, s, S)
  BY DEF In
<1>2. Cardinality(In(f, s, S) \ {c}) = Cardinality(In(f, s, S)) - 1
  BY <1>1, FS_RemoveElement
<1> QED
  BY <1>1, <1>2

(* The books, with the sets that they count written out.                   *)
WsSteps  == Open \cup Leaving \cup {"found"}
TcpSteps == (Open \ {"listed"}) \cup Leaving

Away(s) == \A c \in Conns : Kind(c) = s => pc[c] \notin Open \cup Leaving

BooksAre ==
  /\ IsFiniteSet({c \in Conns : pc[c] # "none"})
  /\ \A s \in Servers : /\ Cardinality(In(pc, s, Open)) <= MaxConnNum
                        /\ conns[s] = IF s \in nilled THEN {} ELSE In(pc, s, Open)
  /\ gate \in {"ws_closed", "tcp", "closed"} => Away("ws")
  /\ gate = "closed" => Away("tcp")
  /\ wg["ws"] = Cardinality(In(pc, "ws", WsSteps))
  /\ wg["tcp"] = Cardinality(In(pc, "tcp", TcpSteps))

(* The books read off the invariant: sets of connections by their place.   *)
LEMMA BooksOut ==
  ASSUME Books
  PROVE  BooksAre
BY DEF Books, BooksAre, Registered, CloseWaits, Of, In, Away, Dialled,
     WsSteps, TcpSteps

(* The books put back into the invariant.                                  *)
LEMMA BooksIn ==
  ASSUME Progress', BooksAre'
  PROVE  Books'
BY DEF Books, BooksAre, Registered, CloseWaits, Of, In, Away, Dialled,
     WsSteps, TcpSteps, Progress, InHand, Kind, Conns, Servers

(* A step moves at most one connection, or ends calls; then the books      *)
(* change in the set it enters or leaves only.                             *)
LEMMA Finite ==
  ASSUME TypeOK, BooksAre
  PROVE  /\ \A s \in Servers : IsFiniteSet(In(pc, s, Open))
         /\ IsFiniteSet(In(pc, "ws", WsSteps)) /\ IsFiniteSet(In(pc, "tcp", TcpSteps))
         /\ \A c \in Conns : \A x : pc' = [pc EXCEPT ![c] = x] =>
              IsFiniteSet({d \in Conns : pc'[d] # "none"})
<1> DEFINE D == {c \in Conns : pc[c] # "none"}
<1>1. IsFiniteSet(D)
  BY DEF BooksAre
<1>2. \A s, S : "none" \notin S => In(pc, s, S) \subseteq D
  BY DEF In
<1>3. \A s, S : "none" \notin S => IsFiniteSet(In(pc, s, S))
  BY <1>1, <1>2, FS_Subset
<1>4. "none" \notin Open /\ "none" \notin WsSteps /\ "none" \notin TcpSteps
  BY DEF Open, Leaving, WsSteps, TcpSteps
<1>5. ASSUME NEW c \in Conns, NEW x, pc' = [pc EXCEPT ![c] = x]
      PROVE  IsFiniteSet({d \in Conns : pc'[d] # "none"})
  <2>1. IsFiniteSet(D \cup {c})
    BY <1>1, FS_AddElement
  <2>2. {d \in Conns : pc'[d] # "none"} \subseteq D \cup {c}
    BY <1>5 DEF TypeOK
  <2> QED
    BY <2>1, <2>2, FS_Subset
<1> QED
  BY <1>3, <1>4, <1>5

(* A step that takes no connection in or out of a server keeps the books.  *)
LEMMA BooksStay ==
  ASSUME BooksAre, UNCHANGED <<conns, nilled, wg, gate>>,
         IsFiniteSet({d \in Conns : pc'[d] # "none"}),
         \A d \in Conns : /\ pc[d] \in Open <=> pc'[d] \in Open
                          /\ Kind(d) = "ws" => (pc[d] \in WsSteps <=> pc'[d] \in WsSteps)
                          /\ Kind(d) = "tcp" => (pc[d] \in TcpSteps <=> pc'[d] \in TcpSteps)
                          /\ pc'[d] \in Leaving => pc[d] \in Open \cup Leaving
  PROVE  BooksAre'
<1>1. \A s \in Servers : In(pc', s, Open) = In(pc, s, Open)
  BY SetStays
<1>2. /\ In(pc', "ws", WsSteps) = In(pc, "ws", WsSteps)
      /\ In(pc', "tcp", TcpSteps) = In(pc, "tcp", TcpSteps)
  BY SetStays
<1>3. \A s : Away(s) => Away(s)'
  BY DEF Away
<1> QED
  BY <1>1, <1>2, <1>3 DEF BooksAre

(* The books are kept by every step.                                       *)
LEMMA BooksStep ==
  ASSUME TypeOK, TypeOK', Progress, Progress', BooksAre, QueueInv, [Next]_vars
  PROVE  BooksAre'
<1>1. ASSUME NEW c \in Conns, Dial(c) PROVE BooksAre'
  <2>1. UNCHANGED <<conns, nilled, wg, gate>>
    BY <1>1 DEF Dial
  <2>2. IsFiniteSet({d \in Conns : pc'[d] # "none"})
    BY <1>1, Finite DEF Dial, At
  <2> QED
    BY <1>1, <2>1, <2>2, Bounds, BooksStay DEF Dial, At, Kind, Conns, Open,
         Leaving, WsSteps, TcpSteps, Steps, TypeOK
<1>2. ASSUME NEW c \in Conns, HangUp(c) PROVE BooksAre'
  BY <1>2 DEF HangUp, BooksAre, Away
<1>3. ASSUME NEW c \in Conns, UpgradeFails(c) PROVE BooksAre'
  <2>1. UNCHANGED <<conns, nilled, wg, gate>>
    BY <1>3 DEF UpgradeFails
  <2>2. IsFiniteSet({d \in Conns : pc'[d] # "none"})
    BY <1>3, Finite DEF UpgradeFails, At
  <2> QED
    BY <1>3, <2>1, <2>2, Bounds, BooksStay DEF UpgradeFails, At, Kind, Conns,
         Open, Leaving, WsSteps, TcpSteps, Steps, TypeOK
<1>4. ASSUME NEW c \in Conns, Accept(c) PROVE BooksAre'
  <2>1. UNCHANGED <<conns, nilled, wg, gate>>
    BY <1>4 DEF Accept
  <2>2. IsFiniteSet({d \in Conns : pc'[d] # "none"})
    BY <1>4, Finite DEF Accept, At
  <2> QED
    BY <1>4, <2>1, <2>2, Bounds, BooksStay DEF Accept, At, Kind, Conns, Open,
         Leaving, WsSteps, TcpSteps, Steps, TypeOK
<1>5. ASSUME NEW c \in Conns, Upgrade(c) PROVE BooksAre'
  <2>1. /\ pc[c] = "backlog" /\ Kind(c) = "ws"
        /\ pc' = [pc EXCEPT ![c] = "found"]
        /\ wg' = [wg EXCEPT !["ws"] = wg["ws"] + 1]
        /\ UNCHANGED <<conns, nilled, gate>>
    BY <1>5, Bounds DEF Upgrade, At, HasRoom, Kind, Conns
  <2>2. pc' \in [Conns -> Steps] /\ \A d \in Conns \ {c} : pc'[d] = pc[d]
    BY <2>1 DEF TypeOK
  <2>3. IsFiniteSet({d \in Conns : pc'[d] # "none"})
    BY <2>1, Finite
  <2>9. /\ \A d \in Conns : pc[d] \in Open <=> pc'[d] \in Open
        /\ Kind(c) = "ws" /\ pc[c] \notin WsSteps /\ pc'[c] \in WsSteps
        /\ \A d \in Conns : Kind(d) = "tcp" => (pc[d] \in TcpSteps <=> pc'[d] \in TcpSteps)
    BY <2>1, <2>2, Bounds DEF Kind, Conns, Open, Leaving, WsSteps, TcpSteps,
         Steps, TypeOK
  <2>10. /\ IsFiniteSet(In(pc, Kind(c), Open)) /\ Kind(c) \in Servers
         /\ IsFiniteSet(In(pc, "ws", WsSteps)) /\ IsFiniteSet(In(pc, "tcp", TcpSteps))
    BY Finite DEF Kind, Servers
  <2>4. \A s \in Servers : In(pc', s, Open) = In(pc, s, Open)
    BY <2>9, SetStays
  <2>6. /\ In(pc', "ws", WsSteps) = In(pc, "ws", WsSteps) \cup {c}
        /\ Cardinality(In(pc', "ws", WsSteps)) = Cardinality(In(pc, "ws", WsSteps)) + 1
    BY <2>2, <2>9, <2>10, SetGains
  <2>7. In(pc', "tcp", TcpSteps) = In(pc, "tcp", TcpSteps)
    BY <2>9, SetStays
  <2>8. /\ (gate \in {"ws_closed", "tcp", "closed"} => Away("ws")) =>
             (gate \in {"ws_closed", "tcp", "closed"} => Away("ws"))'
        /\ (gate = "closed" => Away("tcp")) => (gate = "closed" => Away("tcp"))'
    BY <2>1, <2>2, Bounds DEF Away, Kind, Conns, Open, Leaving, WsSteps,
         TcpSteps, Steps, TypeOK, Progress, InHand
  <2>11. \A s \in Servers : /\ Cardinality(In(pc', s, Open)) <= MaxConnNum
                            /\ conns'[s] = IF s \in nilled' THEN {} ELSE In(pc', s, Open)
    BY <2>1, <2>4 DEF BooksAre
  <2> QED
    BY <2>1, <2>3, <2>6, <2>7, <2>8, <2>10, <2>11 DEF BooksAre, Servers, TypeOK
<1>6. ASSUME NEW c \in Conns, Admit(c) PROVE BooksAre'
  <2>20. CASE c \in Ws
    <3>1. /\ pc[c] = "found" /\ Kind(c) = "ws"
          /\ pc' = [pc EXCEPT ![c] = "announce"]
          /\ conns' = [conns EXCEPT !["ws"] = conns["ws"] \cup {c}]
          /\ "ws" \notin nilled /\ Cardinality(conns["ws"]) < MaxConnNum
          /\ UNCHANGED <<wg, nilled, gate>>
      BY <1>6, <2>20, Bounds DEF Admit, At, HasRoom, Kind, Conns
    <3>2. pc' \in [Conns -> Steps] /\ \A d \in Conns \ {c} : pc'[d] = pc[d]
      BY <3>1 DEF TypeOK
    <3>3. IsFiniteSet({d \in Conns : pc'[d] # "none"})
      BY <3>1, Finite
    <3>9. /\ pc[c] \notin Open /\ pc'[c] \in Open
          /\ \A s \in Servers \ {Kind(c)} : \A d \in Conns :
               Kind(d) = s => (pc[d] \in Open <=> pc'[d] \in Open)
          /\ \A d \in Conns : Kind(d) = "ws" => (pc[d] \in WsSteps <=> pc'[d] \in WsSteps)
          /\ \A d \in Conns : Kind(d) = "tcp" => (pc[d] \in TcpSteps <=> pc'[d] \in TcpSteps)
      BY <3>1, <3>2, <2>20, Bounds DEF Kind, Conns, Open, Leaving, WsSteps,
           TcpSteps, Steps, TypeOK
    <3>10. /\ IsFiniteSet(In(pc, Kind(c), Open)) /\ Kind(c) \in Servers
           /\ IsFiniteSet(In(pc, "ws", WsSteps)) /\ IsFiniteSet(In(pc, "tcp", TcpSteps))
      BY Finite DEF Kind, Servers
    <3>4. /\ In(pc', Kind(c), Open) = In(pc, Kind(c), Open) \cup {c}
          /\ Cardinality(In(pc', Kind(c), Open)) = Cardinality(In(pc, Kind(c), Open)) + 1
      BY <3>2, <3>9, <3>10, SetGains
    <3>5. \A s \in Servers \ {Kind(c)} : In(pc', s, Open) = In(pc, s, Open)
      BY <3>9, SetStays
    <3>6. In(pc', "ws", WsSteps) = In(pc, "ws", WsSteps)
      BY <3>9, SetStays
    <3>7. In(pc', "tcp", TcpSteps) = In(pc, "tcp", TcpSteps)
      BY <3>9, SetStays
    <3>8. /\ (gate \in {"ws_closed", "tcp", "closed"} => Away("ws")) =>
               (gate \in {"ws_closed", "tcp", "closed"} => Away("ws"))'
          /\ (gate = "closed" => Away("tcp")) => (gate = "closed" => Away("tcp"))'
      BY <3>1, <3>2, <2>20, Bounds DEF Away, Kind, Conns, Open, Leaving,
           WsSteps, TcpSteps, Steps, TypeOK, Progress, InHand
    <3>12. /\ Cardinality(In(pc, Kind(c), Open)) \in Nat
           /\ Cardinality(In(pc, Kind(c), Open)) <= MaxConnNum
           /\ conns[Kind(c)] = IF Kind(c) \in nilled THEN {} ELSE In(pc, Kind(c), Open)
      BY <3>10, FS_CardinalityType DEF BooksAre
    <3>13. /\ conns'[Kind(c)] = conns[Kind(c)] \cup {c} /\ nilled' = nilled
           /\ \A s \in Servers \ {Kind(c)} : conns'[s] = conns[s]
      BY <3>1, <3>10 DEF TypeOK
    <3>15. Cardinality(In(pc, Kind(c), Open)) < MaxConnNum
      BY <3>1, <3>12
    <3>16. Cardinality(In(pc', Kind(c), Open)) <= MaxConnNum
      <4> DEFINE n == Cardinality(In(pc, Kind(c), Open))
                 m == Cardinality(In(pc', Kind(c), Open))
      <4>1. n \in Nat /\ MaxConnNum \in Nat /\ m = n + 1 /\ n < MaxConnNum
        BY <3>4, <3>12, <3>15, Bounds
      <4> HIDE DEF n, m
      <4>2. m <= MaxConnNum
        BY <4>1
      <4> QED
        BY <4>2 DEF m
    <3>14. conns'[Kind(c)] = IF Kind(c) \in nilled' THEN {} ELSE In(pc', Kind(c), Open)
      <4>1. CASE Kind(c) \in nilled
        BY <3>1, <3>12, <3>13, <4>1
      <4>2. CASE Kind(c) \notin nilled
        <5>1. conns[Kind(c)] = In(pc, Kind(c), Open) /\ Kind(c) \notin nilled'
          BY <3>12, <3>13, <4>2
        <5> QED
          BY <3>4, <3>13, <5>1, Zenon
      <4> QED
        BY <4>1, <4>2
    <3>11. ASSUME NEW s \in Servers
           PROVE  /\ Cardinality(In(pc', s, Open)) <= MaxConnNum
                  /\ conns'[s] = IF s \in nilled' THEN {} ELSE In(pc', s, Open)
      <4>1. CASE s = Kind(c)
        BY <3>14, <3>16, <4>1
      <4>2. CASE s # Kind(c)
        <5>1. In(pc', s, Open) = In(pc, s, Open) /\ conns'[s] = conns[s]
          BY <3>5, <3>13, <4>2
        <5>2. /\ Cardinality(In(pc, s, Open)) <= MaxConnNum
              /\ conns[s] = IF s \in nilled THEN {} ELSE In(pc, s, Open)
          BY DEF BooksAre
        <5> QED
          BY <3>13, <5>1, <5>2
      <4> QED
        BY <4>1, <4>2
    <3> QED
      BY <3>1, <3>3, <3>6, <3>7, <3>8, <3>10, <3>11 DEF BooksAre, Servers,
           TypeOK
  <2>22. c \in Tcp => "tcp" \notin nilled
    BY <1>6 DEF Admit, Progress, InHand
  <2>21. CASE c \in Tcp
    <3>1. /\ pc[c] = "found" /\ Kind(c) = "tcp"
          /\ pc' = [pc EXCEPT ![c] = "listed"]
          /\ conns' = [conns EXCEPT !["tcp"] = conns["tcp"] \cup {c}]
          /\ "tcp" \notin nilled /\ Cardinality(conns["tcp"]) < MaxConnNum
          /\ UNCHANGED <<wg, nilled, gate>>
      BY <1>6, <2>21, Bounds, <2>22 DEF Admit, At, HasRoom, Kind, Conns
    <3>2. pc' \in [Conns -> Steps] /\ \A d \in Conns \ {c} : pc'[d] = pc[d]
      BY <3>1 DEF TypeOK
    <3>3. IsFiniteSet({d \in Conns : pc'[d] # "none"})
      BY <3>1, Finite
    <3>9. /\ pc[c] \notin Open /\ pc'[c] \in Open
          /\ \A s \in Servers \ {Kind(c)} : \A d \in Conns :
               Kind(d) = s => (pc[d] \in Open <=> pc'[d] \in Open)
          /\ \A d \in Conns : Kind(d) = "ws" => (pc[d] \in WsSteps <=> pc'[d] \in WsSteps)
          /\ \A d \in Conns : Kind(d) = "tcp" => (pc[d] \in TcpSteps <=> pc'[d] \in TcpSteps)
      BY <3>1, <3>2, <2>21, Bounds DEF Kind, Conns, Open, Leaving, WsSteps,
           TcpSteps, Steps, TypeOK
    <3>10. /\ IsFiniteSet(In(pc, Kind(c), Open)) /\ Kind(c) \in Servers
           /\ IsFiniteSet(In(pc, "ws", WsSteps)) /\ IsFiniteSet(In(pc, "tcp", TcpSteps))
      BY Finite DEF Kind, Servers
    <3>4. /\ In(pc', Kind(c), Open) = In(pc, Kind(c), Open) \cup {c}
          /\ Cardinality(In(pc', Kind(c), Open)) = Cardinality(In(pc, Kind(c), Open)) + 1
      BY <3>2, <3>9, <3>10, SetGains
    <3>5. \A s \in Servers \ {Kind(c)} : In(pc', s, Open) = In(pc, s, Open)
      BY <3>9, SetStays
    <3>6. In(pc', "ws", WsSteps) = In(pc, "ws", WsSteps)
      BY <3>9, SetStays
    <3>7. In(pc', "tcp", TcpSteps) = In(pc, "tcp", TcpSteps)
      BY <3>9, SetStays
    <3>8. /\ (gate \in {"ws_closed", "tcp", "closed"} => Away("ws")) =>
               (gate \in {"ws_closed", "tcp", "closed"} => Away("ws"))'
          /\ (gate = "closed" => Away("tcp")) => (gate = "closed" => Away("tcp"))'
      BY <3>1, <3>2, <2>21, Bounds DEF Away, Kind, Conns, Open, Leaving,
           WsSteps, TcpSteps, Steps, TypeOK, Progress, InHand
    <3>12. /\ Cardinality(In(pc, Kind(c), Open)) \in Nat
           /\ Cardinality(In(pc, Kind(c), Open)) <= MaxConnNum
           /\ conns[Kind(c)] = IF Kind(c) \in nilled THEN {} ELSE In(pc, Kind(c), Open)
      BY <3>10, FS_CardinalityType DEF BooksAre
    <3>13. /\ conns'[Kind(c)] = conns[Kind(c)] \cup {c} /\ nilled' = nilled
           /\ \A s \in Servers \ {Kind(c)} : conns'[s] = conns[s]
      BY <3>1, <3>10 DEF TypeOK
    <3>15. Cardinality(In(pc, Kind(c), Open)) < MaxConnNum
      BY <3>1, <3>12
    <3>16. Cardinality(In(pc', Kind(c), Open)) <= MaxConnNum
      <4> DEFINE n == Cardinality(In(pc, Kind(c), Open))
                 m == Cardinality(In(pc', Kind(c), Open))
      <4>1. n \in Nat /\ MaxConnNum \in Nat /\ m = n + 1 /\ n < MaxConnNum
        BY <3>4, <3>12, <3>15, Bounds
      <4> HIDE DEF n, m
      <4>2. m <= MaxConnNum
        BY <4>1
      <4> QED
        BY <4>2 DEF m
    <3>14. conns'[Kind(c)] = IF Kind(c) \in nilled' THEN {} ELSE In(pc', Kind(c), Open)
      <4>1. CASE Kind(c) \in nilled
        BY <3>1, <3>12, <3>13, <4>1
      <4>2. CASE Kind(c) \notin nilled
        <5>1. conns[Kind(c)] = In(pc, Kind(c), Open) /\ Kind(c) \notin nilled'
          BY <3>12, <3>13, <4>2
        <5> QED
          BY <3>4, <3>13, <5>1, Zenon
      <4> QED
        BY <4>1, <4>2
    <3>11. ASSUME NEW s \in Servers
           PROVE  /\ Cardinality(In(pc', s, Open)) <= MaxConnNum
                  /\ conns'[s] = IF s \in nilled' THEN {} ELSE In(pc', s, Open)
      <4>1. CASE s = Kind(c)
        BY <3>14, <3>16, <4>1
      <4>2. CASE s # Kind(c)
        <5>1. In(pc', s, Open) = In(pc, s, Open) /\ conns'[s] = conns[s]
          BY <3>5, <3>13, <4>2
        <5>2. /\ Cardinality(In(pc, s, Open)) <= MaxConnNum
              /\ conns[s] = IF s \in nilled THEN {} ELSE In(pc, s, Open)
          BY DEF BooksAre
        <5> QED
          BY <3>13, <5>1, <5>2
      <4> QED
        BY <4>1, <4>2
    <3> QED
      BY <3>1, <3>3, <3>6, <3>7, <3>8, <3>10, <3>11 DEF BooksAre, Servers,
           TypeOK
  <2> QED
    BY <2>20, <2>21 DEF Conns
<1>7. ASSUME NEW c \in Conns, Refuse(c) PROVE BooksAre'
  <2>20. CASE c \in Ws
    <3>1. /\ pc[c] = "found" /\ Kind(c) = "ws"
          /\ pc' = [pc EXCEPT ![c] = "gone"]
          /\ wg' = [wg EXCEPT !["ws"] = wg["ws"] - 1]
          /\ UNCHANGED <<conns, nilled, gate>>
      BY <1>7, <2>20, Bounds DEF Refuse, At, HasRoom, Kind, Conns
    <3>2. pc' \in [Conns -> Steps] /\ \A d \in Conns \ {c} : pc'[d] = pc[d]
      BY <3>1 DEF TypeOK
    <3>3. IsFiniteSet({d \in Conns : pc'[d] # "none"})
      BY <3>1, Finite
    <3>9. /\ \A d \in Conns : pc[d] \in Open <=> pc'[d] \in Open
          /\ Kind(c) = "ws" /\ pc[c] \in WsSteps /\ pc'[c] \notin WsSteps
          /\ \A d \in Conns : Kind(d) = "tcp" => (pc[d] \in TcpSteps <=> pc'[d] \in TcpSteps)
      BY <3>1, <3>2, <2>20, Bounds DEF Kind, Conns, Open, Leaving, WsSteps,
           TcpSteps, Steps, TypeOK
    <3>10. /\ IsFiniteSet(In(pc, Kind(c), Open)) /\ Kind(c) \in Servers
           /\ IsFiniteSet(In(pc, "ws", WsSteps)) /\ IsFiniteSet(In(pc, "tcp", TcpSteps))
      BY Finite DEF Kind, Servers
    <3>4. \A s \in Servers : In(pc', s, Open) = In(pc, s, Open)
      BY <3>9, SetStays
    <3>6. /\ In(pc', "ws", WsSteps) = In(pc, "ws", WsSteps) \ {c}
          /\ Cardinality(In(pc', "ws", WsSteps)) = Cardinality(In(pc, "ws", WsSteps)) - 1
      BY <3>2, <3>9, <3>10, SetLoses
    <3>7. In(pc', "tcp", TcpSteps) = In(pc, "tcp", TcpSteps)
      BY <3>9, SetStays
    <3>8. /\ (gate \in {"ws_closed", "tcp", "closed"} => Away("ws")) =>
               (gate \in {"ws_closed", "tcp", "closed"} => Away("ws"))'
          /\ (gate = "closed" => Away("tcp")) => (gate = "closed" => Away("tcp"))'
      BY <3>1, <3>2, <2>20, Bounds DEF Away, Kind, Conns, Open, Leaving,
           WsSteps, TcpSteps, Steps, TypeOK, Progress, InHand
    <3>11. \A s \in Servers : /\ Cardinality(In(pc', s, Open)) <= MaxConnNum
                              /\ conns'[s] = IF s \in nilled' THEN {} ELSE In(pc', s, Open)
      BY <3>1, <3>4 DEF BooksAre
    <3> QED
      BY <3>1, <3>3, <3>6, <3>7, <3>8, <3>10, <3>11 DEF BooksAre, Servers,
           TypeOK
  <2>21. CASE c \in Tcp
    <3>1. /\ pc[c] = "found" /\ Kind(c) = "tcp"
          /\ pc' = [pc EXCEPT ![c] = "gone"]
          /\ wg' = wg
          /\ UNCHANGED <<conns, nilled, gate>>
      BY <1>7, <2>21, Bounds DEF Refuse, At, HasRoom, Kind, Conns
    <3>2. pc' \in [Conns -> Steps] /\ \A d \in Conns \ {c} : pc'[d] = pc[d]
      BY <3>1 DEF TypeOK
    <3>3. IsFiniteSet({d \in Conns : pc'[d] # "none"})
      BY <3>1, Finite
    <3>9. /\ \A d \in Conns : pc[d] \in Open <=> pc'[d] \in Open
          /\ \A d \in Conns : Kind(d) = "ws" => (pc[d] \in WsSteps <=> pc'[d] \in WsSteps)
          /\ \A d \in Conns : Kind(d) = "tcp" => (pc[d] \in TcpSteps <=> pc'[d] \in TcpSteps)
      BY <3>1, <3>2, <2>21, Bounds DEF Kind, Conns, Open, Leaving, WsSteps,
           TcpSteps, Steps, TypeOK
    <3>10. /\ IsFiniteSet(In(pc, Kind(c), Open)) /\ Kind(c) \in Servers
           /\ IsFiniteSet(In(pc, "ws", WsSteps)) /\ IsFiniteSet(In(pc, "tcp", TcpSteps))
      BY Finite DEF Kind, Servers
    <3>4. \A s \in Servers : In(pc', s, Open) = In(pc, s, Open)
      BY <3>9, SetStays
    <3>6. In(pc', "ws", WsSteps) = In(pc, "ws", WsSteps)
      BY <3>9, SetStays
    <3>7. In(pc', "tcp", TcpSteps) = In(pc, "tcp", TcpSteps)
      BY <3>9, SetStays
    <3>8. /\ (gate \in {"ws_closed", "tcp", "closed"} => Away("ws")) =>
               (gate \in {"ws_closed", "tcp", "closed"} => Away("ws"))'
          /\ (gate = "closed" => Away("tcp")) => (gate = "closed" => Away("tcp"))'
      BY <3>1, <3>2, <2>21, Bounds DEF Away, Kind, Conns, Open, Leaving,
           WsSteps, TcpSteps, Steps, TypeOK, Progress, InHand
    <3>11. \A s \in Servers : /\ Cardinality(In(pc', s, Open)) <= MaxConnNum
                              /\ conns'[s] = IF s \in nilled' THEN {} ELSE In(pc', s, Open)
      BY <3>1, <3>4 DEF BooksAre
    <3> QED
      BY <3>1, <3>3, <3>6, <3>7, <3>8, <3>10, <3>11 DEF BooksAre, Servers,
           TypeOK
  <2> QED
    BY <2>20, <2>21 DEF Conns
<1>8. ASSUME NEW c \in Conns, Count(c) PROVE BooksAre'
  <2>1. /\ pc[c] = "listed" /\ Kind(c) = "tcp"
        /\ pc' = [pc EXCEPT ![c] = "announce"]
        /\ wg' = [wg EXCEPT !["tcp"] = wg["tcp"] + 1]
        /\ UNCHANGED <<conns, nilled, gate>>
    BY <1>8, Bounds DEF Count, At, HasRoom, Kind, Conns
  <2>2. pc' \in [Conns -> Steps] /\ \A d \in Conns \ {c} : pc'[d] = pc[d]
    BY <2>1 DEF TypeOK
  <2>3. IsFiniteSet({d \in Conns : pc'[d] # "none"})
    BY <2>1, Finite
  <2>9. /\ \A d \in Conns : pc[d] \in Open <=> pc'[d] \in Open
        /\ \A d \in Conns : Kind(d) = "ws" => (pc[d] \in WsSteps <=> pc'[d] \in WsSteps)
        /\ Kind(c) = "tcp" /\ pc[c] \notin TcpSteps /\ pc'[c] \in TcpSteps
    BY <2>1, <2>2, Bounds DEF Kind, Conns, Open, Leaving, WsSteps, TcpSteps,
         Steps, TypeOK
  <2>10. /\ IsFiniteSet(In(pc, Kind(c), Open)) /\ Kind(c) \in Servers
         /\ IsFiniteSet(In(pc, "ws", WsSteps)) /\ IsFiniteSet(In(pc, "tcp", TcpSteps))
    BY Finite DEF Kind, Servers
  <2>4. \A s \in Servers : In(pc', s, Open) = In(pc, s, Open)
    BY <2>9, SetStays
  <2>6. In(pc', "ws", WsSteps) = In(pc, "ws", WsSteps)
    BY <2>9, SetStays
  <2>7. /\ In(pc', "tcp", TcpSteps) = In(pc, "tcp", TcpSteps) \cup {c}
        /\ Cardinality(In(pc', "tcp", TcpSteps)) = Cardinality(In(pc, "tcp", TcpSteps)) + 1
    BY <2>2, <2>9, <2>10, SetGains
  <2>8. /\ (gate \in {"ws_closed", "tcp", "closed"} => Away("ws")) =>
             (gate \in {"ws_closed", "tcp", "closed"} => Away("ws"))'
        /\ (gate = "closed" => Away("tcp")) => (gate = "closed" => Away("tcp"))'
    BY <2>1, <2>2, Bounds DEF Away, Kind, Conns, Open, Leaving, WsSteps,
         TcpSteps, Steps, TypeOK, Progress, InHand
  <2>11. \A s \in Servers : /\ Cardinality(In(pc', s, Open)) <= MaxConnNum
                            /\ conns'[s] = IF s \in nilled' THEN {} ELSE In(pc', s, Open)
    BY <2>1, <2>4 DEF BooksAre
  <2> QED
    BY <2>1, <2>3, <2>6, <2>7, <2>8, <2>10, <2>11 DEF BooksAre, Servers, TypeOK
<1>9. ASSUME NEW c \in Conns, Announce(c) PROVE BooksAre'
  <2>1. UNCHANGED <<conns, nilled, wg, gate>>
    BY <1>9 DEF Announce
  <2>2. IsFiniteSet({d \in Conns : pc'[d] # "none"})
    BY <1>9, Finite DEF Announce, At
  <2> QED
    BY <1>9, <2>1, <2>2, Bounds, BooksStay DEF Announce, At, Kind, Conns,
         Open, Leaving, WsSteps, TcpSteps, Steps, TypeOK
<1>10. ASSUME NEW c \in Conns, Route(c) PROVE BooksAre'
  <2>1. UNCHANGED <<conns, nilled, wg, gate>>
    BY <1>10 DEF Route
  <2>2. IsFiniteSet({d \in Conns : pc'[d] # "none"})
    BY <1>10, Finite DEF Route, At
  <2> QED
    BY <1>10, <2>1, <2>2, Bounds, BooksStay DEF Route, At, Kind, Conns, Open,
         Leaving, WsSteps, TcpSteps, Steps, TypeOK
<1>11. ASSUME NEW c \in Conns, ReadFails(c) PROVE BooksAre'
  <2>1. UNCHANGED <<conns, nilled, wg, gate>>
    BY <1>11 DEF ReadFails
  <2>2. IsFiniteSet({d \in Conns : pc'[d] # "none"})
    BY <1>11, Finite DEF ReadFails, At
  <2> QED
    BY <1>11, <2>1, <2>2, Bounds, BooksStay DEF ReadFails, At, Kind, Conns,
         Open, Leaving, WsSteps, TcpSteps, Steps, TypeOK
<1>12. ASSUME NEW c \in Conns, Remove(c) PROVE BooksAre'
  <2>1. /\ pc[c] = "cleanup"
        /\ pc' = [pc EXCEPT ![c] = "leave"]
        /\ conns' = [conns EXCEPT ![Kind(c)] = conns[Kind(c)] \ {c}]
        /\ UNCHANGED <<wg, nilled, gate>>
    BY <1>12, Bounds DEF Remove, At, HasRoom, Kind, Conns
  <2>2. pc' \in [Conns -> Steps] /\ \A d \in Conns \ {c} : pc'[d] = pc[d]
    BY <2>1 DEF TypeOK
  <2>3. IsFiniteSet({d \in Conns : pc'[d] # "none"})
    BY <2>1, Finite
  <2>9. /\ pc[c] \in Open /\ pc'[c] \notin Open
        /\ \A s \in Servers \ {Kind(c)} : \A d \in Conns :
             Kind(d) = s => (pc[d] \in Open <=> pc'[d] \in Open)
        /\ \A d \in Conns : Kind(d) = "ws" => (pc[d] \in WsSteps <=> pc'[d] \in WsSteps)
        /\ \A d \in Conns : Kind(d) = "tcp" => (pc[d] \in TcpSteps <=> pc'[d] \in TcpSteps)
    BY <2>1, <2>2, Bounds DEF Kind, Conns, Open, Leaving, WsSteps, TcpSteps,
         Steps, TypeOK
  <2>10. /\ IsFiniteSet(In(pc, Kind(c), Open)) /\ Kind(c) \in Servers
         /\ IsFiniteSet(In(pc, "ws", WsSteps)) /\ IsFiniteSet(In(pc, "tcp", TcpSteps))
    BY Finite DEF Kind, Servers
  <2>4. /\ In(pc', Kind(c), Open) = In(pc, Kind(c), Open) \ {c}
        /\ Cardinality(In(pc', Kind(c), Open)) = Cardinality(In(pc, Kind(c), Open)) - 1
    BY <2>2, <2>9, <2>10, SetLoses
  <2>5. \A s \in Servers \ {Kind(c)} : In(pc', s, Open) = In(pc, s, Open)
    BY <2>9, SetStays
  <2>6. In(pc', "ws", WsSteps) = In(pc, "ws", WsSteps)
    BY <2>9, SetStays
  <2>7. In(pc', "tcp", TcpSteps) = In(pc, "tcp", TcpSteps)
    BY <2>9, SetStays
  <2>8. /\ (gate \in {"ws_closed", "tcp", "closed"} => Away("ws")) =>
             (gate \in {"ws_closed", "tcp", "closed"} => Away("ws"))'
        /\ (gate = "closed" => Away("tcp")) => (gate = "closed" => Away("tcp"))'
    BY <2>1, <2>2, Bounds DEF Away, Kind, Conns, Open, Leaving, WsSteps,
         TcpSteps, Steps, TypeOK, Progress, InHand
  <2>12. /\ Cardinality(In(pc, Kind(c), Open)) \in Nat
         /\ Cardinality(In(pc, Kind(c), Open)) <= MaxConnNum
         /\ conns[Kind(c)] = IF Kind(c) \in nilled THEN {} ELSE In(pc, Kind(c), Open)
    BY <2>10, FS_CardinalityType DEF BooksAre
  <2>13. /\ conns'[Kind(c)] = conns[Kind(c)] \ {c} /\ nilled' = nilled
         /\ \A s \in Servers \ {Kind(c)} : conns'[s] = conns[s]
    BY <2>1, <2>10 DEF TypeOK
  <2>15. Cardinality(In(pc, Kind(c), Open)) <= MaxConnNum
    BY <2>1, <2>12
  <2>16. Cardinality(In(pc', Kind(c), Open)) <= MaxConnNum
    <3> DEFINE n == Cardinality(In(pc, Kind(c), Open))
               m == Cardinality(In(pc', Kind(c), Open))
    <3>1. n \in Nat /\ MaxConnNum \in Nat /\ m = n - 1 /\ n <= MaxConnNum
      BY <2>4, <2>12, <2>15, Bounds
    <3> HIDE DEF n, m
    <3>2. m <= MaxConnNum
      BY <3>1
    <3> QED
      BY <3>2 DEF m
  <2>14. conns'[Kind(c)] = IF Kind(c) \in nilled' THEN {} ELSE In(pc', Kind(c), Open)
    <3>1. CASE Kind(c) \in nilled
      BY <2>1, <2>12, <2>13, <3>1
    <3>2. CASE Kind(c) \notin nilled
      <4>1. conns[Kind(c)] = In(pc, Kind(c), Open) /\ Kind(c) \notin nilled'
        BY <2>12, <2>13, <3>2
      <4> QED
        BY <2>4, <2>13, <4>1, Zenon
    <3> QED
      BY <3>1, <3>2
  <2>11. ASSUME NEW s \in Servers
         PROVE  /\ Cardinality(In(pc', s, Open)) <= MaxConnNum
                /\ conns'[s] = IF s \in nilled' THEN {} ELSE In(pc', s, Open)
    <3>1. CASE s = Kind(c)
      BY <2>14, <2>16, <3>1
    <3>2. CASE s # Kind(c)
      <4>1. In(pc', s, Open) = In(pc, s, Open) /\ conns'[s] = conns[s]
        BY <2>5, <2>13, <3>2
      <4>2. /\ Cardinality(In(pc, s, Open)) <= MaxConnNum
            /\ conns[s] = IF s \in nilled THEN {} ELSE In(pc, s, Open)
        BY DEF BooksAre
      <4> QED
        BY <2>13, <4>1, <4>2
    <3> QED
      BY <3>1, <3>2
  <2> QED
    BY <2>1, <2>3, <2>6, <2>7, <2>8, <2>10, <2>11 DEF BooksAre, Servers, TypeOK
<1>13. ASSUME NEW c \in Conns, OnClose(c) PROVE BooksAre'
  <2>1. UNCHANGED <<conns, nilled, wg, gate>>
    BY <1>13 DEF OnClose
  <2>2. IsFiniteSet({d \in Conns : pc'[d] # "none"})
    BY <1>13, Finite DEF OnClose, At
  <2> QED
    BY <1>13, <2>1, <2>2, Bounds, BooksStay DEF OnClose, At, Kind, Conns,
         Open, Leaving, WsSteps, TcpSteps, Steps, TypeOK
<1>14. ASSUME NEW c \in Conns, Done(c) PROVE BooksAre'
  <2>20. CASE c \in Ws
    <3>1. /\ pc[c] = "over" /\ Kind(c) = "ws"
          /\ pc' = [pc EXCEPT ![c] = "gone"]
          /\ wg' = [wg EXCEPT !["ws"] = wg["ws"] - 1]
          /\ UNCHANGED <<conns, nilled, gate>>
      BY <1>14, <2>20, Bounds DEF Done, At, HasRoom, Kind, Conns
    <3>2. pc' \in [Conns -> Steps] /\ \A d \in Conns \ {c} : pc'[d] = pc[d]
      BY <3>1 DEF TypeOK
    <3>3. IsFiniteSet({d \in Conns : pc'[d] # "none"})
      BY <3>1, Finite
    <3>9. /\ \A d \in Conns : pc[d] \in Open <=> pc'[d] \in Open
          /\ Kind(c) = "ws" /\ pc[c] \in WsSteps /\ pc'[c] \notin WsSteps
          /\ \A d \in Conns : Kind(d) = "tcp" => (pc[d] \in TcpSteps <=> pc'[d] \in TcpSteps)
      BY <3>1, <3>2, <2>20, Bounds DEF Kind, Conns, Open, Leaving, WsSteps,
           TcpSteps, Steps, TypeOK
    <3>10. /\ IsFiniteSet(In(pc, Kind(c), Open)) /\ Kind(c) \in Servers
           /\ IsFiniteSet(In(pc, "ws", WsSteps)) /\ IsFiniteSet(In(pc, "tcp", TcpSteps))
      BY Finite DEF Kind, Servers
    <3>4. \A s \in Servers : In(pc', s, Open) = In(pc, s, Open)
      BY <3>9, SetStays
    <3>6. /\ In(pc', "ws", WsSteps) = In(pc, "ws", WsSteps) \ {c}
          /\ Cardinality(In(pc', "ws", WsSteps)) = Cardinality(In(pc, "ws", WsSteps)) - 1
      BY <3>2, <3>9, <3>10, SetLoses
    <3>7. In(pc', "tcp", TcpSteps) = In(pc, "tcp", TcpSteps)
      BY <3>9, SetStays
    <3>8. /\ (gate \in {"ws_closed", "tcp", "closed"} => Away("ws")) =>
               (gate \in {"ws_closed", "tcp", "closed"} => Away("ws"))'
          /\ (gate = "closed" => Away("tcp")) => (gate = "closed" => Away("tcp"))'
      BY <3>1, <3>2, <2>20, Bounds DEF Away, Kind, Conns, Open, Leaving,
           WsSteps, TcpSteps, Steps, TypeOK, Progress, InHand
    <3>11. \A s \in Servers : /\ Cardinality(In(pc', s, Open)) <= MaxConnNum
                              /\ conns'[s] = IF s \in nilled' THEN {} ELSE In(pc', s, Open)
      BY <3>1, <3>4 DEF BooksAre
    <3> QED
      BY <3>1, <3>3, <3>6, <3>7, <3>8, <3>10, <3>11 DEF BooksAre, Servers,
           TypeOK
  <2>21. CASE c \in Tcp
    <3>1. /\ pc[c] = "over" /\ Kind(c) = "tcp"
          /\ pc' = [pc EXCEPT ![c] = "gone"]
          /\ wg' = [wg EXCEPT !["tcp"] = wg["tcp"] - 1]
          /\ UNCHANGED <<conns, nilled, gate>>
      BY <1>14, <2>21, Bounds DEF Done, At, HasRoom, Kind, Conns
    <3>2. pc' \in [Conns -> Steps] /\ \A d \in Conns \ {c} : pc'[d] = pc[d]
      BY <3>1 DEF TypeOK
    <3>3. IsFiniteSet({d \in Conns : pc'[d] # "none"})
      BY <3>1, Finite
    <3>9. /\ \A d \in Conns : pc[d] \in Open <=> pc'[d] \in Open
          /\ \A d \in Conns : Kind(d) = "ws" => (pc[d] \in WsSteps <=> pc'[d] \in WsSteps)
          /\ Kind(c) = "tcp" /\ pc[c] \in TcpSteps /\ pc'[c] \notin TcpSteps
      BY <3>1, <3>2, <2>21, Bounds DEF Kind, Conns, Open, Leaving, WsSteps,
           TcpSteps, Steps, TypeOK
    <3>10. /\ IsFiniteSet(In(pc, Kind(c), Open)) /\ Kind(c) \in Servers
           /\ IsFiniteSet(In(pc, "ws", WsSteps)) /\ IsFiniteSet(In(pc, "tcp", TcpSteps))
      BY Finite DEF Kind, Servers
    <3>4. \A s \in Servers : In(pc', s, Open) = In(pc, s, Open)
      BY <3>9, SetStays
    <3>6. In(pc', "ws", WsSteps) = In(pc, "ws", WsSteps)
      BY <3>9, SetStays
    <3>7. /\ In(pc', "tcp", TcpSteps) = In(pc, "tcp", TcpSteps) \ {c}
          /\ Cardinality(In(pc', "tcp", TcpSteps)) = Cardinality(In(pc, "tcp", TcpSteps)) - 1
      BY <3>2, <3>9, <3>10, SetLoses
    <3>8. /\ (gate \in {"ws_closed", "tcp", "closed"} => Away("ws")) =>
               (gate \in {"ws_closed", "tcp", "closed"} => Away("ws"))'
          /\ (gate = "closed" => Away("tcp")) => (gate = "closed" => Away("tcp"))'
      BY <3>1, <3>2, <2>21, Bounds DEF Away, Kind, Conns, Open, Leaving,
           WsSteps, TcpSteps, Steps, TypeOK, Progress, InHand
    <3>11. \A s \in Servers : /\ Cardinality(In(pc', s, Open)) <= MaxConnNum
                              /\ conns'[s] = IF s \in nilled' THEN {} ELSE In(pc', s, Open)
      BY <3>1, <3>4 DEF BooksAre
    <3> QED
      BY <3>1, <3>3, <3>6, <3>7, <3>8, <3>10, <3>11 DEF BooksAre, Servers,
           TypeOK
  <2> QED
    BY <2>20, <2>21 DEF Conns
<1>15. ASSUME NEW c \in Conns, NEW what \in {"login", "enter"}, Read(c, what)
     PROVE BooksAre'
  <2>1. UNCHANGED <<conns, nilled, wg, gate>>
    BY <1>15 DEF Read
  <2>2. IsFiniteSet({d \in Conns : pc'[d] # "none"})
    BY <1>15, Finite DEF Read, At
  <2> QED
    BY <1>15, <2>1, <2>2, Bounds, BooksStay DEF Read, At, Kind, Conns, Open,
         Leaving, WsSteps, TcpSteps, Steps, TypeOK
<1>16. CASE AcceptEnds
  BY <1>16 DEF AcceptEnds, BooksAre, Away
<1>17. CASE GameExec
  <2> DEFINE x == Head(queue["game"])
  <2>4. HeadOK("game")
    BY <1>17, HeadFacts DEF GameExec
  <2>5. Hear(x.conn, x.what) \/ EnterRoom(x.conn, x.what) \/ CloseAgent(x.conn, x.what)
    BY <1>17 DEF GameExec
  <2>6. x.what = "close" => pc[x.conn] = "called"
    BY <2>4 DEF QueueInv, Told, HeadOK
  <2> HIDE DEF x
  <2>1. \A d \in Conns : pc'[d] = pc[d] \/ (pc[d] = "called" /\ pc'[d] = "over")
    BY <2>5, <2>6 DEF Hear, EnterRoom, CloseAgent, At, TypeOK
  <2>2. IsFiniteSet({d \in Conns : pc'[d] # "none"})
    <3>1. {d \in Conns : pc'[d] # "none"} = {d \in Conns : pc[d] # "none"}
      BY <2>1
    <3> QED
      BY <3>1 DEF BooksAre
  <2>3. UNCHANGED <<conns, nilled, wg, gate>>
    BY <1>17 DEF GameExec
  <2> QED
    BY <2>1, <2>2, <2>3, BooksStay DEF Open, Leaving, WsSteps, TcpSteps
<1>18. CASE HallExec
  BY <1>18 DEF HallExec, BooksAre, Away
<1>19. CASE Signal
  BY <1>19 DEF Signal, BooksAre, Away
<1>25. ASSUME NEW c \in Conns, SetRoom(c) \/ LeaveRoom(c) PROVE BooksAre'
  BY <1>25, RoomSteps DEF RestStays, BooksAre, Away
<1>20. ASSUME NEW s \in Servers, CloseListener(s) PROVE BooksAre'
  <2>1. /\ gate' = s /\ gate = (IF s = "ws" THEN "run" ELSE "ws_closed") /\ s \in {"ws", "tcp"}
        /\ UNCHANGED <<pc, conns, nilled, wg>>
    BY <1>20 DEF CloseListener, Servers
  <2> QED
    BY <2>1 DEF BooksAre, Away
<1>21. ASSUME NEW s \in Servers, ShutAll(s) PROVE BooksAre'
  <2>1. /\ conns' = [conns EXCEPT ![s] = {}] /\ nilled' = nilled \cup {s}
        /\ UNCHANGED <<pc, wg, gate>>
    BY <1>21 DEF ShutAll
  <2> QED
    BY <2>1 DEF BooksAre, Away, TypeOK
<1>22. ASSUME NEW s \in Servers, ServerClosed(s) PROVE BooksAre'
  <2>1. /\ gate = s /\ s \in nilled /\ wg[s] = 0 /\ s \in {"ws", "tcp"}
        /\ gate' = (IF s = "ws" THEN "ws_closed" ELSE "closed")
        /\ UNCHANGED <<pc, conns, nilled, wg>>
    BY <1>22 DEF ServerClosed, Servers, Waited
  <2>2. CASE s = "ws"
    <3>1. In(pc, "ws", WsSteps) = {}
      BY <2>1, <2>2, Finite, FS_EmptySet DEF BooksAre
    <3>2. Away("ws")
      BY <3>1 DEF Away, In, WsSteps
    <3> QED
      BY <2>1, <2>2, <3>2 DEF BooksAre, Away
  <2>3. CASE s = "tcp"
    <3>1. In(pc, "tcp", TcpSteps) = {} /\ InHand = {}
      BY <2>1, <2>3, Finite, FS_EmptySet DEF BooksAre, Progress
    <3>2. Away("tcp")
      BY <3>1 DEF Away, In, TcpSteps, Open, InHand, Kind, Conns
    <3> QED
      BY <2>1, <2>3, <3>2 DEF BooksAre, Away
  <2> QED
    BY <2>1, <2>2, <2>3
<1>23. ASSUME NEW m \in {"game", "hall"}, CloseSkeleton(m) PROVE BooksAre'
  <2>4. /\ \A i \in DOMAIN queue["hall"] : queue["hall"][i].what = "login"
        /\ \A i \in DOMAIN queue["game"] :
             queue["game"][i].what = "close" => pc[queue["game"][i].conn] = "called"
    BY DEF QueueInv, Told
  <2>5. pc' = [c \in Conns |->
              IF \E i \in DOMAIN queue[m] : queue[m][i] = [conn |-> c, what |-> "close"]
              THEN "over" ELSE pc[c]]
    BY <1>23 DEF CloseSkeleton
  <2>1. \A d \in Conns : pc'[d] = pc[d] \/ (pc[d] = "called" /\ pc'[d] = "over")
    BY <2>4, <2>5
  <2>2. IsFiniteSet({d \in Conns : pc'[d] # "none"})
    <3>1. {d \in Conns : pc'[d] # "none"} = {d \in Conns : pc[d] # "none"}
      BY <2>1
    <3> QED
      BY <3>1 DEF BooksAre
  <2>3. UNCHANGED <<conns, nilled, wg, gate>>
    BY <1>23 DEF CloseSkeleton
  <2> QED
    BY <2>1, <2>2, <2>3, BooksStay DEF Open, Leaving, WsSteps, TcpSteps
<1>24. CASE UNCHANGED vars
  BY <1>24 DEF vars, BooksAre, Away
<1> QED
  BY <1>1, <1>2, <1>3, <1>4, <1>5, <1>6, <1>7, <1>8, <1>9, <1>10,
     <1>11, <1>12, <1>13, <1>14, <1>15, <1>16, <1>17, <1>18, <1>19, <1>20,
     <1>21, <1>22, <1>23, <1>24, <1>25 DEF Next, Serve, Goroutine

(* What is in the game's channel, when the game takes the first message of *)
(* it, when one is added, and when connections go on.                      *)
LEMMA MsgConns ==
  /\ \A q \in Seq(Msgs) : \A i \in DOMAIN q : q[i] \in Msgs
  /\ \A m \in Msgs : m.conn \in Conns
<1>1. \A q \in Seq(Msgs) : \A i \in DOMAIN q : q[i] \in Msgs
  OBVIOUS
<1>2. \A m \in Msgs : m.conn \in Conns
  BY DEF Msgs
<1> QED
  BY <1>1, <1>2

(* The game takes the first message out of its channel: what is left is in *)
(* order, and it was not a message of a connection the game does not know. *)
LEMMA ToldTail ==
  ASSUME NEW q \in Seq(Msgs), q # <<>>, NEW p, NEW l, Told(q, p, l),
         NEW p2, NEW l2,
         \A d \in Conns : d # Head(q).conn => p2[d] = p[d] /\ l2[d] = l[d],
         Head(q).what # "close" => p2[Head(q).conn] = p[Head(q).conn],
         Head(q).what = "new" => l2[Head(q).conn] = "new",
         Head(q).what = "enter" => l2[Head(q).conn] = l[Head(q).conn]
  PROVE  /\ Told(Tail(q), p2, l2)
         /\ Head(q).what # "new" => l[Head(q).conn] = "new"
         /\ Head(q).what # "login"
<1> DEFINE t == Tail(q)
           x == Head(q)
<1>1. /\ t \in Seq(Msgs) /\ Len(q) \in Nat /\ Len(q) > 0 /\ x = q[1] /\ x \in Msgs
      /\ DOMAIN q = 1..Len(q) /\ DOMAIN t = 1..(Len(q) - 1)
      /\ \A i \in 1..(Len(q) - 1) : t[i] = q[i + 1]
  BY TailFacts
<1> HIDE DEF t
<1>11. /\ \A i \in DOMAIN q : q[i] \in Msgs
       /\ \A m \in Msgs : m.conn \in Conns
  BY MsgConns
<1>2. \A i \in DOMAIN t : /\ i \in Nat /\ i + 1 \in DOMAIN q /\ t[i] = q[i + 1]
                          /\ q[i + 1] \in Msgs /\ q[i + 1].conn \in Conns
                          /\ 1 \in DOMAIN q /\ 1 < i + 1
  BY <1>1, <1>11
<1>3. \A i \in DOMAIN t : q[i + 1].conn = x.conn => q[i + 1].what # "new" /\ x.what # "close"
  BY <1>1, <1>2 DEF Told
<1>4. x.what # "login" /\ (x.what # "new" => l[x.conn] = "new")
  BY <1>1 DEF Told
<1>5. x.what \in {"new", "enter", "close"}
  BY <1>1, <1>4 DEF Msgs
<1>6. ASSUME NEW i \in DOMAIN t
      PROVE  /\ p2[t[i].conn] = p[t[i].conn]
             /\ t[i].what = "new" => l2[t[i].conn] = l[t[i].conn]
             /\ l[t[i].conn] = "new" => l2[t[i].conn] = "new"
             /\ t[i].conn = x.conn => l2[t[i].conn] = "new"
  BY <1>2, <1>3, <1>4, <1>5
<1>7. ASSUME NEW i \in DOMAIN t, t[i].what # "new"
      PROVE  l2[t[i].conn] = "new" \/ \E j \in DOMAIN t : j < i /\ t[j] = New(t[i].conn)
  <2>1. l[t[i].conn] = "new" \/ \E j \in DOMAIN q : j < i + 1 /\ q[j] = New(t[i].conn)
    BY <1>2, <1>7 DEF Told
  <2>2. CASE l[t[i].conn] = "new"
    BY <1>6, <2>2
  <2>3. ASSUME NEW j \in DOMAIN q, j < i + 1, q[j] = New(t[i].conn)
        PROVE  l2[t[i].conn] = "new" \/ \E k \in DOMAIN t : k < i /\ t[k] = New(t[i].conn)
    <3>1. CASE j = 1
      <4>1. x.conn = t[i].conn
        BY <1>1, <2>3, <3>1 DEF New
      <4> QED
        BY <1>6, <4>1
    <3>2. CASE j # 1
      <4>1. j - 1 \in DOMAIN t /\ j - 1 < i /\ t[j - 1] = q[j]
        BY <1>1, <1>2, <2>3, <3>2
      <4> QED
        BY <2>3, <4>1
    <3> QED
      BY <3>1, <3>2
  <2> QED
    BY <2>1, <2>2, <2>3
<1>8. \A i \in DOMAIN t : /\ p[t[i].conn] \in Heard /\ t[i].what # "login"
                          /\ t[i].what = "close" => p[t[i].conn] = "called"
                          /\ t[i].what = "new" => l[t[i].conn] = "none"
  BY <1>2 DEF Told
<1>9. \A i, j \in DOMAIN t :
        i < j /\ t[i].conn = t[j].conn => t[j].what # "new" /\ t[i].what # "close"
  <2>1. \A i, j \in DOMAIN t : i < j => i + 1 < j + 1
    BY <1>2
  <2> QED
    BY <1>2, <2>1 DEF Told
<1>10. Told(t, p2, l2)
  BY <1>6, <1>7, <1>8, <1>9 DEF Told
<1> QED
  BY <1>4, <1>10 DEF t

(* A connection puts a message into the channel of the game: the order is  *)
(* kept when its end comes last and its begin first.                       *)
LEMMA ToldAppend ==
  ASSUME NEW q \in Seq(Msgs), NEW x \in Msgs, NEW p, NEW l, Told(q, p, l),
         NEW p2, \A d \in Conns : d # x.conn => p2[d] = p[d],
         x.what # "login", p2[x.conn] \in Heard, p[x.conn] # "called",
         x.what = "close" => p2[x.conn] = "called",
         x.what = "new" => l[x.conn] = "none" /\ p[x.conn] \notin Heard,
         x.what # "new" => l[x.conn] = "new" \/ Tells(x.conn, q)
  PROVE  Told(Append(q, x), p2, l)
<1> DEFINE a == Append(q, x)
           n == Len(q) + 1
<1>1. /\ n \in Nat /\ a[n] = x /\ DOMAIN a = 1..n /\ DOMAIN q = 1..(n - 1)
      /\ \A i \in 1..(n - 1) : a[i] = q[i] /\ q[i] \in Msgs
  BY AppendFacts
<1> HIDE DEF a, n
<1>2. \A i \in DOMAIN a : i = n \/ (i \in DOMAIN q /\ i < n /\ a[i] = q[i] /\ q[i].conn \in Conns)
  BY <1>1 DEF Msgs
<1>3. \A i \in DOMAIN q : i \in DOMAIN a /\ a[i] = q[i] /\ i < n
  BY <1>1
<1>4. \A i \in DOMAIN q : q[i].conn = x.conn => x.what # "new" /\ q[i].what # "close"
  BY DEF Told
<1>5. ASSUME NEW i \in DOMAIN q
      PROVE  /\ p2[a[i].conn] \in Heard /\ a[i].what # "login"
             /\ a[i].what = "close" => p2[a[i].conn] = "called"
             /\ a[i].what = "new" => l[a[i].conn] = "none"
             /\ a[i].what # "new" => \/ l[a[i].conn] = "new"
                                     \/ \E j \in DOMAIN a : j < i /\ a[j] = New(a[i].conn)
  <2>1. /\ p[q[i].conn] \in Heard /\ q[i].what # "login" /\ q[i].conn \in Conns
        /\ q[i].what = "close" => p[q[i].conn] = "called"
        /\ q[i].what = "new" => l[q[i].conn] = "none"
        /\ q[i].what # "new" => \/ l[q[i].conn] = "new"
                                \/ \E j \in DOMAIN q : j < i /\ q[j] = New(q[i].conn)
    BY <1>1 DEF Told, Msgs
  <2>2. q[i].conn = x.conn \/ p2[q[i].conn] = p[q[i].conn]
    BY <2>1
  <2>3. p2[q[i].conn] \in Heard /\ (q[i].what = "close" => p2[q[i].conn] = "called")
    BY <1>4, <2>1, <2>2
  <2> QED
    BY <1>3, <2>1, <2>3
<1>6. /\ p2[x.conn] \in Heard /\ x.what # "login"
      /\ x.what = "close" => p2[x.conn] = "called"
      /\ x.what = "new" => l[x.conn] = "none"
      /\ x.what # "new" => \/ l[x.conn] = "new"
                           \/ \E j \in DOMAIN a : j < n /\ a[j] = New(x.conn)
  BY <1>3 DEF Tells
<1>7. ASSUME NEW i \in DOMAIN a, NEW j \in DOMAIN a, i < j, a[i].conn =
     a[j].conn
      PROVE  a[j].what # "new" /\ a[i].what # "close"
  <2>1. i \in DOMAIN q /\ a[i] = q[i]
    BY <1>1, <1>7
  <2>2. CASE j = n
    BY <1>1, <1>4, <1>7, <2>1, <2>2
  <2>3. CASE j # n
    BY <1>2, <1>7, <2>1, <2>3 DEF Told
  <2> QED
    BY <2>2, <2>3
<1>8. \A i \in DOMAIN a :
        /\ p2[a[i].conn] \in Heard /\ a[i].what # "login"
        /\ a[i].what = "close" => p2[a[i].conn] = "called"
        /\ a[i].what = "new" => l[a[i].conn] = "none"
        /\ a[i].what # "new" => \/ l[a[i].conn] = "new"
                                \/ \E j \in DOMAIN a : j < i /\ a[j] = New(a[i].conn)
  BY <1>1, <1>2, <1>5, <1>6
<1>9. Told(a, p2, l)
  BY <1>7, <1>8 DEF Told
<1> QED
  BY <1>9 DEF a

(* Connections go on without a message: what is in the channel stays true. *)
LEMMA ToldMove ==
  ASSUME NEW q \in Seq(Msgs), NEW p, NEW l, Told(q, p, l), NEW p2,
         \A d \in Conns : p[d] \in Heard => /\ p2[d] \in Heard
                                            /\ p[d] = "called" => p2[d] = "called"
  PROVE  Told(q, p2, l)
BY MsgConns DEF Told

(* Once the servers of connections are closed nobody tells the game any    *)
(* more, and its channel is empty.                                         *)
LEMMA NoneOpen ==
  ASSUME TypeOK, Progress, Books, QueueInv, down > 0 \/ "game" \in closed
  PROVE  (\A c \in Conns : pc[c] \notin Open \cup Leaving) /\ queue["game"] = <<>>
<1>1. gate = "closed"
  BY DEF Progress, TypeOK
<1>2. \A c \in Conns : pc[c] \notin Open \cup Leaving
  BY <1>1 DEF Books, CloseWaits, Of, Kind
<1>3. queue["game"] \in Seq(Msgs)
  BY DEF TypeOK, Msgs
<1>4. CASE queue["game"] # <<>>
  <2>1. 1 \in DOMAIN queue["game"]
    BY <1>3, <1>4, TailFacts
  <2>2. queue["game"][1].conn \in Conns /\ pc[queue["game"][1].conn] \in Heard
    BY <1>3, <2>1, MsgConns DEF QueueInv, Told
  <2> QED
    BY <1>2, <2>2 DEF Heard, Open, Leaving
<1> QED
  BY <1>2, <1>4

(* Both channels are sequences of messages.                                *)
LEMMA QueueTypes ==
  ASSUME TypeOK
  PROVE  queue["game"] \in Seq(Msgs) /\ queue["hall"] \in Seq(Msgs)
BY DEF TypeOK, Msgs

(* A send to a game that still listens is an append to its channel.        *)
LEMMA SendGame ==
  ASSUME TypeOK, "game" \notin closed, NEW c \in Conns,
         NEW what \in {"new", "login", "enter", "close"}, Send("game", c, what)
  PROVE  /\ queue'["game"] = Append(queue["game"], [conn |-> c, what |-> what])
         /\ queue'["hall"] = queue["hall"]
         /\ [conn |-> c, what |-> what] \in Msgs
BY DEF Send, TypeOK, Msgs

(* The channels stay in order.                                             *)
LEMMA QueueStep ==
  ASSUME TypeOK, Progress, Books, QueueInv, LifeInv, [Next]_vars
  PROVE  QueueInv'
<1>1. ASSUME NEW c \in Conns, Dial(c) PROVE QueueInv'
  <2>1. \A d \in Conns : pc[d] \in Heard => /\ pc'[d] \in Heard
                                            /\ pc[d] = "called" => pc'[d] = "called"
    BY <1>1 DEF Dial, At, TypeOK, Heard
  <2> QED
    BY <1>1, <2>1, QueueTypes, ToldMove DEF Dial, QueueInv
<1>2. ASSUME NEW c \in Conns, HangUp(c) PROVE QueueInv'
  BY <1>2 DEF HangUp, QueueInv
<1>3. ASSUME NEW c \in Conns, UpgradeFails(c) PROVE QueueInv'
  <2>1. \A d \in Conns : pc[d] \in Heard => /\ pc'[d] \in Heard
                                            /\ pc[d] = "called" => pc'[d] = "called"
    BY <1>3 DEF UpgradeFails, At, TypeOK, Heard
  <2> QED
    BY <1>3, <2>1, QueueTypes, ToldMove DEF UpgradeFails, QueueInv
<1>4. ASSUME NEW c \in Conns, Accept(c) PROVE QueueInv'
  <2>1. \A d \in Conns : pc[d] \in Heard => /\ pc'[d] \in Heard
                                            /\ pc[d] = "called" => pc'[d] = "called"
    BY <1>4 DEF Accept, At, TypeOK, Heard
  <2> QED
    BY <1>4, <2>1, QueueTypes, ToldMove DEF Accept, QueueInv
<1>5. ASSUME NEW c \in Conns, Upgrade(c) PROVE QueueInv'
  <2>1. \A d \in Conns : pc[d] \in Heard => /\ pc'[d] \in Heard
                                            /\ pc[d] = "called" => pc'[d] = "called"
    BY <1>5 DEF Upgrade, At, TypeOK, Heard
  <2> QED
    BY <1>5, <2>1, QueueTypes, ToldMove DEF Upgrade, QueueInv
<1>6. ASSUME NEW c \in Conns, Admit(c) PROVE QueueInv'
  <2>1. \A d \in Conns : pc[d] \in Heard => /\ pc'[d] \in Heard
                                            /\ pc[d] = "called" => pc'[d] = "called"
    BY <1>6 DEF Admit, At, TypeOK, Heard
  <2> QED
    BY <1>6, <2>1, QueueTypes, ToldMove DEF Admit, QueueInv
<1>7. ASSUME NEW c \in Conns, Refuse(c) PROVE QueueInv'
  <2>1. \A d \in Conns : pc[d] \in Heard => /\ pc'[d] \in Heard
                                            /\ pc[d] = "called" => pc'[d] = "called"
    BY <1>7 DEF Refuse, At, TypeOK, Heard
  <2> QED
    BY <1>7, <2>1, QueueTypes, ToldMove DEF Refuse, QueueInv
<1>8. ASSUME NEW c \in Conns, Count(c) PROVE QueueInv'
  <2>1. \A d \in Conns : pc[d] \in Heard => /\ pc'[d] \in Heard
                                            /\ pc[d] = "called" => pc'[d] = "called"
    BY <1>8 DEF Count, At, TypeOK, Heard
  <2> QED
    BY <1>8, <2>1, QueueTypes, ToldMove DEF Count, QueueInv
<1>9. ASSUME NEW c \in Conns, Announce(c) PROVE QueueInv'
  <2> DEFINE x == [conn |-> c, what |-> "new"]
  <2>1. pc[c] = "announce" /\ "game" \notin closed
    BY <1>9, NoneOpen DEF Announce, Open, Leaving
  <2>2. /\ queue'["game"] = Append(queue["game"], x) /\ x \in Msgs
        /\ queue'["hall"] = queue["hall"]
    BY <1>9, <2>1, SendGame DEF Announce, RouteOf
  <2>3. x.conn = c /\ x.what = "new"
    OBVIOUS
  <2> HIDE DEF x
  <2>4. /\ life' = life /\ \A d \in Conns : d # c => pc'[d] = pc[d]
        /\ pc'[c] \in Heard /\ pc[c] # "called"
        /\ x.what = "close" => pc'[c] = "called"
        /\ x.what = "new" => life[c] = "none" /\ pc[c] \notin Heard
        /\ x.what # "new" => life[c] = "new" \/ Tells(c, queue["game"])
    BY <1>9, <2>1, <2>3 DEF Announce, At, TypeOK, Heard, Early, LifeInv, HeardOf
  <2>5. Told(queue'["game"], pc', life)
    BY <2>2, <2>3, <2>4, QueueTypes, ToldAppend DEF QueueInv
  <2> QED
    BY <2>2, <2>4, <2>5 DEF QueueInv
<1>10. ASSUME NEW c \in Conns, Route(c) PROVE QueueInv'
  <2>9. CASE pc[c] = "enter"
    <3> DEFINE x == [conn |-> c, what |-> "enter"]
    <3>1. pc[c] = "enter" /\ "game" \notin closed
      BY <1>10, <2>9, NoneOpen DEF Route, Open, Leaving
    <3>2. /\ queue'["game"] = Append(queue["game"], x) /\ x \in Msgs
          /\ queue'["hall"] = queue["hall"]
      BY <1>10, <2>9, <3>1, SendGame DEF Route, RouteOf
    <3>3. x.conn = c /\ x.what = "enter"
      OBVIOUS
    <3> HIDE DEF x
    <3>4. /\ life' = life /\ \A d \in Conns : d # c => pc'[d] = pc[d]
          /\ pc'[c] \in Heard /\ pc[c] # "called"
          /\ x.what = "close" => pc'[c] = "called"
          /\ x.what = "new" => life[c] = "none" /\ pc[c] \notin Heard
          /\ x.what # "new" => life[c] = "new" \/ Tells(c, queue["game"])
      BY <1>10, <2>9, <3>1, <3>3 DEF Route, At, TypeOK, Heard, Early, LifeInv,
           HeardOf
    <3>5. Told(queue'["game"], pc', life)
      BY <3>2, <3>3, <3>4, QueueTypes, ToldAppend DEF QueueInv
    <3> QED
      BY <3>2, <3>4, <3>5 DEF QueueInv
  <2>10. CASE pc[c] = "login"
    <3> DEFINE x == [conn |-> c, what |-> "login"]
    <3>1. Send("hall", c, "login") /\ life' = life
      BY <1>10, <2>10 DEF Route, RouteOf
    <3>2. /\ queue'["game"] = queue["game"]
          /\ queue'["hall"] \in {queue["hall"], Append(queue["hall"], x)}
      BY <3>1 DEF Send, TypeOK
    <3>3. x \in Msgs /\ x.what = "login"
      BY DEF Msgs
    <3> HIDE DEF x
    <3>4. \A i \in DOMAIN queue'["hall"] : queue'["hall"][i].what = "login"
      <4>1. CASE queue'["hall"] = queue["hall"]
        BY <4>1 DEF QueueInv
      <4>2. CASE queue'["hall"] = Append(queue["hall"], x)
        BY <3>3, <4>2, QueueTypes, AppendFacts DEF QueueInv
      <4> QED
        BY <3>2, <4>1, <4>2
    <3>5. \A d \in Conns : pc[d] \in Heard => /\ pc'[d] \in Heard
                                              /\ pc[d] = "called" => pc'[d] = "called"
      BY <1>10 DEF Route, At, TypeOK, Heard
    <3>6. Told(queue["game"], pc', life)
      BY <3>5, QueueTypes, ToldMove DEF QueueInv
    <3> QED
      BY <3>1, <3>2, <3>4, <3>6 DEF QueueInv
  <2> QED
    BY <1>10, <2>9, <2>10 DEF Route
<1>11. ASSUME NEW c \in Conns, ReadFails(c) PROVE QueueInv'
  <2>1. \A d \in Conns : pc[d] \in Heard => /\ pc'[d] \in Heard
                                            /\ pc[d] = "called" => pc'[d] = "called"
    BY <1>11 DEF ReadFails, At, TypeOK, Heard
  <2> QED
    BY <1>11, <2>1, QueueTypes, ToldMove DEF ReadFails, QueueInv
<1>12. ASSUME NEW c \in Conns, Remove(c) PROVE QueueInv'
  <2>1. \A d \in Conns : pc[d] \in Heard => /\ pc'[d] \in Heard
                                            /\ pc[d] = "called" => pc'[d] = "called"
    BY <1>12 DEF Remove, At, TypeOK, Heard
  <2> QED
    BY <1>12, <2>1, QueueTypes, ToldMove DEF Remove, QueueInv
<1>13. ASSUME NEW c \in Conns, OnClose(c) PROVE QueueInv'
  <2> DEFINE x == [conn |-> c, what |-> "close"]
  <2>1. pc[c] = "leave" /\ "game" \notin closed
    BY <1>13, NoneOpen DEF OnClose, Open, Leaving
  <2>2. /\ queue'["game"] = Append(queue["game"], x) /\ x \in Msgs
        /\ queue'["hall"] = queue["hall"]
    BY <1>13, <2>1, SendGame DEF OnClose, RouteOf
  <2>3. x.conn = c /\ x.what = "close"
    OBVIOUS
  <2> HIDE DEF x
  <2>4. /\ life' = life /\ \A d \in Conns : d # c => pc'[d] = pc[d]
        /\ pc'[c] \in Heard /\ pc[c] # "called"
        /\ x.what = "close" => pc'[c] = "called"
        /\ x.what = "new" => life[c] = "none" /\ pc[c] \notin Heard
        /\ x.what # "new" => life[c] = "new" \/ Tells(c, queue["game"])
    BY <1>13, <2>1, <2>3 DEF OnClose, At, TypeOK, Heard, Early, LifeInv, HeardOf
  <2>5. Told(queue'["game"], pc', life)
    BY <2>2, <2>3, <2>4, QueueTypes, ToldAppend DEF QueueInv
  <2> QED
    BY <2>2, <2>4, <2>5 DEF QueueInv
<1>14. ASSUME NEW c \in Conns, Done(c) PROVE QueueInv'
  <2>1. \A d \in Conns : pc[d] \in Heard => /\ pc'[d] \in Heard
                                            /\ pc[d] = "called" => pc'[d] = "called"
    BY <1>14 DEF Done, At, TypeOK, Heard
  <2> QED
    BY <1>14, <2>1, QueueTypes, ToldMove DEF Done, QueueInv
<1>15. ASSUME NEW c \in Conns, NEW what \in {"login", "enter"}, Read(c, what)
     PROVE QueueInv'
  <2>1. \A d \in Conns : pc[d] \in Heard => /\ pc'[d] \in Heard
                                            /\ pc[d] = "called" => pc'[d] = "called"
    BY <1>15 DEF Read, At, TypeOK, Heard
  <2> QED
    BY <1>15, <2>1, QueueTypes, ToldMove DEF Read, QueueInv
<1>16. CASE AcceptEnds
  BY <1>16 DEF AcceptEnds, QueueInv
<1>17. CASE GameExec
  <2> DEFINE q == queue["game"]
             c == Head(q).conn
             what == Head(q).what
  <2>1. /\ queue' = [queue EXCEPT !["game"] = Tail(q)] /\ q # <<>>
        /\ Hear(c, what) \/ EnterRoom(c, what) \/ CloseAgent(c, what)
    BY <1>17 DEF GameExec
  <2>2. q \in Seq(Msgs) /\ queue'["game"] = Tail(q) /\ queue'["hall"] = queue["hall"]
    BY <2>1, QueueTypes DEF TypeOK
  <2>3. Head(q) \in Msgs /\ c \in Conns
    BY <2>1, <2>2, TailFacts, MsgConns
  <2>4. /\ \A d \in Conns : d # c => pc'[d] = pc[d] /\ life'[d] = life[d]
        /\ what # "close" => pc' = pc
        /\ what = "new" => life'[c] = "new"
        /\ what = "enter" => life' = life
    <3> HIDE DEF c, what
    <3> QED
      BY <2>1, <2>3, SMTT(20) DEF Hear, EnterRoom, CloseAgent, At, TypeOK
  <2>5. Told(Tail(q), pc', life')
    BY <2>1, <2>2, <2>4, ToldTail DEF QueueInv
  <2> QED
    BY <2>2, <2>5 DEF QueueInv
<1>18. CASE HallExec
  <2>1. /\ queue["hall"] # <<>> /\ UNCHANGED <<pc, life>>
        /\ queue'["hall"] = Tail(queue["hall"]) /\ queue'["game"] = queue["game"]
    BY <1>18 DEF HallExec, TypeOK
  <2>2. \A i \in DOMAIN queue'["hall"] : queue'["hall"][i].what = "login"
    BY <2>1, QueueTypes, TailFacts DEF QueueInv
  <2> QED
    BY <2>1, <2>2 DEF QueueInv
<1>19. CASE Signal
  BY <1>19 DEF Signal, QueueInv
<1>25. ASSUME NEW c \in Conns, SetRoom(c) \/ LeaveRoom(c) PROVE QueueInv'
  BY <1>25, RoomSteps DEF RestStays, QueueInv
<1>20. ASSUME NEW s \in Servers, CloseListener(s) PROVE QueueInv'
  BY <1>20 DEF CloseListener, QueueInv
<1>21. ASSUME NEW s \in Servers, ShutAll(s) PROVE QueueInv'
  BY <1>21 DEF ShutAll, QueueInv
<1>22. ASSUME NEW s \in Servers, ServerClosed(s) PROVE QueueInv'
  BY <1>22 DEF ServerClosed, QueueInv
<1>23. ASSUME NEW m \in {"game", "hall"}, CloseSkeleton(m) PROVE QueueInv'
  <2>1. /\ down \in Nat /\ down < 3 /\ ToDestroy(down + 1) = m
        /\ queue' = [queue EXCEPT ![m] = <<>>] /\ life' = life
    BY <1>23, Bounds DEF CloseSkeleton, Destroying, TypeOK
  <2>2. down > 0
    BY <2>1, Bounds
  <2>3. queue["game"] = <<>>
    BY <2>2, NoneOpen
  <2>4. queue'["game"] = <<>> /\ (queue'["hall"] = <<>> \/ queue'["hall"] = queue["hall"])
    BY <2>1, <2>3 DEF TypeOK
  <2> QED
    BY <2>4 DEF QueueInv, Told
<1>24. CASE UNCHANGED vars
  BY <1>24 DEF vars, QueueInv
<1> QED
  BY <1>1, <1>2, <1>3, <1>4, <1>5, <1>6, <1>7, <1>8, <1>9, <1>10,
     <1>11, <1>12, <1>13, <1>14, <1>15, <1>16, <1>17, <1>18, <1>19, <1>20,
     <1>21, <1>22, <1>23, <1>24, <1>25 DEF Next, Serve, Goroutine

(* The begin of a connection stays in the channel until the game hears it. *)
LEMMA TellsOn ==
  ASSUME NEW q \in Seq(Msgs)
  PROVE  /\ \A x \in Msgs, d \in Conns : Tells(d, q) => Tells(d, Append(q, x))
         /\ \A c \in Conns : Tells(c, Append(q, New(c)))
         /\ q # <<>> => \A d \in Conns : Tells(d, q) /\ Head(q) # New(d) => Tells(d, Tail(q))
<1>1. ASSUME NEW x \in Msgs, NEW d \in Conns, Tells(d, q) PROVE Tells(d,
     Append(q, x))
  BY <1>1, AppendFacts DEF Tells
<1>2. ASSUME NEW c \in Conns PROVE Tells(c, Append(q, New(c)))
  <2>1. New(c) \in Msgs
    BY DEF New, Msgs
  <2>2. Len(q) + 1 \in DOMAIN Append(q, New(c)) /\ Append(q, New(c))[Len(q) + 1] = New(c)
    BY <2>1, AppendFacts
  <2> QED
    BY <2>2 DEF Tells
<1>3. ASSUME q # <<>>, NEW d \in Conns, Tells(d, q), Head(q) # New(d)
      PROVE  Tells(d, Tail(q))
  <2> DEFINE t == Tail(q)
  <2>1. /\ Head(q) = q[1] /\ DOMAIN q = 1..Len(q) /\ DOMAIN t = 1..(Len(q) - 1)
        /\ Len(q) \in Nat /\ \A i \in 1..(Len(q) - 1) : t[i] = q[i + 1]
    BY <1>3, TailFacts
  <2> HIDE DEF t
  <2>2. PICK i \in DOMAIN q : q[i] = New(d)
    BY <1>3 DEF Tells
  <2>3. i - 1 \in DOMAIN t /\ t[i - 1] = New(d)
    BY <1>3, <2>1, <2>2
  <2>4. Tells(d, t)
    BY <2>3 DEF Tells
  <2> QED
    BY <2>4 DEF t
<1> QED
  BY <1>1, <1>2, <1>3

(* A message is the begin of a connection when it says so.                 *)
LEMMA HeadNew ==
  ASSUME NEW x \in Msgs, NEW d \in Conns
  PROVE  x = New(d) <=> x.conn = d /\ x.what = "new"
BY DEF Msgs, New

(* What the game has heard fits to where a connection is.                  *)
LEMMA LifeStep ==
  ASSUME TypeOK, Progress, Books, QueueInv, LifeInv, [Next]_vars
  PROVE  LifeInv'
<1>1. ASSUME NEW c \in Conns, Dial(c) PROVE LifeInv'
  BY <1>1 DEF Dial, At, LifeInv, HeardOf, TypeOK, Early, Heard
<1>2. ASSUME NEW c \in Conns, HangUp(c) PROVE LifeInv'
  BY <1>2 DEF HangUp, LifeInv
<1>3. ASSUME NEW c \in Conns, UpgradeFails(c) PROVE LifeInv'
  BY <1>3 DEF UpgradeFails, At, LifeInv, HeardOf, TypeOK, Early, Heard
<1>4. ASSUME NEW c \in Conns, Accept(c) PROVE LifeInv'
  BY <1>4 DEF Accept, At, LifeInv, HeardOf, TypeOK, Early, Heard
<1>5. ASSUME NEW c \in Conns, Upgrade(c) PROVE LifeInv'
  BY <1>5 DEF Upgrade, At, LifeInv, HeardOf, TypeOK, Early, Heard
<1>6. ASSUME NEW c \in Conns, Admit(c) PROVE LifeInv'
  BY <1>6 DEF Admit, At, LifeInv, HeardOf, TypeOK, Early, Heard
<1>7. ASSUME NEW c \in Conns, Refuse(c) PROVE LifeInv'
  BY <1>7 DEF Refuse, At, LifeInv, HeardOf, TypeOK, Early, Heard
<1>8. ASSUME NEW c \in Conns, Count(c) PROVE LifeInv'
  BY <1>8 DEF Count, At, LifeInv, HeardOf, TypeOK, Early, Heard
<1>9. ASSUME NEW c \in Conns, Announce(c) PROVE LifeInv'
  <2> DEFINE x == [conn |-> c, what |-> "new"]
  <2>1. pc[c] = "announce" /\ "game" \notin closed
    BY <1>9, NoneOpen DEF Announce, Open, Leaving
  <2>2. queue'["game"] = Append(queue["game"], x) /\ x \in Msgs
    BY <1>9, <2>1, SendGame DEF Announce, RouteOf
  <2>3. \A d \in Conns : Tells(d, queue["game"]) => Tells(d, queue'["game"])
    BY <2>2, QueueTypes, TellsOn
  <2>4. Tells(c, queue'["game"])
    BY <2>2, QueueTypes, TellsOn DEF New
  <2> HIDE DEF x
  <2> QED
    BY <1>9, <2>1, <2>3, <2>4 DEF Announce, At, LifeInv, HeardOf, TypeOK,
         Early, Heard
<1>10. ASSUME NEW c \in Conns, Route(c) PROVE LifeInv'
  <2>9. CASE pc[c] = "enter"
    <3> DEFINE x == [conn |-> c, what |-> "enter"]
    <3>1. pc[c] = "enter" /\ "game" \notin closed
      BY <1>10, <2>9, NoneOpen DEF Route, Open, Leaving
    <3>2. queue'["game"] = Append(queue["game"], x) /\ x \in Msgs
      BY <1>10, <2>9, <3>1, SendGame DEF Route, RouteOf
    <3>3. \A d \in Conns : Tells(d, queue["game"]) => Tells(d, queue'["game"])
      BY <3>2, QueueTypes, TellsOn
    <3> HIDE DEF x
    <3> QED
      BY <1>10, <2>9, <3>1, <3>3 DEF Route, At, LifeInv, HeardOf, TypeOK,
           Early, Heard
  <2>10. CASE pc[c] = "login"
    <3>1. queue'["game"] = queue["game"]
      BY <1>10, <2>10 DEF Route, RouteOf, Send, TypeOK
    <3> QED
      BY <1>10, <3>1 DEF Route, At, LifeInv, HeardOf, TypeOK, Early, Heard
  <2> QED
    BY <1>10, <2>9, <2>10 DEF Route
<1>11. ASSUME NEW c \in Conns, ReadFails(c) PROVE LifeInv'
  BY <1>11 DEF ReadFails, At, LifeInv, HeardOf, TypeOK, Early, Heard
<1>12. ASSUME NEW c \in Conns, Remove(c) PROVE LifeInv'
  BY <1>12 DEF Remove, At, LifeInv, HeardOf, TypeOK, Early, Heard
<1>13. ASSUME NEW c \in Conns, OnClose(c) PROVE LifeInv'
  <2> DEFINE x == [conn |-> c, what |-> "close"]
  <2>1. pc[c] = "leave" /\ "game" \notin closed
    BY <1>13, NoneOpen DEF OnClose, Open, Leaving
  <2>2. queue'["game"] = Append(queue["game"], x) /\ x \in Msgs
    BY <1>13, <2>1, SendGame DEF OnClose, RouteOf
  <2>3. \A d \in Conns : Tells(d, queue["game"]) => Tells(d, queue'["game"])
    BY <2>2, QueueTypes, TellsOn
  <2> HIDE DEF x
  <2> QED
    BY <1>13, <2>1, <2>3 DEF OnClose, At, LifeInv, HeardOf, TypeOK, Early, Heard
<1>14. ASSUME NEW c \in Conns, Done(c) PROVE LifeInv'
  BY <1>14 DEF Done, At, LifeInv, HeardOf, TypeOK, Early, Heard
<1>15. ASSUME NEW c \in Conns, NEW what \in {"login", "enter"}, Read(c, what)
     PROVE LifeInv'
  BY <1>15 DEF Read, At, LifeInv, HeardOf, TypeOK, Early, Heard
<1>16. CASE AcceptEnds
  BY <1>16 DEF AcceptEnds, LifeInv
<1>17. CASE GameExec
  <2> DEFINE q == queue["game"]
             c == Head(q).conn
             what == Head(q).what
  <2>1. /\ queue' = [queue EXCEPT !["game"] = Tail(q)] /\ q # <<>>
        /\ Hear(c, what) \/ EnterRoom(c, what) \/ CloseAgent(c, what)
    BY <1>17 DEF GameExec
  <2>2. q \in Seq(Msgs) /\ queue'["game"] = Tail(q) /\ queue'["hall"] = queue["hall"]
    BY <2>1, QueueTypes DEF TypeOK
  <2>3. Head(q) \in Msgs /\ c \in Conns
    BY <2>1, <2>2, TailFacts, MsgConns
  <2>4. /\ \A d \in Conns : d # c => pc'[d] = pc[d] /\ life'[d] = life[d]
        /\ what # "close" => pc' = pc
        /\ what = "new" => life'[c] = "new"
        /\ what = "enter" => life' = life
    <3> HIDE DEF c, what
    <3> QED
      BY <2>1, <2>3, SMTT(20) DEF Hear, EnterRoom, CloseAgent, At, TypeOK
  <2>5. /\ what # "new" => life[c] = "new"
        /\ what # "login"
    BY <2>1, <2>2, <2>4, ToldTail DEF QueueInv
  <2>6. \A d \in Conns : d # c \/ what # "new" =>
          (Tells(d, queue["game"]) => Tells(d, queue'["game"]))
    BY <2>1, <2>2, <2>3, TellsOn, HeadNew
  <2>7. /\ pc[c] \in Heard /\ what \in {"new", "enter", "close"}
        /\ what = "close" => pc'[c] = "over" /\ life'[c] = "closed"
        /\ UNCHANGED reads
    <3>1. 1 \in DOMAIN q /\ Head(q) = q[1]
      BY <2>1, <2>2, TailFacts
    <3>2. pc[c] \in Heard /\ what \in {"new", "enter", "close"}
      BY <2>3, <2>5, <3>1 DEF QueueInv, Told, Msgs
    <3>3. UNCHANGED reads
      BY <1>17 DEF GameExec
    <3> HIDE DEF c, what
    <3> QED
      BY <2>1, <2>3, <3>2, <3>3 DEF Hear, EnterRoom, CloseAgent, At, TypeOK
  <2> HIDE DEF c, what
  <2>8. ASSUME NEW d \in Conns
        PROVE  /\ pc'[d] \in Early => life'[d] = "none" /\ reads'[d] = 0
               /\ pc'[d] \in Heard => \/ life'[d] = "new"
                                      \/ life'[d] = "none" /\ Tells(d, queue'["game"])
               /\ pc'[d] = "over" => life'[d] = "closed"
               /\ pc'[d] = "gone" => life'[d] = "closed" \/ (life'[d] = "none" /\ reads'[d] = 0)
    BY <2>4, <2>5, <2>6, <2>7 DEF LifeInv, HeardOf, Early, Heard
  <2> QED
    BY <2>8 DEF LifeInv, HeardOf
<1>18. CASE HallExec
  <2>1. UNCHANGED <<pc, life, reads>> /\ queue'["game"] = queue["game"]
    BY <1>18 DEF HallExec, TypeOK
  <2> QED
    BY <2>1 DEF LifeInv
<1>19. CASE Signal
  BY <1>19 DEF Signal, LifeInv
<1>25. ASSUME NEW c \in Conns, SetRoom(c) \/ LeaveRoom(c) PROVE LifeInv'
  BY <1>25, RoomSteps DEF RestStays, LifeInv
<1>20. ASSUME NEW s \in Servers, CloseListener(s) PROVE LifeInv'
  BY <1>20 DEF CloseListener, LifeInv
<1>21. ASSUME NEW s \in Servers, ShutAll(s) PROVE LifeInv'
  BY <1>21 DEF ShutAll, LifeInv
<1>22. ASSUME NEW s \in Servers, ServerClosed(s) PROVE LifeInv'
  BY <1>22 DEF ServerClosed, LifeInv
<1>23. ASSUME NEW m \in {"game", "hall"}, CloseSkeleton(m) PROVE LifeInv'
  <2>1. /\ down \in Nat /\ down < 3 /\ ToDestroy(down + 1) = m
        /\ queue' = [queue EXCEPT ![m] = <<>>] /\ UNCHANGED <<life, reads>>
    BY <1>23, Bounds DEF CloseSkeleton, Destroying, TypeOK
  <2>7. pc' = [c \in Conns |->
              IF \E i \in DOMAIN queue[m] : queue[m][i] = [conn |-> c, what |-> "close"]
              THEN "over" ELSE pc[c]]
    BY <1>23 DEF CloseSkeleton
  <2>2. down > 0
    BY <2>1, Bounds
  <2>3. queue["game"] = <<>> /\ \A i \in DOMAIN queue["hall"] : queue["hall"][i].what = "login"
    BY <2>2, NoneOpen DEF QueueInv
  <2>4. queue'["game"] = queue["game"]
    BY <2>1, <2>3 DEF TypeOK
  <2>5. \A i \in DOMAIN queue[m] : queue[m][i].what # "close"
    BY <2>3
  <2>6. \A c \in Conns : pc'[c] = pc[c]
    BY <2>5, <2>7
  <2> QED
    BY <2>1, <2>4, <2>6 DEF LifeInv, HeardOf
<1>24. CASE UNCHANGED vars
  BY <1>24 DEF vars, LifeInv
<1> QED
  BY <1>1, <1>2, <1>3, <1>4, <1>5, <1>6, <1>7, <1>8, <1>9, <1>10,
     <1>11, <1>12, <1>13, <1>14, <1>15, <1>16, <1>17, <1>18, <1>19, <1>20,
     <1>21, <1>22, <1>23, <1>24, <1>25 DEF Next, Serve, Goroutine

(* Who is in a room is reported when the connection is closed.             *)
LEMMA UserStep ==
  ASSUME TypeOK, QueueInv, UserInv, [Next]_vars
  PROVE  UserInv'
<1>1. ASSUME NEW c \in Conns, Dial(c) PROVE UserInv'
  BY <1>1 DEF Dial, At, UserInv, OfflineReported
<1>2. ASSUME NEW c \in Conns, HangUp(c) PROVE UserInv'
  BY <1>2 DEF HangUp, UserInv, OfflineReported
<1>3. ASSUME NEW c \in Conns, UpgradeFails(c) PROVE UserInv'
  BY <1>3 DEF UpgradeFails, At, UserInv, OfflineReported
<1>4. ASSUME NEW c \in Conns, Accept(c) PROVE UserInv'
  BY <1>4 DEF Accept, At, UserInv, OfflineReported
<1>5. ASSUME NEW c \in Conns, Upgrade(c) PROVE UserInv'
  BY <1>5 DEF Upgrade, At, UserInv, OfflineReported
<1>6. ASSUME NEW c \in Conns, Admit(c) PROVE UserInv'
  BY <1>6 DEF Admit, At, UserInv, OfflineReported
<1>7. ASSUME NEW c \in Conns, Refuse(c) PROVE UserInv'
  BY <1>7 DEF Refuse, At, UserInv, OfflineReported
<1>8. ASSUME NEW c \in Conns, Count(c) PROVE UserInv'
  BY <1>8 DEF Count, At, UserInv, OfflineReported
<1>9. ASSUME NEW c \in Conns, Announce(c) PROVE UserInv'
  BY <1>9 DEF Announce, At, UserInv, OfflineReported
<1>10. ASSUME NEW c \in Conns, Route(c) PROVE UserInv'
  BY <1>10 DEF Route, At, UserInv, OfflineReported
<1>11. ASSUME NEW c \in Conns, ReadFails(c) PROVE UserInv'
  BY <1>11 DEF ReadFails, At, UserInv, OfflineReported
<1>12. ASSUME NEW c \in Conns, Remove(c) PROVE UserInv'
  BY <1>12 DEF Remove, At, UserInv, OfflineReported
<1>13. ASSUME NEW c \in Conns, OnClose(c) PROVE UserInv'
  BY <1>13 DEF OnClose, At, UserInv, OfflineReported
<1>14. ASSUME NEW c \in Conns, Done(c) PROVE UserInv'
  BY <1>14 DEF Done, At, UserInv, OfflineReported
<1>15. ASSUME NEW c \in Conns, NEW what \in {"login", "enter"}, Read(c, what)
     PROVE UserInv'
  BY <1>15 DEF Read, At, UserInv, OfflineReported
<1>16. CASE AcceptEnds
  BY <1>16 DEF AcceptEnds, UserInv, OfflineReported
<1>17. CASE GameExec
  <2> DEFINE q == queue["game"]
             c == Head(q).conn
             what == Head(q).what
  <2>1. /\ queue' = [queue EXCEPT !["game"] = Tail(q)] /\ q # <<>>
        /\ Hear(c, what) \/ EnterRoom(c, what) \/ CloseAgent(c, what)
    BY <1>17 DEF GameExec
  <2>2. q \in Seq(Msgs) /\ queue'["game"] = Tail(q) /\ queue'["hall"] = queue["hall"]
    BY <2>1, QueueTypes DEF TypeOK
  <2>3. Head(q) \in Msgs /\ c \in Conns
    BY <2>1, <2>2, TailFacts, MsgConns
  <2>4. /\ \A d \in Conns : d # c => pc'[d] = pc[d] /\ life'[d] = life[d]
        /\ what # "close" => pc' = pc
        /\ what = "new" => life'[c] = "new"
        /\ what = "enter" => life' = life
    <3> HIDE DEF c, what
    <3> QED
      BY <2>1, <2>3, SMTT(20) DEF Hear, EnterRoom, CloseAgent, At, TypeOK
  <2>5. /\ what # "new" => life[c] = "new"
        /\ what # "login" /\ (what = "new" => life[c] = "none")
    <3>1. 1 \in DOMAIN q /\ Head(q) = q[1]
      BY <2>1, <2>2, TailFacts
    <3>2. what = "new" => life[c] = "none"
      BY <3>1 DEF QueueInv, Told
    <3> QED
      BY <2>1, <2>2, <2>4, <3>2, ToldTail DEF QueueInv
  <2> HIDE DEF c, what
  <2>6. /\ entered \subseteq userData
        /\ \A d \in entered \cap room : life[d] = "closed" => d \in offline \cup late
    BY DEF UserInv, OfflineReported
  <2>7. CASE Hear(c, what)
    <3>1. UNCHANGED <<userData, entered, offline, room, late>> /\ what = "new"
      BY <2>7 DEF Hear
    <3>2. \A d \in entered : life'[d] = "closed" => life[d] = "closed"
      BY <2>3, <2>4, <3>1 DEF TypeOK
    <3> QED
      BY <2>6, <3>1, <3>2 DEF UserInv, OfflineReported
  <2>8. CASE EnterRoom(c, what)
    <3>1. UNCHANGED <<life, offline, room, late>> /\ life[c] # "closed"
      BY <2>5, <2>8 DEF EnterRoom
    <3>2. /\ entered' \subseteq userData'
          /\ \A d \in entered' : d \in entered \/ d = c
      BY <2>6, <2>8 DEF EnterRoom, AsksForRoom
    <3> QED
      BY <2>6, <3>1, <3>2 DEF UserInv, OfflineReported
  <2>9. CASE CloseAgent(c, what)
    <3>1. /\ UNCHANGED <<userData, entered, room, late>>
          /\ offline' = IF c \in userData \cap room THEN offline \cup {c} ELSE offline
      BY <2>9 DEF CloseAgent
    <3>2. \A d \in entered : d # c => life'[d] = life[d]
      BY <2>4 DEF TypeOK
    <3> QED
      BY <2>6, <3>1, <3>2 DEF UserInv, OfflineReported
  <2> QED
    BY <2>1, <2>7, <2>8, <2>9
<1>18. CASE HallExec
  BY <1>18 DEF HallExec, UserInv, OfflineReported
<1>19. CASE Signal
  BY <1>19 DEF Signal, UserInv, OfflineReported
<1>25. ASSUME NEW c \in Conns, SetRoom(c) \/ LeaveRoom(c) PROVE UserInv'
  <2>1. RestStays
    BY <1>25, RoomSteps
  <2>2. \A d \in room' : d \in room \/ (life[d] = "closed" => d \in late')
    BY <1>25 DEF SetRoom, LeaveRoom
  <2>3. late \subseteq late'
    BY <1>25 DEF SetRoom, LeaveRoom
  <2> QED
    BY <2>1, <2>2, <2>3 DEF UserInv, OfflineReported, RestStays
<1>20. ASSUME NEW s \in Servers, CloseListener(s) PROVE UserInv'
  BY <1>20 DEF CloseListener, UserInv, OfflineReported
<1>21. ASSUME NEW s \in Servers, ShutAll(s) PROVE UserInv'
  BY <1>21 DEF ShutAll, UserInv, OfflineReported
<1>22. ASSUME NEW s \in Servers, ServerClosed(s) PROVE UserInv'
  BY <1>22 DEF ServerClosed, UserInv, OfflineReported
<1>23. ASSUME NEW m \in {"game", "hall"}, CloseSkeleton(m) PROVE UserInv'
  BY <1>23 DEF CloseSkeleton, UserInv, OfflineReported
<1>24. CASE UNCHANGED vars
  BY <1>24 DEF vars, UserInv, OfflineReported
<1> QED
  BY <1>1, <1>2, <1>3, <1>4, <1>5, <1>6, <1>7, <1>8, <1>9, <1>10,
     <1>11, <1>12, <1>13, <1>14, <1>15, <1>16, <1>17, <1>18, <1>19, <1>20,
     <1>21, <1>22, <1>23, <1>24, <1>25 DEF Next, Serve, Goroutine

(* The inductive invariant.                                                *)
LEMMA Initially == Init => Inv
<1> SUFFICES ASSUME Init PROVE Inv
  OBVIOUS
<1> USE DEF Init
<1>1. TypeOK
  <2>1. queue \in [{"game", "hall"} -> Seq(Msgs)] /\ \A m \in {"game", "hall"} : Len(queue[m]) <= ChanCap
    BY Bounds
  <2>2. reads \in [Conns -> Nat] /\ \A c \in Conns : reads[c] <= MaxMsgs[c]
    <3>1. \A c \in Conns : MaxMsgs[c] \in Nat /\ reads[c] = 0
      BY Bounds
    <3>2. \A n \in Nat : 0 <= n
      OBVIOUS
    <3> QED
      BY <3>1, <3>2
  <2>3. down \in 0..Len(Mods) /\ wg \in [Servers -> Nat] /\ served \in [Conns -> Nat]
    BY Bounds
  <2>4. /\ pc \in [Conns -> Steps] /\ conns \in [Servers -> SUBSET Conns]
        /\ life \in [Conns -> {"none", "new", "closed"}]
    BY DEF Steps
  <2> QED
    BY <2>1, <2>2, <2>3, <2>4 DEF TypeOK, Msgs
<1>2. Progress
  BY Bounds DEF Progress, InHand
<1>3. Books
  <2>1. Dialled = {} /\ \A s, S : "none" \notin S => Of(s, S) = {}
    <3>1. \A c \in Conns : pc[c] = "none"
      OBVIOUS
    <3> QED
      BY <3>1 DEF Dialled, Of
  <2>2. "none" \notin Open \cup Leaving \cup {"found"}
    BY DEF Open, Leaving
  <2>3. /\ \A s : Of(s, Open) = {} /\ Of(s, Open \cup Leaving) = {}
                  /\ Of(s, {"found", "listed", "announce"}) = {}
        /\ Of("ws", Open \cup Leaving \cup {"found"}) = {}
        /\ Of("tcp", (Open \ {"listed"}) \cup Leaving) = {}
    BY <2>1, <2>2
  <2>4. IsFiniteSet({}) /\ Cardinality({}) = 0 /\ 0 <= MaxConnNum
    BY FS_EmptySet, Bounds
  <2>5. /\ \A s \in Servers : conns[s] = {} /\ wg[s] = 0
        /\ "ws" \in Servers /\ "tcp" \in Servers /\ nilled = {} /\ gate = "run"
    BY DEF Servers
  <2>6. Registered
    BY <2>3, <2>4, <2>5 DEF Registered
  <2>7. CloseWaits
    BY <2>3, <2>4, <2>5 DEF CloseWaits
  <2> QED
    BY <2>1, <2>4, <2>6, <2>7 DEF Books
<1>4. QueueInv /\ LifeInv /\ UserInv
  BY DEF QueueInv, Told, LifeInv, HeardOf, Early, Heard, UserInv,
       OfflineReported
<1> QED
  BY <1>1, <1>2, <1>3, <1>4 DEF Inv, GateInv, HeardInv

(* Every step keeps the inductive invariant.                               *)
LEMMA InvStep == Inv /\ [Next]_vars => Inv'
<1> SUFFICES ASSUME Inv, [Next]_vars PROVE Inv'
  OBVIOUS
<1>1. TypeOK /\ Progress /\ Books /\ QueueInv /\ LifeInv /\ UserInv
  BY DEF Inv, GateInv, HeardInv
<1>2. TypeOK' /\ Progress'
  BY <1>1, TypeStep, ProgressStep
<1>3. BooksAre
  BY <1>1, BooksOut
<1>4. BooksAre'
  BY <1>1, <1>2, <1>3, BooksStep
<1>5. Books'
  BY <1>2, <1>4, BooksIn
<1>6. QueueInv' /\ LifeInv' /\ UserInv'
  BY <1>1, QueueStep, LifeStep, UserStep
<1> QED
  BY <1>2, <1>5, <1>6 DEF Inv, GateInv, HeardInv

(* Every reachable state satisfies the inductive invariant.                *)
LEMMA InvHolds == Spec => []Inv
BY Initially, InvStep, PTL DEF Spec

-----------------------------------------------------------------------------
(* The books of the servers are right at all times: the set of connections *)
(* is that of the connections served and within the limit, and Close waits *)
(* for every goroutine that the wait group counts (ws_server.go,           *)
(* tcp_server.go).                                                         *)
THEOREM ServerKeepsBooks == Spec => []ServerInv
<1>1. Inv => ServerInv
  BY DEF Inv, GateInv, Books, ServerInv
<1> QED
  BY <1>1, InvHolds, PTL

(* When the modules are destroyed in their order, the game has heard all   *)
(* there is to hear before its channel is closed, and at the end it knows  *)
(* of each connection that it is closed (module.go, skeleton.go).          *)
THEOREM GameHears == Spec => []GameHearsAll
<1>1. ASSUME Inv PROVE GameHearsAll
  <2>1. TypeOK /\ Progress /\ Books /\ QueueInv /\ LifeInv
    BY <1>1 DEF Inv, GateInv, HeardInv
  <2>2. GameClosesEmpty
    <3>1. ASSUME Destroying("game") \/ "game" \in closed
          PROVE  down > 0 \/ "game" \in closed
      BY <2>1, <3>1, Bounds DEF Destroying, TypeOK
    <3>2. ASSUME Destroying("game") \/ "game" \in closed
          PROVE  (\A c \in Conns : pc[c] \notin Open \cup Leaving) /\ queue["game"] = <<>>
      BY <2>1, <3>1, <3>2, NoneOpen
    <3> QED
      BY <3>2 DEF GameClosesEmpty, Open, Leaving
  <2>3. ASSUME down = Len(Mods), NEW c \in Conns
        PROVE  life[c] # "new" /\ (reads[c] > 0 => life[c] = "closed")
    <3>3. pc[c] \in Steps
      BY <2>1 DEF TypeOK
    <3>4. down > 0
      BY <2>3, Bounds
    <3>1. pc[c] \notin Open \cup Leaving /\ pc[c] \in Steps
      BY <2>1, <3>3, <3>4, NoneOpen
    <3>2. pc[c] \in Early \cup {"gone"}
      BY <3>1 DEF Steps, Early
    <3> QED
      BY <2>1, <3>2 DEF LifeInv, HeardOf
  <2> QED
    BY <2>2, <2>3 DEF GameHearsAll, HeardOut
<1> QED
  BY <1>1, InvHolds, PTL

(* A player who has a room when the connection it asked through ends is    *)
(* told to be offline, however its login in the hall and its entry in the  *)
(* game are ordered (CloseAgent of the game); the only players with a room *)
(* and no connection nobody was told of are those that got the room when   *)
(* they had gone (chanrpc.go:30, queue.go:116).                            *)
THEOREM PlayersReported == Spec => []OfflineReported
<1>1. Inv => OfflineReported
  BY DEF Inv, HeardInv, UserInv
<1> QED
  BY <1>1, InvHolds, PTL

(* What the game hears of a connection implements AgentLife: its begin,    *)
(* its messages, then its end, though these are sent by three goroutines.  *)
THEOREM AgentsInOrder == Spec => KeepsAgentLife
<1>1. Init => Agents!Init
  BY DEF Init, Agents!Init
<1>2. ASSUME Inv, [Next]_vars PROVE [Agents!Next]_<<life, served>>
  <2>1. TypeOK /\ QueueInv
    BY <1>2 DEF Inv, GateInv, HeardInv
  <2>2. GameExec \/ UNCHANGED <<life, served>>
    BY <1>2 DEF Next, Serve, Goroutine, vars, Dial, HangUp, UpgradeFails,
         Accept, Upgrade, Admit,
       Refuse, Count, Announce, Route, ReadFails, Remove, OnClose, Done, Read,
       AcceptEnds,
       HallExec, Signal, CloseListener, ShutAll, ServerClosed, CloseSkeleton,
       SetRoom, LeaveRoom
  <2>3. CASE GameExec
    <3> DEFINE q == queue["game"]
               c == Head(q).conn
               what == Head(q).what
    <3>1. q # <<>> /\ (Hear(c, what) \/ EnterRoom(c, what) \/ CloseAgent(c, what))
      BY <2>3 DEF GameExec
    <3>2. /\ Head(q) = q[1] /\ 1 \in DOMAIN q /\ Head(q) \in Msgs /\ c \in Conns
      BY <2>1, <3>1, QueueTypes, TailFacts, MsgConns
    <3>3. what = "new" => life[c] = "none"
      BY <2>1, <3>2 DEF QueueInv, Told
    <3>4. what # "new" => life[c] = "new"
      <4>1. q \in Seq(Msgs)
        BY <2>1, QueueTypes
      <4>2. ~ \E j \in DOMAIN q : j < 1
        BY <3>1, <4>1, TailFacts
      <4> QED
        BY <2>1, <3>2, <4>2 DEF QueueInv, Told
    <3> HIDE DEF c, what
    <3>5. Agents!NewAgent(c) \/ Agents!Message(c) \/ Agents!CloseAgent(c)
      BY <3>1, <3>3, <3>4 DEF Hear, EnterRoom, CloseAgent, Agents!NewAgent,
           Agents!Message, Agents!CloseAgent
    <3> QED
      BY <3>2, <3>5 DEF Agents!Next, c
  <2> QED
    BY <2>2, <2>3
<1> QED
  BY <1>1, <1>2, InvHolds, PTL DEF Spec, KeepsAgentLife, Agents!LSpec

-----------------------------------------------------------------------------
(* The end of a shutdown does not depend on the clients.  Whoever is still *)
(* served by a server that has emptied its set is shut, and the loop that  *)
(* accepts has lost its listener (ShutInv).  Whoever waits for the game's  *)
(* answer has its question in the channel, and a channel that is closed is *)
(* empty (CallInv).                                                        *)
ShutInv ==
  /\ gate \in {"tcp", "closed"} => "tcp" \notin listening
  /\ \A c \in Conns : /\ pc[c] = "listed" => c \in Tcp
                      /\ pc[c] \in Open /\ Kind(c) \in nilled => c \in shut

Ends(c, q) == \E i \in DOMAIN q : q[i] = [conn |-> c, what |-> "close"]

CallInv ==
  /\ \A m \in closed : queue[m] = <<>>
  /\ \A c \in Conns : pc[c] = "called" => Ends(c, queue["game"])

(* A step that shuts nobody and lets nobody in keeps ShutInv.              *)
LEMMA ShutStays ==
  ASSUME ShutInv, UNCHANGED <<listening, nilled, gate>>, shut \subseteq shut',
         \A c \in Conns : /\ pc'[c] = "listed" => pc[c] = "listed"
                          /\ pc'[c] \in Open => pc[c] \in Open
  PROVE  ShutInv'
BY DEF ShutInv

LEMMA ShutStep ==
  ASSUME TypeOK, Books, ShutInv, [Next]_vars
  PROVE  ShutInv'
<1>1. ASSUME NEW c \in Conns, Dial(c) PROVE ShutInv'
  BY <1>1, ShutStays DEF Dial, At, TypeOK, Open
<1>2. ASSUME NEW c \in Conns, HangUp(c) PROVE ShutInv'
  BY <1>2, ShutStays DEF HangUp
<1>3. ASSUME NEW c \in Conns, UpgradeFails(c) PROVE ShutInv'
  BY <1>3, ShutStays DEF UpgradeFails, At, TypeOK, Open
<1>4. ASSUME NEW c \in Conns, Accept(c) PROVE ShutInv'
  BY <1>4, ShutStays DEF Accept, At, TypeOK, Open
<1>5. ASSUME NEW c \in Conns, Upgrade(c) PROVE ShutInv'
  BY <1>5, ShutStays DEF Upgrade, At, TypeOK, Open
<1>6. ASSUME NEW c \in Conns, Admit(c) PROVE ShutInv'
  <2>1. Kind(c) \notin nilled
    <3>1. CASE c \in Ws
      BY <1>6, <3>1 DEF Admit, HasRoom, Kind
    <3>2. CASE c \notin Ws
      BY <1>6, <3>2 DEF Admit, Kind, Books, Registered, Of, Servers
    <3> QED
      BY <3>1, <3>2
  <2>2. /\ \A d \in Conns : d # c => pc'[d] = pc[d]
        /\ pc'[c] = "listed" => c \in Tcp
        /\ UNCHANGED <<listening, nilled, gate, shut>>
    BY <1>6 DEF Admit, At, TypeOK
  <2> QED
    BY <2>1, <2>2 DEF ShutInv
<1>7. ASSUME NEW c \in Conns, Refuse(c) PROVE ShutInv'
  BY <1>7, ShutStays DEF Refuse, At, TypeOK, Open
<1>8. ASSUME NEW c \in Conns, Count(c) PROVE ShutInv'
  BY <1>8, ShutStays DEF Count, At, TypeOK, Open
<1>9. ASSUME NEW c \in Conns, Announce(c) PROVE ShutInv'
  BY <1>9, ShutStays DEF Announce, At, TypeOK, Open
<1>10. ASSUME NEW c \in Conns, Route(c) PROVE ShutInv'
  BY <1>10, ShutStays DEF Route, At, TypeOK, Open
<1>11. ASSUME NEW c \in Conns, ReadFails(c) PROVE ShutInv'
  BY <1>11, ShutStays DEF ReadFails, At, TypeOK, Open
<1>12. ASSUME NEW c \in Conns, Remove(c) PROVE ShutInv'
  BY <1>12, ShutStays DEF Remove, At, TypeOK, Open
<1>13. ASSUME NEW c \in Conns, OnClose(c) PROVE ShutInv'
  BY <1>13, ShutStays DEF OnClose, At, TypeOK, Open
<1>14. ASSUME NEW c \in Conns, Done(c) PROVE ShutInv'
  BY <1>14, ShutStays DEF Done, At, TypeOK, Open
<1>15. ASSUME NEW c \in Conns, NEW what \in {"login", "enter"}, Read(c, what)
     PROVE ShutInv'
  BY <1>15, ShutStays DEF Read, At, TypeOK, Open
<1>16. CASE AcceptEnds
  BY <1>16, ShutStays DEF AcceptEnds
<1>17. CASE GameExec
  <2>1. \E c \in Conns : pc' \in {pc, [pc EXCEPT ![c] = "over"]}
    BY <1>17, HeadFacts DEF GameExec, Hear, EnterRoom, CloseAgent, At, HeadOK
  <2>2. \A c \in Conns : pc'[c] \in {pc[c], "over"}
    BY <2>1 DEF TypeOK
  <2> QED
    BY <1>17, <2>2, ShutStays DEF GameExec, Open
<1>18. CASE HallExec
  BY <1>18, ShutStays DEF HallExec
<1>19. CASE Signal
  BY <1>19, ShutStays DEF Signal
<1>25. ASSUME NEW c \in Conns, SetRoom(c) \/ LeaveRoom(c) PROVE ShutInv'
  BY <1>25, RoomSteps, ShutStays DEF RestStays
<1>20. ASSUME NEW s \in Servers, CloseListener(s) PROVE ShutInv'
  BY <1>20 DEF CloseListener, ShutInv, Servers
<1>21. ASSUME NEW s \in Servers, ShutAll(s) PROVE ShutInv'
  <2>1. /\ shut' = shut \cup conns[s] /\ nilled' = nilled \cup {s}
        /\ s \notin nilled /\ UNCHANGED <<pc, listening, gate>>
    BY <1>21 DEF ShutAll
  <2>2. conns[s] = Of(s, Open)
    BY <2>1 DEF Books, Registered
  <2> QED
    BY <2>1, <2>2 DEF ShutInv, Of
<1>22. ASSUME NEW s \in Servers, ServerClosed(s) PROVE ShutInv'
  BY <1>22 DEF ServerClosed, ShutInv, Servers
<1>23. ASSUME NEW m \in {"game", "hall"}, CloseSkeleton(m) PROVE ShutInv'
  <2>1. \A c \in Conns : pc'[c] \in {pc[c], "over"}
    BY <1>23 DEF CloseSkeleton
  <2> QED
    BY <1>23, <2>1, ShutStays DEF CloseSkeleton, Open
<1>24. CASE UNCHANGED vars
  BY <1>24, ShutStays DEF vars
<1> QED
  BY <1>1, <1>2, <1>3, <1>4, <1>5, <1>6, <1>7, <1>8, <1>9, <1>10,
     <1>11, <1>12, <1>13, <1>14, <1>15, <1>16, <1>17, <1>18, <1>19, <1>20,
     <1>21, <1>22, <1>23, <1>24, <1>25 DEF Next, Serve, Goroutine

(* A step that leaves the channels alone and makes no call keeps CallInv.  *)
LEMMA CallStays ==
  ASSUME CallInv, UNCHANGED <<queue, closed>>,
         \A c \in Conns : pc'[c] = "called" => pc[c] = "called"
  PROVE  CallInv'
BY DEF CallInv

(* A send keeps what is in the channels and puts nothing into a closed one.*)
LEMMA SendKeeps ==
  ASSUME TypeOK, CallInv, NEW m \in {"game", "hall"}, NEW c \in Conns,
         NEW what \in {"new", "login", "enter", "close"}, Send(m, c, what)
  PROVE  /\ \A n \in closed : queue'[n] = <<>>
         /\ \A d \in Conns : Ends(d, queue["game"]) => Ends(d, queue'["game"])
         /\ m = "game" /\ m \notin closed /\ what = "close" => Ends(c, queue'["game"])
<1> DEFINE x == [conn |-> c, what |-> what]
<1>1. CASE m \in closed
  BY <1>1 DEF Send, CallInv
<1>2. CASE m \notin closed
  <2>1. queue' = [queue EXCEPT ![m] = Append(queue[m], x)]
    BY <1>2 DEF Send
  <2>2. \A n \in {"game", "hall"} \ {m} : queue'[n] = queue[n]
    BY <2>1 DEF TypeOK
  <2>3. \A n \in closed : n \in {"game", "hall"} \ {m}
    BY <1>2 DEF TypeOK
  <2>4. \A n \in closed : queue'[n] = <<>>
    BY <2>2, <2>3 DEF CallInv
  <2>5. CASE m = "game"
    <3>1. x \in Msgs /\ queue["game"] \in Seq(Msgs)
      BY QueueTypes DEF Msgs
    <3>2. queue'["game"] = Append(queue["game"], x)
      BY <2>1, <2>5 DEF TypeOK
    <3> HIDE DEF x
    <3>3. /\ \A i \in DOMAIN queue["game"] : /\ i \in DOMAIN queue'["game"]
                                             /\ queue'["game"][i] = queue["game"][i]
          /\ \E i \in DOMAIN queue'["game"] : queue'["game"][i] = x
      <4>1. /\ Len(queue["game"]) \in Nat /\ DOMAIN queue["game"] = 1..Len(queue["game"])
            /\ DOMAIN queue'["game"] = 1..(Len(queue["game"]) + 1)
            /\ queue'["game"][Len(queue["game"]) + 1] = x
            /\ \A i \in 1..Len(queue["game"]) : queue'["game"][i] = queue["game"][i]
        BY <3>1, <3>2, AppendFacts
      <4> QED
        BY <4>1
    <3>4. \A d \in Conns : Ends(d, queue["game"]) => Ends(d, queue'["game"])
      BY <3>3 DEF Ends
    <3>5. what = "close" => Ends(c, queue'["game"])
      BY <3>3 DEF Ends, x
    <3> QED
      BY <2>4, <3>4, <3>5
  <2>6. CASE m # "game"
    BY <2>2, <2>4, <2>6
  <2> QED
    BY <2>5, <2>6
<1> QED
  BY <1>1, <1>2

LEMMA CallStep ==
  ASSUME TypeOK, CallInv, [Next]_vars
  PROVE  CallInv'
<1>1. ASSUME NEW c \in Conns, Dial(c) PROVE CallInv'
  BY <1>1, CallStays DEF Dial, At, TypeOK
<1>2. ASSUME NEW c \in Conns, HangUp(c) PROVE CallInv'
  BY <1>2, CallStays DEF HangUp
<1>3. ASSUME NEW c \in Conns, UpgradeFails(c) PROVE CallInv'
  BY <1>3, CallStays DEF UpgradeFails, At, TypeOK
<1>4. ASSUME NEW c \in Conns, Accept(c) PROVE CallInv'
  BY <1>4, CallStays DEF Accept, At, TypeOK
<1>5. ASSUME NEW c \in Conns, Upgrade(c) PROVE CallInv'
  BY <1>5, CallStays DEF Upgrade, At, TypeOK
<1>6. ASSUME NEW c \in Conns, Admit(c) PROVE CallInv'
  BY <1>6, CallStays DEF Admit, At, TypeOK
<1>7. ASSUME NEW c \in Conns, Refuse(c) PROVE CallInv'
  BY <1>7, CallStays DEF Refuse, At, TypeOK
<1>8. ASSUME NEW c \in Conns, Count(c) PROVE CallInv'
  BY <1>8, CallStays DEF Count, At, TypeOK
<1>9. ASSUME NEW c \in Conns, Announce(c) PROVE CallInv'
  <2>1. Send("game", c, "new") /\ closed' = closed
    BY <1>9 DEF Announce
  <2>2. \A d \in Conns : pc'[d] = "called" => pc[d] = "called"
    BY <1>9 DEF Announce, At, TypeOK
  <2> QED
    BY <2>1, <2>2, SendKeeps DEF CallInv
<1>10. ASSUME NEW c \in Conns, Route(c) PROVE CallInv'
  <2>1. PICK m \in {"game", "hall"}, what \in {"login", "enter"} :
          Send(m, c, what) /\ closed' = closed
    BY <1>10 DEF Route, RouteOf
  <2>2. \A d \in Conns : pc'[d] = "called" => pc[d] = "called"
    BY <1>10 DEF Route, At, TypeOK
  <2> QED
    BY <2>1, <2>2, SendKeeps DEF CallInv
<1>11. ASSUME NEW c \in Conns, ReadFails(c) PROVE CallInv'
  BY <1>11, CallStays DEF ReadFails, At, TypeOK
<1>12. ASSUME NEW c \in Conns, Remove(c) PROVE CallInv'
  BY <1>12, CallStays DEF Remove, At, TypeOK
<1>13. ASSUME NEW c \in Conns, OnClose(c) PROVE CallInv'
  <2>1. Send("game", c, "close") /\ closed' = closed
    BY <1>13 DEF OnClose
  <2>2. \A d \in Conns : pc'[d] = "called" =>
          pc[d] = "called" \/ (d = c /\ "game" \notin closed)
    BY <1>13 DEF OnClose, At, TypeOK
  <2> QED
    BY <2>1, <2>2, SendKeeps DEF CallInv
<1>14. ASSUME NEW c \in Conns, Done(c) PROVE CallInv'
  BY <1>14, CallStays DEF Done, At, TypeOK
<1>15. ASSUME NEW c \in Conns, NEW what \in {"login", "enter"}, Read(c, what)
     PROVE CallInv'
  BY <1>15, CallStays DEF Read, At, TypeOK
<1>16. CASE AcceptEnds
  BY <1>16, CallStays DEF AcceptEnds
<1>17. CASE GameExec
  <2> DEFINE q == queue["game"]
             c == Head(q).conn
             what == Head(q).what
  <2>1. /\ queue' = [queue EXCEPT !["game"] = Tail(q)] /\ q # <<>>
        /\ Hear(c, what) \/ EnterRoom(c, what) \/ CloseAgent(c, what)
        /\ "game" \notin closed /\ closed' = closed
    BY <1>17 DEF GameExec
  <2>2. q \in Seq(Msgs) /\ queue'["game"] = Tail(q) /\ queue'["hall"] = queue["hall"]
    BY <2>1, QueueTypes DEF TypeOK
  <2>3. c \in Conns /\ Head(q) = q[1]
    BY <2>1, <2>2, TailFacts, MsgConns
  <2>4. /\ \A d \in Conns : pc'[d] = "called" => pc[d] = "called"
        /\ what = "close" => pc'[c] # "called"
    <3> HIDE DEF c, what
    <3> QED
      BY <2>1, <2>3 DEF Hear, EnterRoom, CloseAgent, At, TypeOK
  <2>5. ASSUME NEW d \in Conns, pc'[d] = "called" PROVE Ends(d, queue'["game"])
    <3>1. PICK i \in DOMAIN q : q[i] = [conn |-> d, what |-> "close"]
      BY <2>4, <2>5 DEF CallInv, Ends
    <3>2. i # 1
      BY <2>3, <2>4, <2>5, <3>1
    <3>3. /\ Len(q) \in Nat /\ DOMAIN q = 1..Len(q) /\ DOMAIN Tail(q) = 1..(Len(q) - 1)
          /\ \A j \in 1..(Len(q) - 1) : Tail(q)[j] = q[j + 1]
      BY <2>1, <2>2, TailFacts
    <3>4. i - 1 \in DOMAIN Tail(q) /\ Tail(q)[i - 1] = q[i]
      BY <3>2, <3>3
    <3> QED
      BY <2>2, <3>1, <3>4 DEF Ends
  <2>6. \A m \in closed' : queue'[m] = <<>>
    BY <2>1, <2>2 DEF CallInv, TypeOK
  <2> QED
    BY <2>5, <2>6 DEF CallInv
<1>18. CASE HallExec
  <2>1. /\ queue'["game"] = queue["game"] /\ "hall" \notin closed
        /\ UNCHANGED <<pc, closed>>
    BY <1>18 DEF HallExec, TypeOK
  <2>2. closed \subseteq {"game"}
    BY <2>1 DEF TypeOK
  <2> QED
    BY <2>1, <2>2 DEF CallInv
<1>19. CASE Signal
  BY <1>19, CallStays DEF Signal
<1>25. ASSUME NEW c \in Conns, SetRoom(c) \/ LeaveRoom(c) PROVE CallInv'
  BY <1>25, RoomSteps, CallStays DEF RestStays
<1>20. ASSUME NEW s \in Servers, CloseListener(s) PROVE CallInv'
  BY <1>20, CallStays DEF CloseListener
<1>21. ASSUME NEW s \in Servers, ShutAll(s) PROVE CallInv'
  BY <1>21, CallStays DEF ShutAll
<1>22. ASSUME NEW s \in Servers, ServerClosed(s) PROVE CallInv'
  BY <1>22, CallStays DEF ServerClosed
<1>23. ASSUME NEW m \in {"game", "hall"}, CloseSkeleton(m) PROVE CallInv'
  <2>1. /\ closed' = closed \cup {m} /\ queue' = [queue EXCEPT ![m] = <<>>]
        /\ \A c \in Conns : pc'[c] = IF Ends(c, queue[m]) THEN "over" ELSE pc[c]
    BY <1>23 DEF CloseSkeleton, Ends
  <2>2. queue'[m] = <<>> /\ \A n \in {"game", "hall"} \ {m} : queue'[n] = queue[n]
    BY <2>1 DEF TypeOK
  <2>3. \A n \in closed' : queue'[n] = <<>>
    BY <2>1, <2>2 DEF CallInv, TypeOK
  <2>4. ASSUME NEW c \in Conns, pc'[c] = "called" PROVE Ends(c, queue'["game"])
    <3>1. pc[c] = "called" /\ ~Ends(c, queue[m])
      BY <2>1, <2>4
    <3> QED
      BY <2>2, <3>1 DEF CallInv
  <2> QED
    BY <2>3, <2>4 DEF CallInv
<1>24. CASE UNCHANGED vars
  BY <1>24, CallStays DEF vars
<1> QED
  BY <1>1, <1>2, <1>3, <1>4, <1>5, <1>6, <1>7, <1>8, <1>9, <1>10,
     <1>11, <1>12, <1>13, <1>14, <1>15, <1>16, <1>17, <1>18, <1>19, <1>20,
     <1>21, <1>22, <1>23, <1>24, <1>25 DEF Next, Serve, Goroutine

LEMMA WaitInv == Spec => [](Inv /\ ShutInv /\ CallInv)
<1> DEFINE All == Inv /\ ShutInv /\ CallInv
<1>1. Init => All
  BY Initially DEF Init, ShutInv, CallInv, Open
<1>2. All /\ [Next]_vars => All'
  <2> SUFFICES ASSUME All, [Next]_vars PROVE All'
    OBVIOUS
  <2>1. TypeOK /\ Books
    BY DEF Inv, GateInv
  <2> QED
    BY <2>1, InvStep, ShutStep, CallStep
<1> QED
  BY <1>1, <1>2, PTL DEF Spec

(* Who serves a connection can go on, or the game or the hall can.         *)
LEMMA ServedMoves ==
  ASSUME Inv, ShutInv, CallInv, NEW c \in Conns,
         pc[c] \in Open \cup Leaving \cup {"found"},
         gate # "closed", pc[c] = "read" => Kind(c) \in nilled
  PROVE  Moves
<1>1. TypeOK /\ Progress /\ QueueInv
  BY DEF Inv, GateInv, HeardInv
<1>2. "game" \notin closed /\ "hall" \notin closed
  BY <1>1 DEF Progress, TypeOK
<1>3. ASSUME NEW m \in {"game", "hall"}, queue[m] # <<>> PROVE Moves
  <2>1. m = "game" => Head(queue[m]).what # "login"
    BY <1>1, <1>3, HeadFacts DEF HeadOK, QueueInv, Told
  <2> QED
    BY <1>2, <1>3, <2>1 DEF Moves
<1>4. ASSUME NEW m \in {"game", "hall"}, ~CanSend(m) PROVE Moves
  <2>1. ~(Len(queue[m]) < ChanCap)
    BY <1>4 DEF CanSend
  <2>2. queue[m] # <<>>
    BY <2>1, Bounds
  <2> QED
    BY <1>3, <2>2
<1>5. CASE pc[c] \in {"found", "cleanup", "over"}
  BY <1>5 DEF Moves
<1>6. CASE pc[c] = "read"
  BY <1>6 DEF Moves, ShutInv, Open
<1>7. CASE pc[c] = "listed"
  BY <1>7 DEF Moves, ShutInv
<1>8. CASE pc[c] \in {"announce", "leave"}
  BY <1>4, <1>8 DEF Moves
<1>9. CASE pc[c] \in {"login", "enter"}
  <2>1. RouteOf(pc[c]) \in {"game", "hall"}
    BY DEF RouteOf
  <2> QED
    BY <1>4, <1>9, <2>1 DEF Moves
<1>10. CASE pc[c] = "called"
  <2>1. Ends(c, queue["game"])
    BY <1>10 DEF CallInv
  <2>2. queue["game"] # <<>>
    BY <2>1 DEF Ends
  <2> QED
    BY <1>3, <2>2
<1> QED
  BY <1>5, <1>6, <1>7, <1>8, <1>9, <1>10 DEF Open, Leaving

(* Someone is served as long as the wait group of a server is not zero.    *)
LEMMA WaitedFor ==
  ASSUME TypeOK, Books, NEW s \in Servers, ~Waited(s)
  PROVE  \E c \in Conns : Kind(c) = s /\ pc[c] \in Open \cup Leaving \cup {"found"}
<1>1. CASE s = "ws"
  <2>1. Cardinality(Of("ws", Open \cup Leaving \cup {"found"})) # 0
    BY <1>1 DEF Books, CloseWaits, Waited
  <2>2. Of("ws", Open \cup Leaving \cup {"found"}) # {}
    BY <2>1, FS_EmptySet
  <2> QED
    BY <1>1, <2>2 DEF Of
<1>2. CASE s = "tcp"
  <2>1. Cardinality(Of("tcp", (Open \ {"listed"}) \cup Leaving)) # 0
    BY <1>2 DEF Books, CloseWaits, Waited
  <2>2. Of("tcp", (Open \ {"listed"}) \cup Leaving) # {}
    BY <2>1, FS_EmptySet
  <2> QED
    BY <1>2, <2>2 DEF Of
<1> QED
  BY <1>1, <1>2 DEF Servers

(* While the gate is closed a listener, a set of connections or the wait   *)
(* for one is next; then the game and the hall are.                        *)
LEMMA SomeoneMoves ==
  ASSUME Inv, ShutInv, CallInv, stopping
  PROVE  Moves \/ Stopped
<1>1. TypeOK /\ Progress /\ Books /\ QueueInv
  BY DEF Inv, GateInv, HeardInv
<1>2. down \in 0..3
  BY <1>1, Bounds DEF TypeOK
<1>3. CASE down = 0
  <2>1. gate \in {"run", "ws", "ws_closed", "tcp"}
    BY <1>1, <1>3 DEF TypeOK, Progress
  <2>2. CASE gate \in {"run", "ws_closed"}
    <3>1. Destroying("gate")
      BY <1>3, Bounds DEF Destroying
    <3> QED
      BY <2>2, <3>1 DEF Moves
  <2>3. CASE gate \in {"ws", "tcp"}
    <3>1. PICK s \in Servers : s = gate
      BY <2>3 DEF Servers
    <3>2. CASE s \in nilled
      <4>1. CASE Waited(s)
        BY <3>1, <3>2, <4>1 DEF Moves
      <4>2. CASE ~Waited(s)
        <5>1. PICK c \in Conns : /\ Kind(c) = s
                                 /\ pc[c] \in Open \cup Leaving \cup {"found"}
          BY <1>1, <4>2, WaitedFor
        <5> QED
          BY <2>3, <3>2, <5>1, ServedMoves
      <4> QED
        BY <4>1, <4>2
    <3>3. CASE s \notin nilled /\ (s = "tcp" => ~accepting)
      BY <3>1, <3>3 DEF Moves
    <3>4. CASE s = "tcp" /\ accepting
      <4>1. "tcp" \notin listening
        BY <3>1, <3>4 DEF ShutInv
      <4>2. CASE InHand = {}
        BY <3>4, <4>1, <4>2 DEF Moves
      <4>3. CASE InHand # {}
        <5>1. PICK c \in Conns : pc[c] \in {"found", "listed", "announce"}
          BY <4>3 DEF InHand, Conns
        <5>2. pc[c] \in Open \cup Leaving \cup {"found"} /\ pc[c] # "read"
          BY <5>1 DEF Open
        <5> QED
          BY <2>3, <5>2, ServedMoves
      <4> QED
        BY <4>2, <4>3
    <3> QED
      BY <3>2, <3>3, <3>4
  <2> QED
    BY <2>1, <2>2, <2>3
<1>4. CASE down = 1
  BY <1>4, Bounds DEF Destroying, Moves
<1>5. CASE down = 2
  BY <1>5, Bounds DEF Destroying, Moves
<1>6. CASE down = 3
  <2>1. gate = "closed" /\ "game" \in closed /\ "hall" \in closed
    BY <1>1, <1>6 DEF Progress, TypeOK
  <2>2. ~accepting
    BY <1>1, <2>1 DEF Progress
  <2>3. \A m \in {"game", "hall"} : queue[m] = <<>>
    BY <2>1 DEF CallInv
  <2>8. \A c \in Conns : pc[c] \in Steps
    BY <1>1 DEF TypeOK
  <2>9. down > 0
    BY <1>6
  <2>4. \A c \in Conns : pc[c] \notin Open \cup Leaving /\ pc[c] \in Steps
    BY <1>1, <2>8, <2>9, NoneOpen
  <2>5. \A c \in Conns : pc[c] \in {"none", "backlog", "found", "gone"}
    BY <2>4 DEF Steps
  <2>6. CASE \E c \in Conns : pc[c] = "found"
    BY <2>6 DEF Moves
  <2>7. CASE \A c \in Conns : pc[c] # "found"
    BY <1>6, <2>2, <2>3, <2>5, <2>7, Bounds DEF Stopped
  <2> QED
    BY <2>6, <2>7
<1> QED
  BY <1>2, <1>3, <1>4, <1>5, <1>6

(* A shutdown never gets stuck, whatever the clients do or leave undone:   *)
(* until all is over, a goroutine of the server can go on (ws_server.go,   *)
(* tcp_server.go, module.go, skeleton.go).                                 *)
THEOREM ShutdownGoesOn == Spec => []NobodyBlocks
<1>1. Inv /\ ShutInv /\ CallInv => NobodyBlocks
  BY SomeoneMoves DEF NobodyBlocks
<1> QED
  BY <1>1, WaitInv, PTL
=============================================================================
