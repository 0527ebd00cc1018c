--------------------------- MODULE RoomEntryProofs ---------------------------
(***************************************************************************)
(* Entering and leaving rooms, for any players, rooms, sizes and capacity  *)
(* of the queue, whatever the clients send.  What is proved of a player    *)
(* needs that this player never asked to enter before its last request was *)
(* served (hasty); nothing is asked of the others.                         *)
(*                                                                         *)
(* The three records of where a player sits are changed by three kinds of  *)
(* goroutines without a common lock.  They agree because at most one of    *)
(* them works for such a player at a time on its way in: Places says who   *)
(* may, Seats what the virtual machine knows by itself, and Records how    *)
(* far Go is behind it.                                                    *)
(***************************************************************************)
EXTENDS RoomEntry, WellFoundedInduction, TLAPS

(* The goroutines are at their steps with what these need.                 *)
GameShape ==
  \/ game = Idle
  \/ /\ game.do = "send" /\ game.player \in Rooms
     /\ \E p \in Players, k \in Kinds : game = Doing("send", game.player, <<p, k>>)
  \/ /\ game.do \in {"enqueue", "continue", "disconnect", "apply"}
     /\ game.player \in Players /\ game = Doing(game.do, game.player, None)

EnterShape ==
  \/ enter = Idle
  \/ enter.do \in {"take", "stopped"} /\ enter = Doing(enter.do, None, None)
  \/ /\ enter.do \in {"init", "seat"} /\ enter.player \in Players
     /\ enter = Doing(enter.do, enter.player, None)
  \/ /\ enter.do \in {"set", "join"} /\ enter.player \in Players /\ enter.arg \in Rooms
     /\ enter = Doing(enter.do, enter.player, enter.arg)

WorkShape(r) ==
  \/ work[r] = Idle
  \/ /\ work[r].do = "call" /\ work[r].player \in Players /\ work[r].arg \in Kinds
     /\ work[r] = Doing("call", work[r].player, work[r].arg)
  \/ /\ work[r].do = "apply" /\ work[r].player \in Players
     /\ work[r] = Doing("apply", work[r].player, None)

Shapes == GameShape /\ EnterShape /\ \A r \in Rooms : WorkShape(r)

(* What the virtual machine knows by itself: who has a seat sits on it,    *)
(* only who sits is ready, and a round is on at full tables only.          *)
SeatOfRec   == \A p \in Players, r \in Rooms, i \in Seat : at[p] = <<r, i>> => seats[r][i] = p
ReadySits   == \A r \in Rooms : ready[r] \subseteq Taken(r)
RoundIsFull == \A r \in Rooms : ingame[r] => Taken(r) = Seat

(* A seat kept for a player that has forgotten it is one of a hasty player *)
(* only: player_init makes a second record for it.                         *)
RecOfSeat ==
  \A p \in Players \ hasty, r \in Rooms, i \in Seat : seats[r][i] = p => at[p] = <<r, i>>

Seats == SeatOfRec /\ ReadySits /\ RoundIsFull /\ RecOfSeat

(* The places of the way into a room, and the hands a player can be in.    *)
Enqueues(p) == game.do = "enqueue" /\ game.player = p
Queued(p)   == \E i \in DOMAIN queue : queue[i] = p
Sends(p)    == game.do = "send" /\ game.arg[1] = p
Works(p)    == \E r \in Rooms : work[r].player = p
Ends(p)     == game.do \in {"disconnect", "apply"} /\ game.player = p
Applying(p) == \/ game.do = "apply" /\ game.player = p
               \/ \E r \in Rooms : work[r].do = "apply" /\ work[r].player = p
Coming(p)   == \/ Enqueues(p) \/ Queued(p)
               \/ enter.player = p /\ enter.do # "join"

(* A player that never asked too soon is in one place of the way at most,  *)
(* and no goroutine has a message of it until it has its room.             *)
Place(p) ==
  /\ Enqueues(p) => ~Queued(p) /\ enter.player # p
  /\ Queued(p) => enter.player # p
  /\ Enqueues(p) \/ Queued(p) \/ enter.player = p => asked[p]
  /\ Coming(p) => ~Works(p) /\ ~Sends(p) /\ ~Ends(p)

QueuedOnce == \A i, j \in DOMAIN queue : queue[i] = queue[j] /\ queue[i] \notin hasty => i = j

Places == (\A p \in Players \ hasty : Place(p)) /\ QueuedOnce

(* Go's records of such a player: behind the virtual machine only when a   *)
(* goroutine is about to set or to clear the room; no room on the way in.  *)
Record(p) ==
  /\ Applying(p) => at[p] = NoSeat
  /\ Coming(p) => room[p] = None
  /\ IF enter.do = "set" /\ enter.player = p THEN at[p][1] = enter.arg
     ELSE ~Applying(p) => room[p] = at[p][1]
  /\ room[p] # None => \/ p \in members[room[p]]
                       \/ enter = Doing("join", p, room[p])

Records == \A p \in Players \ hasty : Record(p)

EntryInv == TypeOK /\ Shapes /\ Seats /\ Places /\ Records
-----------------------------------------------------------------------------
USE DEF client, gostate, lua

(* A step of a goroutine, with what it needs, is one of the steps.         *)
LEMMA ShapeTypes ==
  /\ \A what \in {"idle", "enqueue", "continue", "disconnect", "apply", "take", "init",
                  "seat", "stopped"}, p \in Players \cup {None} : Doing(what, p, None) \in Steps
  /\ \A p \in Players, k \in Kinds : Doing("call", p, k) \in Steps
  /\ \A p \in Players, k \in Kinds, r \in Rooms : Doing("send", r, <<p, k>>) \in Steps
  /\ \A p \in Players, r \in Rooms : Doing("set", p, r) \in Steps /\ Doing("join", p, r) \in Steps
  /\ Idle \in Steps /\ Idle.do = "idle" /\ Idle.player = None
  /\ \A d, p, a : /\ Doing(d, p, a).do = d /\ Doing(d, p, a).player = p
                  /\ Doing(d, p, a).arg = a
BY DEF Doing, Steps, Idle

(* None stands for no player and no room; rooms have seats.                *)
LEMMA Names ==
  None \notin Players /\ None \notin Rooms /\ Size \in Nat /\ Size > 0
    /\ QueueCap \in Nat
BY NamesAssumption, SizesAssumption

(* Who is taken from the queue is a player.                                *)
LEMMA TakeShape ==
  ASSUME TypeOK, Shapes, Take
  PROVE  Shapes'
<1>1. queue \in Seq(Players) /\ queue # <<>>
  BY DEF Take, TypeOK
<1>2. PICK p \in Players : p = Head(queue)
  BY <1>1
<1>3. enter' = Doing("init", p, None) /\ game' = game /\ work' = work
  BY <1>2 DEF Take
<1>4. EnterShape'
  BY <1>3 DEF EnterShape, Doing
<1>5. GameShape' /\ \A r \in Rooms : WorkShape(r)'
  BY <1>3 DEF Shapes, GameShape, WorkShape
<1> QED
  BY <1>4, <1>5 DEF Shapes

(* The player whose record is made new is the one that gets a seat.        *)
LEMMA PlayerInitShape ==
  ASSUME Shapes, PlayerInit
  PROVE  Shapes'
<1>1. PICK p \in Players : enter = Doing("init", p, None)
  BY DEF PlayerInit, Shapes, EnterShape, Doing, Idle
<1>2. enter' = Doing("seat", p, None) /\ game' = game /\ work' = work
  BY <1>1 DEF PlayerInit, Doing
<1>3. EnterShape'
  BY <1>2 DEF EnterShape, Doing
<1>4. GameShape' /\ \A r \in Rooms : WorkShape(r)'
  BY <1>2 DEF Shapes, GameShape, WorkShape
<1> QED
  BY <1>3, <1>4 DEF Shapes

(* Each step hands the next one what that needs.                           *)
LEMMA ShapeStep ==
  ASSUME TypeOK, Shapes, [Next]_vars
  PROVE  Shapes'
<1> USE DEF Shapes, GameShape, EnterShape, WorkShape, Idle, Doing, TypeOK, Kinds
<1>1. ASSUME NEW p \in Players, Connect(p) PROVE Shapes'
  BY <1>1, Names DEF Connect
<1>2. ASSUME NEW p \in Players, Reconnect(p) PROVE Shapes'
  BY <1>2, Names DEF Reconnect
<1>3. ASSUME NEW p \in Players, MatchRoom(p) PROVE Shapes'
  BY <1>3, Names DEF MatchRoom, Queues
<1>4. ASSUME NEW p \in Players, CloseAgent(p) PROVE Shapes'
  BY <1>4, Names DEF CloseAgent
<1>5. ASSUME NEW p \in Players, NEW k \in Kinds, DoGame(p, k) PROVE Shapes'
  BY <1>5, Names DEF DoGame
<1>6. CASE Enqueue
  BY <1>6, Names DEF Enqueue
<1>7. CASE Continue
  BY <1>7, Names DEF Continue
<1>8. CASE CallDisconnect
  BY <1>8, Names DEF CallDisconnect
<1>9. CASE GameApply
  BY <1>9, Names DEF GameApply, Leave
<1>10. CASE LookAtQueue
  BY <1>10, Names DEF LookAtQueue
<1>11. CASE Take
  BY <1>11, TakeShape
<1>12. CASE PlayerInit
  BY <1>12, PlayerInitShape
<1>13. CASE NoRoomFree
  BY <1>13, Names DEF NoRoomFree
<1>14. CASE SetRoom
  BY <1>14, Names DEF SetRoom
<1>15. CASE Join
  BY <1>15, Names DEF Join
<1>16. ASSUME NEW r \in Rooms, EnterRoom(r) PROVE Shapes'
  BY <1>16, Names DEF EnterRoom
<1>17. ASSUME NEW r \in Rooms, RoomIn(r) PROVE Shapes'
  BY <1>17, Names DEF RoomIn
<1>18. ASSUME NEW r \in Rooms, RoomCall(r) PROVE Shapes'
  BY <1>18, Names DEF RoomCall
<1>19. ASSUME NEW r \in Rooms, RoomApply(r) PROVE Shapes'
  BY <1>19, Names DEF RoomApply, Leave
<1>20. CASE UNCHANGED vars
  BY <1>20 DEF vars
<1> QED
  BY <1>1, <1>2, <1>3, <1>4, <1>5, <1>6, <1>7, <1>8, <1>9, <1>10,
     <1>11, <1>12, <1>13, <1>14, <1>15, <1>16, <1>17, <1>18, <1>19, <1>20
     DEF Next, Client, Game, Enter, Room

(* Steps with the right shape are of the type.                             *)
StepsOK == game \in Steps /\ enter \in Steps /\ \A r \in Rooms : work[r] \in Steps

(* What the goroutines are at are steps of the code.                       *)
LEMMA ShapesAreSteps == Shapes => StepsOK
<1> SUFFICES ASSUME Shapes PROVE StepsOK
  OBVIOUS
<1>1. game \in Steps
  <2>1. CASE game = Idle
    BY <2>1, ShapeTypes
  <2>2. CASE game.player \in Rooms /\ \E p \in Players, k \in Kinds :
               game = Doing("send", game.player, <<p, k>>)
    BY <2>2, ShapeTypes
  <2>3. CASE /\ game.do \in {"enqueue", "continue", "disconnect", "apply"}
             /\ game.player \in Players /\ game = Doing(game.do, game.player, None)
    BY <2>3, ShapeTypes
  <2> QED
    BY <2>1, <2>2, <2>3 DEF Shapes, GameShape
<1>2. enter \in Steps
  BY ShapeTypes DEF Shapes, EnterShape
<1>3. \A r \in Rooms : work[r] \in Steps
  BY ShapeTypes DEF Shapes, WorkShape, Kinds
<1> QED
  BY <1>1, <1>2, <1>3 DEF StepsOK

(* What a call changes in the virtual machine, by type.                    *)
LuaOK ==
  /\ at \in [Players -> (Rooms \X Seat) \cup {NoSeat}]
  /\ online \in [Players -> BOOLEAN]
  /\ seats \in [Rooms -> [Seat -> Players \cup {None}]]
  /\ ready \in [Rooms -> SUBSET Seat] /\ ingame \in [Rooms -> BOOLEAN]

(* The record of a player that sits is a seat of a room.                   *)
LEMMA SeatOfRecord ==
  ASSUME LuaOK, NEW p \in Players, at[p] # NoSeat
  PROVE  /\ at[p][1] \in Rooms /\ at[p][2] \in Seat
         /\ at[p] = <<at[p][1], at[p][2]>>
BY DEF LuaOK

(* Giving up a seat keeps the types of the virtual machine.                *)
LEMMA GiveUpOK ==
  ASSUME LuaOK, NEW p \in Players, at[p] # NoSeat, GiveUpSeat(p)
  PROVE  LuaOK'
<1> DEFINE r == at[p][1]
           i == at[p][2]
<1>1. r \in Rooms /\ i \in Seat
  BY SeatOfRecord
<1>2. /\ seats' = [seats EXCEPT ![r] = [seats[r] EXCEPT ![i] = None]]
      /\ ready' = [ready EXCEPT ![r] = ready[r] \ {i}]
      /\ at' = [at EXCEPT ![p] = NoSeat] /\ UNCHANGED <<online, ingame>>
  BY DEF GiveUpSeat
<1> HIDE DEF r, i
<1> QED
  BY <1>1, <1>2 DEF LuaOK

(* A message keeps the types of the virtual machine.                       *)
LEMMA MessageOK ==
  ASSUME LuaOK, NEW p \in Players, NEW k, OnMessage(p, k)
  PROVE  LuaOK'
<1>1. CASE Leaves(p) /\ GiveUpSeat(p)
  BY <1>1, GiveUpOK DEF Leaves
<1>2. CASE MayReady(p) /\ GetReady(p)
  <2>1. at[p][1] \in Rooms /\ at[p][2] \in Seat
    BY <1>2, SeatOfRecord DEF MayReady
  <2>2. /\ ready' = [ready EXCEPT ![at[p][1]] = ready[at[p][1]] \cup {at[p][2]}]
        /\ \E b \in BOOLEAN : ingame' = [ingame EXCEPT ![at[p][1]] = b]
        /\ UNCHANGED <<at, online, seats>>
    BY <1>2 DEF GetReady
  <2> QED
    BY <2>1, <2>2 DEF LuaOK
<1>3. CASE PlayOn(p)
  BY <1>3 DEF PlayOn, LuaOK
<1>4. CASE UNCHANGED lua
  BY <1>4 DEF LuaOK
<1> QED
  BY <1>1, <1>2, <1>3, <1>4 DEF OnMessage

(* A disconnect keeps the types of the virtual machine.                    *)
LEMMA DisconnectOK ==
  ASSUME LuaOK, NEW p \in Players, PlayerDisconnect(p)
  PROVE  LuaOK'
<1>1. CASE Leaves(p)
  BY <1>1, GiveUpOK DEF Leaves, PlayerDisconnect
<1>2. CASE ~Leaves(p)
  BY <1>2 DEF PlayerDisconnect, LuaOK
<1> QED
  BY <1>1, <1>2

(* Sets of numbers have a smallest.                                        *)
LEMMA Smallest ==
  ASSUME NEW T \in SUBSET Nat, T # {}
  PROVE  \E j \in T : \A k \in T : j <= k
<1> DEFINE R == {ss \in Nat \X Nat : ss[1] < ss[2]}
<1>1. IsWellFoundedOn(R, Nat)
  BY NatLessThanWellFounded DEF OpToRel
<1>2. PICK j \in T : \A k \in T : ~ (<<k, j>> \in R)
  <2> HIDE DEF R
  <2> QED
    BY <1>1, WFMin
<1>3. ASSUME NEW k \in T PROVE j <= k
  <2>1. k \in Nat /\ j \in Nat /\ <<k, j>> \in Nat \X Nat /\ <<k, j>>[1] = k /\ <<k, j>>[2] = j
    OBVIOUS
  <2>2. ~ (k < j)
    BY <1>2, <2>1
  <2> QED
    BY <2>1, <2>2
<1> QED
  BY <1>3

(* The seat that player_enter_room gives is a free one.                    *)
LEMMA FreeSeat ==
  ASSUME NEW r \in Rooms, Taken(r) # Seat
  PROVE  (CHOOSE j \in Seat \ Taken(r) : \A k \in Seat \ Taken(r) : j <= k) \in Seat \ Taken(r)
<1>1. Seat \ Taken(r) \in SUBSET Nat /\ Seat \ Taken(r) # {}
  BY Names DEF Taken, Seat
<1>2. PICK j \in Seat \ Taken(r) : \A k \in Seat \ Taken(r) : j <= k
  BY <1>1, Smallest
<1> QED
  BY <1>2

(* Types.                                                                  *)
LEMMA QueueTail ==
  ASSUME NEW S, NEW q \in Seq(S), q # <<>>
  PROVE  /\ Head(q) \in S /\ Head(q) = q[1] /\ Tail(q) \in Seq(S)
         /\ Len(q) \in Nat /\ Len(Tail(q)) = Len(q) - 1 /\ 1 \in DOMAIN q
         /\ \A i \in DOMAIN Tail(q) : /\ i + 1 \in DOMAIN q /\ Tail(q)[i] = q[i + 1]
                                      /\ i \in Nat /\ i > 0
OBVIOUS

(* One added at the end of the queue.                                      *)
LEMMA QueueAppend ==
  ASSUME NEW S, NEW q \in Seq(S), NEW x \in S
  PROVE  /\ Append(q, x) \in Seq(S) /\ Len(q) \in Nat /\ Len(Append(q, x)) = Len(q) + 1
         /\ DOMAIN Append(q, x) = DOMAIN q \cup {Len(q) + 1} /\ Len(q) + 1 \notin DOMAIN q
         /\ Append(q, x)[Len(q) + 1] = x
         /\ \A i \in DOMAIN q : Append(q, x)[i] = q[i] /\ q[i] \in S
OBVIOUS

GoOK ==
  /\ conn \in [Players -> BOOLEAN] /\ old \in [Players -> BOOLEAN]
  /\ asked \in [Players -> BOOLEAN] /\ hasty \subseteq Players
  /\ room \in [Players -> Rooms \cup {None}]
  /\ members \in [Rooms -> SUBSET Players]
  /\ queue \in Seq(Players) /\ Len(queue) <= QueueCap

(* The types of Go's records are kept by every step.                       *)
LEMMA GoStep ==
  ASSUME GoOK, Shapes, [Next]_vars
  PROVE  GoOK'
<1>1. ASSUME NEW p \in Players, Connect(p) PROVE GoOK'
  BY <1>1, Names DEF Connect, GoOK, Shapes, GameShape, EnterShape, WorkShape,
       Idle, Doing
<1>2. ASSUME NEW p \in Players, Reconnect(p) PROVE GoOK'
  BY <1>2, Names DEF Reconnect, GoOK, Shapes, GameShape, EnterShape,
       WorkShape, Idle, Doing
<1>3. ASSUME NEW p \in Players, MatchRoom(p) PROVE GoOK'
  BY <1>3, Names DEF MatchRoom, Queues, GoOK, Shapes, GameShape, EnterShape,
       WorkShape, Idle, Doing
<1>4. ASSUME NEW p \in Players, CloseAgent(p) PROVE GoOK'
  BY <1>4, Names DEF CloseAgent, GoOK, Shapes, GameShape, EnterShape,
       WorkShape, Idle, Doing
<1>5. ASSUME NEW p \in Players, NEW k \in Kinds, DoGame(p, k) PROVE GoOK'
  BY <1>5, Names DEF DoGame, GoOK, Shapes, GameShape, EnterShape, WorkShape,
       Idle, Doing
<1>6. CASE Enqueue
  <2>1. game.player \in Players
    BY <1>6 DEF Enqueue, Shapes, GameShape, EnterShape, WorkShape, Idle, Doing
  <2>2. queue' = Append(queue, game.player) /\ Len(queue) < QueueCap
    BY <1>6 DEF Enqueue
  <2>3. queue' \in Seq(Players) /\ Len(queue') <= QueueCap
    BY <2>1, <2>2, QueueAppend, Names DEF GoOK
  <2> QED
    BY <1>6, <2>3 DEF Enqueue, GoOK
<1>7. CASE Continue
  BY <1>7, Names DEF Continue, GoOK, Shapes, GameShape, EnterShape, WorkShape,
       Idle, Doing
<1>8. CASE CallDisconnect
  BY <1>8, Names DEF CallDisconnect, GoOK, Shapes, GameShape, EnterShape,
       WorkShape, Idle, Doing
<1>9. CASE GameApply
  BY <1>9, Names DEF GameApply, Leave, GoOK, Shapes, GameShape, EnterShape,
       WorkShape, Idle, Doing
<1>10. CASE LookAtQueue
  BY <1>10, Names DEF LookAtQueue, GoOK, Shapes, GameShape, EnterShape,
       WorkShape, Idle, Doing
<1>11. CASE Take
  <2>1. queue # <<>> /\ queue' = Tail(queue)
    BY <1>11 DEF Take
  <2>3. queue' \in Seq(Players) /\ Len(queue') <= QueueCap
    BY <2>1, QueueTail, Names DEF GoOK
  <2> QED
    BY <1>11, <2>3 DEF Take, GoOK
<1>12. CASE PlayerInit
  BY <1>12, Names DEF PlayerInit, GoOK, Shapes, GameShape, EnterShape,
       WorkShape, Idle, Doing
<1>13. CASE NoRoomFree
  BY <1>13, Names DEF NoRoomFree, GoOK, Shapes, GameShape, EnterShape,
       WorkShape, Idle, Doing
<1>14. CASE SetRoom
  BY <1>14, Names DEF SetRoom, GoOK, Shapes, GameShape, EnterShape, WorkShape,
       Idle, Doing
<1>15. CASE Join
  BY <1>15, Names DEF Join, GoOK, Shapes, GameShape, EnterShape, WorkShape,
       Idle, Doing
<1>16. ASSUME NEW r \in Rooms, EnterRoom(r) PROVE GoOK'
  BY <1>16, Names DEF EnterRoom, GoOK, Shapes, GameShape, EnterShape,
       WorkShape, Idle, Doing
<1>17. ASSUME NEW r \in Rooms, RoomIn(r) PROVE GoOK'
  BY <1>17, Names DEF RoomIn, GoOK, Shapes, GameShape, EnterShape, WorkShape,
       Idle, Doing
<1>18. ASSUME NEW r \in Rooms, RoomCall(r) PROVE GoOK'
  BY <1>18, Names DEF RoomCall, GoOK, Shapes, GameShape, EnterShape,
       WorkShape, Idle, Doing
<1>19. ASSUME NEW r \in Rooms, RoomApply(r) PROVE GoOK'
  BY <1>19, Names DEF RoomApply, Leave, GoOK, Shapes, GameShape, EnterShape,
       WorkShape, Idle, Doing
<1>20. CASE UNCHANGED vars
  BY <1>20 DEF vars, GoOK
<1> QED
  BY <1>1, <1>2, <1>3, <1>4, <1>5, <1>6, <1>7, <1>8, <1>9, <1>10,
     <1>11, <1>12, <1>13, <1>14, <1>15, <1>16, <1>17, <1>18, <1>19, <1>20
     DEF Next, Client, Game, Enter, Room

(* The types of the virtual machine's records are kept by every step.      *)
LEMMA LuaStep ==
  ASSUME LuaOK, Shapes, [Next]_vars
  PROVE  LuaOK'
<1>1. ASSUME NEW p \in Players, Connect(p) PROVE LuaOK'
  BY <1>1 DEF Connect, LuaOK
<1>2. ASSUME NEW p \in Players, Reconnect(p) PROVE LuaOK'
  BY <1>2 DEF Reconnect, LuaOK
<1>3. ASSUME NEW p \in Players, MatchRoom(p) PROVE LuaOK'
  BY <1>3 DEF MatchRoom, Queues, LuaOK
<1>4. ASSUME NEW p \in Players, CloseAgent(p) PROVE LuaOK'
  BY <1>4 DEF CloseAgent, LuaOK
<1>5. ASSUME NEW p \in Players, NEW k \in Kinds, DoGame(p, k) PROVE LuaOK'
  BY <1>5 DEF DoGame, LuaOK
<1>6. CASE Enqueue
  BY <1>6 DEF Enqueue, LuaOK
<1>7. CASE Continue
  <2>1. game.player \in Players
    BY <1>7 DEF Continue, Shapes, GameShape, EnterShape, WorkShape, Idle, Doing
  <2>2. online' = [online EXCEPT ![game.player] = online[game.player] \/ room[game.player] # None]
    BY <1>7 DEF Continue
  <2>3. online' \in [Players -> BOOLEAN]
    BY <2>1, <2>2, Zenon DEF LuaOK
  <2> QED
    BY <1>7, <2>3 DEF Continue, LuaOK
<1>8. CASE CallDisconnect
  <2>1. game.player \in Players
    BY <1>8 DEF CallDisconnect, Shapes, GameShape, EnterShape, WorkShape,
         Idle, Doing
  <2> QED
    BY <1>8, <2>1, DisconnectOK DEF CallDisconnect
<1>9. CASE GameApply
  BY <1>9 DEF GameApply, Leave, LuaOK
<1>10. CASE LookAtQueue
  BY <1>10 DEF LookAtQueue, LuaOK
<1>11. CASE Take
  BY <1>11 DEF Take, LuaOK
<1>12. CASE PlayerInit
  BY <1>12 DEF PlayerInit, LuaOK, Shapes, GameShape, EnterShape, WorkShape,
       Idle, Doing
<1>13. CASE NoRoomFree
  BY <1>13 DEF NoRoomFree, LuaOK
<1>14. CASE SetRoom
  BY <1>14 DEF SetRoom, LuaOK
<1>15. CASE Join
  BY <1>15 DEF Join, LuaOK
<1>16. ASSUME NEW r \in Rooms, EnterRoom(r) PROVE LuaOK'
  <2> DEFINE p == enter.player
             i == CHOOSE j \in Seat \ Taken(r) : \A k \in Seat \ Taken(r) : j <= k
  <2>3. Taken(r) # Seat /\ enter.do = "seat"
    BY <1>16 DEF EnterRoom
  <2>4. i \in Seat
    BY <2>3, FreeSeat
  <2>1. p \in Players
    BY <2>3, ShapeTypes DEF Shapes, EnterShape
  <2>2. /\ seats' = [seats EXCEPT ![r] = [seats[r] EXCEPT ![i] = p]]
        /\ at' = [at EXCEPT ![p] = <<r, i>>] /\ UNCHANGED <<online, ready, ingame>>
    BY <1>16 DEF EnterRoom
  <2> HIDE DEF p, i
  <2> QED
    BY <2>1, <2>2, <2>4 DEF LuaOK
<1>17. ASSUME NEW r \in Rooms, RoomIn(r) PROVE LuaOK'
  BY <1>17 DEF RoomIn, LuaOK
<1>18. ASSUME NEW r \in Rooms, RoomCall(r) PROVE LuaOK'
  <2>1. work[r].player \in Players
    BY <1>18, ShapeTypes DEF RoomCall, Shapes, WorkShape
  <2> QED
    BY <1>18, <2>1, MessageOK DEF RoomCall
<1>19. ASSUME NEW r \in Rooms, RoomApply(r) PROVE LuaOK'
  BY <1>19 DEF RoomApply, Leave, LuaOK
<1>20. CASE UNCHANGED vars
  BY <1>20 DEF vars, LuaOK
<1> QED
  BY <1>1, <1>2, <1>3, <1>4, <1>5, <1>6, <1>7, <1>8, <1>9, <1>10,
     <1>11, <1>12, <1>13, <1>14, <1>15, <1>16, <1>17, <1>18, <1>19, <1>20
     DEF Next, Client, Game, Enter, Room

(* The steps of the workers of the rooms stay steps.                       *)
LEMMA WorkStep ==
  ASSUME work \in [Rooms -> Steps], \A r \in Rooms : work'[r] \in Steps,
       [Next]_vars
  PROVE  (work \in [Rooms -> Steps])'
<1>1. ASSUME NEW p \in Players, Connect(p) PROVE (work \in [Rooms -> Steps])'
  BY <1>1 DEF Connect
<1>2. ASSUME NEW p \in Players, Reconnect(p) PROVE (work \in [Rooms -> Steps])'
  BY <1>2 DEF Reconnect
<1>3. ASSUME NEW p \in Players, MatchRoom(p) PROVE (work \in [Rooms -> Steps])'
  BY <1>3 DEF MatchRoom, Queues
<1>4. ASSUME NEW p \in Players, CloseAgent(p) PROVE (work \in [Rooms -> Steps])'
  BY <1>4 DEF CloseAgent
<1>5. ASSUME NEW p \in Players, NEW k \in Kinds, DoGame(p, k) PROVE (work \in
     [Rooms -> Steps])'
  BY <1>5 DEF DoGame
<1>6. CASE Enqueue
  BY <1>6 DEF Enqueue
<1>7. CASE Continue
  BY <1>7 DEF Continue
<1>8. CASE CallDisconnect
  BY <1>8 DEF CallDisconnect
<1>9. CASE GameApply
  BY <1>9 DEF GameApply, Leave
<1>10. CASE LookAtQueue
  BY <1>10 DEF LookAtQueue
<1>11. CASE Take
  BY <1>11 DEF Take
<1>12. CASE PlayerInit
  BY <1>12 DEF PlayerInit
<1>13. CASE NoRoomFree
  BY <1>13 DEF NoRoomFree
<1>14. CASE SetRoom
  BY <1>14 DEF SetRoom
<1>15. CASE Join
  BY <1>15 DEF Join
<1>16. ASSUME NEW r \in Rooms, EnterRoom(r) PROVE (work \in [Rooms -> Steps])'
  BY <1>16 DEF EnterRoom
<1>17. ASSUME NEW r \in Rooms, RoomIn(r) PROVE (work \in [Rooms -> Steps])'
  <2>1. \E x : work' = [work EXCEPT ![r] = x]
    BY <1>17 DEF RoomIn
  <2> QED
    BY <2>1
<1>18. ASSUME NEW r \in Rooms, RoomCall(r) PROVE (work \in [Rooms -> Steps])'
  <2>1. \E x : work' = [work EXCEPT ![r] = x]
    BY <1>18 DEF RoomCall
  <2> QED
    BY <2>1
<1>19. ASSUME NEW r \in Rooms, RoomApply(r) PROVE (work \in [Rooms -> Steps])'
  <2>1. \E x : work' = [work EXCEPT ![r] = x]
    BY <1>19 DEF RoomApply
  <2> QED
    BY <2>1
<1>20. CASE UNCHANGED vars
  BY <1>20 DEF vars
<1> QED
  BY <1>1, <1>2, <1>3, <1>4, <1>5, <1>6, <1>7, <1>8, <1>9, <1>10,
     <1>11, <1>12, <1>13, <1>14, <1>15, <1>16, <1>17, <1>18, <1>19, <1>20
     DEF Next, Client, Game, Enter, Room

(* Types and steps together are kept by every step.                        *)
LEMMA TypeStep ==
  ASSUME TypeOK, Shapes, [Next]_vars
  PROVE  TypeOK' /\ Shapes'
<1>1. GoOK /\ LuaOK
  BY DEF TypeOK, GoOK, LuaOK
<1>2. GoOK' /\ LuaOK' /\ Shapes'
  BY <1>1, GoStep, LuaStep, ShapeStep
<1>6. Shapes' => StepsOK'
  BY ShapesAreSteps, PTL
<1>3. game' \in Steps /\ enter' \in Steps /\ \A r \in Rooms : work'[r] \in Steps
  BY <1>2, <1>6 DEF StepsOK
<1>4. work \in [Rooms -> Steps]
  BY DEF TypeOK
<1>5. work' \in [Rooms -> Steps]
  BY <1>3, <1>4, WorkStep
<1> QED
  BY <1>2, <1>3, <1>5 DEF TypeOK, GoOK, LuaOK

(* Nobody is taken off the list of the hasty players.                      *)
LEMMA HastyGrows ==
  ASSUME [Next]_vars
  PROVE  hasty \subseteq hasty'
BY DEF vars, Next, Client, Game, Enter, Room, Connect, Reconnect, MatchRoom, CloseAgent,
       DoGame, Enqueue, Continue, CallDisconnect, GameApply, LookAtQueue, Take, PlayerInit,
       NoRoomFree, SetRoom, Join, EnterRoom, RoomIn, RoomCall, RoomApply

(* Calls keep what the virtual machine knows by itself.                    *)
LEMMA GiveUpKeepsSeats ==
  ASSUME LuaOK, Seats, NEW p \in Players, Leaves(p), GiveUpSeat(p), hasty' = hasty
  PROVE  Seats' /\ at'[p] = NoSeat /\ \A q \in Players \ {p} : at'[q] = at[q]
<1> DEFINE r == at[p][1]
           i == at[p][2]
<1>1. r \in Rooms /\ i \in Seat /\ at[p] = <<r, i>> /\ ~ingame[r] /\ seats[r][i] = p
  BY SeatOfRecord DEF Leaves, Seats, SeatOfRec
<1>2. /\ seats' = [seats EXCEPT ![r] = [seats[r] EXCEPT ![i] = None]]
      /\ ready' = [ready EXCEPT ![r] = ready[r] \ {i}]
      /\ at' = [at EXCEPT ![p] = NoSeat] /\ UNCHANGED <<online, ingame>>
  BY DEF GiveUpSeat
<1> HIDE DEF r, i
<1>3. at'[p] = NoSeat /\ \A q \in Players \ {p} : at'[q] = at[q]
  BY <1>2 DEF LuaOK
<1>4. \A s \in Rooms, j \in Seat : seats'[s][j] = IF s = r /\ j = i THEN None ELSE seats[s][j]
  BY <1>1, <1>2 DEF LuaOK
<1>5. ASSUME NEW q \in Players, NEW s \in Rooms, NEW j \in Seat, at'[q] = <<s, j>>
      PROVE  seats'[s][j] = q
  <2>1. q # p
    BY <1>3, <1>5, Names DEF NoSeat
  <2>2. seats[s][j] = q
    BY <1>3, <1>5, <2>1 DEF Seats, SeatOfRec
  <2> QED
    BY <1>1, <1>4, <2>1, <2>2
<1>6. ASSUME NEW q \in Players \ hasty', NEW s \in Rooms, NEW j \in Seat, seats'[s][j] = q
      PROVE  at'[q] = <<s, j>>
  <2>1. ~(s = r /\ j = i) /\ seats[s][j] = q
    BY <1>4, <1>6, Names
  <2>2. at[q] = <<s, j>>
    BY <2>1 DEF Seats, RecOfSeat
  <2>3. q # p
    BY <1>1, <2>1, <2>2
  <2> QED
    BY <1>3, <2>2, <2>3
<1>7. ReadySits'
  BY <1>1, <1>2, <1>4 DEF Seats, ReadySits, Taken, LuaOK
<1>8. RoundIsFull'
  BY <1>1, <1>2, <1>4 DEF Seats, RoundIsFull, Taken
<1> QED
  BY <1>3, <1>5, <1>6, <1>7, <1>8 DEF Seats, SeatOfRec, RecOfSeat

(* A message changes the seat of its own player only, and only when it     *)
(* leaves.                                                                 *)
LEMMA MessageKeepsSeats ==
  ASSUME LuaOK, Seats, NEW p \in Players, NEW k, OnMessage(p, k), hasty' = hasty
  PROVE  /\ Seats'
         /\ IF k = "leave" /\ Leaves(p)
            THEN at'[p] = NoSeat /\ \A q \in Players \ {p} : at'[q] = at[q]
            ELSE at' = at
<1>1. CASE k = "leave" /\ Leaves(p) /\ GiveUpSeat(p)
  BY <1>1, GiveUpKeepsSeats
<1>2. CASE k = "ready" /\ MayReady(p) /\ GetReady(p)
  <2>1. at[p][1] \in Rooms /\ at[p][2] \in Seat /\ seats[at[p][1]][at[p][2]] = p
    BY <1>2, SeatOfRecord DEF MayReady, Seats, SeatOfRec
  <2> DEFINE now == ready[at[p][1]] \cup {at[p][2]}
  <2>2. /\ ready' = [ready EXCEPT ![at[p][1]] = now]
        /\ ingame' = [ingame EXCEPT ![at[p][1]] = (now = Seat)]
        /\ UNCHANGED <<at, online, seats>>
    BY <1>2 DEF GetReady
  <2>3. now \subseteq Taken(at[p][1]) /\ Taken(at[p][1]) \subseteq Seat
    BY <2>1, Names DEF Seats, SeatOfRec, ReadySits, RoundIsFull, RecOfSeat, Taken
  <2> HIDE DEF now
  <2>4. \A s \in Rooms : ready'[s] \subseteq Taken(s)
    BY <2>1, <2>2, <2>3 DEF Seats, SeatOfRec, ReadySits, RoundIsFull,
         RecOfSeat, LuaOK
  <2>5. \A s \in Rooms : ingame'[s] => Taken(s) = Seat
    <3>1. ASSUME NEW s \in Rooms, ingame'[s] PROVE Taken(s) = Seat
      <4>1. CASE s = at[p][1]
        <5>1. CASE now = Seat
          BY <2>3, <4>1, <5>1
        <5>2. CASE now # Seat
          <6>1. (now = Seat) = FALSE
            BY <5>2
          <6>2. ingame' = [ingame EXCEPT ![at[p][1]] = FALSE]
            BY <2>2, <6>1
          <6> QED
            BY <2>1, <3>1, <4>1, <6>2 DEF LuaOK
        <5> QED
          BY <5>1, <5>2
      <4>2. CASE s # at[p][1]
        BY <2>2, <3>1, <4>2 DEF Seats, SeatOfRec, ReadySits, RoundIsFull,
             RecOfSeat, LuaOK
      <4> QED
        BY <4>1, <4>2
    <3> QED
      BY <3>1
  <2> QED
    BY <1>2, <2>2, <2>4, <2>5 DEF Seats, SeatOfRec, ReadySits, RoundIsFull,
         RecOfSeat, Taken
<1>3. CASE k = "play" /\ InRound(p) /\ PlayOn(p)
  <2>1. UNCHANGED <<at, seats>>
    BY <1>3 DEF PlayOn
  <2>2. \A s \in Rooms : ready'[s] \subseteq Taken(s) /\ (ingame'[s] => Taken(s) = Seat)
    BY <1>3 DEF PlayOn, Seats, SeatOfRec, ReadySits, RoundIsFull, RecOfSeat, LuaOK
  <2> QED
    BY <1>3, <2>1, <2>2 DEF Seats, SeatOfRec, ReadySits, RoundIsFull,
         RecOfSeat, Taken
<1>4. CASE /\ k = "leave" => ~Leaves(p)
           /\ UNCHANGED lua
  BY <1>4 DEF Seats, SeatOfRec, ReadySits, RoundIsFull, RecOfSeat, Taken
<1> QED
  BY <1>1, <1>2, <1>3, <1>4 DEF OnMessage

(* A disconnect changes the seat of its own player only, and only when it  *)
(* may leave.                                                              *)
LEMMA DisconnectKeepsSeats ==
  ASSUME LuaOK, Seats, NEW p \in Players, PlayerDisconnect(p), hasty' = hasty
  PROVE  /\ Seats'
         /\ IF Leaves(p) THEN at'[p] = NoSeat /\ \A q \in Players \ {p} : at'[q] = at[q]
                         ELSE at' = at
<1>1. CASE Leaves(p)
  BY <1>1, GiveUpKeepsSeats DEF PlayerDisconnect
<1>2. CASE ~Leaves(p)
  BY <1>2 DEF PlayerDisconnect, Seats, SeatOfRec, ReadySits, RoundIsFull,
       RecOfSeat, Taken
<1> QED
  BY <1>1, <1>2

(* On its way into a room a player has no seat.                            *)
LEMMA ComingIsOut ==
  ASSUME LuaOK, Records, NEW p \in Players \ hasty, Coming(p),
         ~ (enter.do = "set" /\ enter.player = p)
  PROVE  at[p] = NoSeat
<1>1. CASE Applying(p)
  BY <1>1 DEF Records, Record
<1>2. CASE ~Applying(p)
  <2>1. at[p][1] = None
    BY <1>2 DEF Records, Record
  <2> QED
    BY <2>1, SeatOfRecord, Names
<1> QED
  BY <1>1, <1>2

(* Giving a free seat to a player without one, or to a hasty one, keeps    *)
(* what the virtual machine knows by itself.                               *)
LEMMA SeatGiven ==
  ASSUME LuaOK, Seats, NEW p \in Players, p \in hasty \/ at[p] = NoSeat, NEW r \in Rooms,
         NEW i \in Seat \ Taken(r),
         seats' = [seats EXCEPT ![r] = [seats[r] EXCEPT ![i] = p]],
         at' = [at EXCEPT ![p] = <<r, i>>], UNCHANGED <<ready, ingame, hasty>>
  PROVE  Seats'
<1>1. at'[p] = <<r, i>> /\ \A q \in Players \ {p} : at'[q] = at[q]
  BY DEF LuaOK
<1>2. \A s \in Rooms, j \in Seat : seats'[s][j] = IF s = r /\ j = i THEN p ELSE seats[s][j]
  BY DEF LuaOK
<1>3. seats[r][i] = None
  BY DEF Taken
<1>4. ASSUME NEW q \in Players, NEW s \in Rooms, NEW j \in Seat, at'[q] = <<s, j>>
      PROVE  seats'[s][j] = q
  <2>1. CASE q = p
    <3>1. s = r /\ j = i
      BY <1>1, <1>4, <2>1
    <3> QED
      BY <1>2, <2>1, <3>1
  <2>2. CASE q # p
    <3>1. seats[s][j] = q /\ q # None
      BY <1>1, <1>4, <2>2, Names DEF Seats, SeatOfRec
    <3> QED
      BY <1>2, <1>3, <3>1
  <2> QED
    BY <2>1, <2>2
<1>5. ASSUME NEW q \in Players \ hasty', NEW s \in Rooms, NEW j \in Seat, seats'[s][j] = q
      PROVE  at'[q] = <<s, j>>
  <2>1. CASE s = r /\ j = i
    BY <1>1, <1>2, <1>5, <2>1
  <2>2. CASE ~ (s = r /\ j = i)
    <3>1. at[q] = <<s, j>>
      BY <1>2, <1>5, <2>2 DEF Seats, RecOfSeat
    <3>2. q # p
      BY <3>1, Names DEF NoSeat
    <3> QED
      BY <1>1, <3>1, <3>2
  <2> QED
    BY <2>1, <2>2
<1>6. \A s \in Rooms : Taken(s) \subseteq Taken(s)' /\ Taken(s)' \subseteq Seat
  BY <1>2, Names DEF Taken
<1>7. ReadySits' /\ RoundIsFull'
  BY <1>6 DEF Seats, ReadySits, RoundIsFull
<1> QED
  BY <1>4, <1>5, <1>7 DEF Seats, SeatOfRec, RecOfSeat

(* The seats the virtual machine knows of stay consistent.                 *)
LEMMA SeatsStep ==
  ASSUME LuaOK, Shapes, Seats, Records, [Next]_vars
  PROVE  Seats'
<1>1. ASSUME NEW p \in Players, Connect(p) PROVE Seats'
  BY <1>1 DEF Connect, Seats, SeatOfRec, ReadySits, RoundIsFull, RecOfSeat, Taken
<1>2. ASSUME NEW p \in Players, Reconnect(p) PROVE Seats'
  BY <1>2 DEF Reconnect, Seats, SeatOfRec, ReadySits, RoundIsFull, RecOfSeat, Taken
<1>3. ASSUME NEW p \in Players, MatchRoom(p) PROVE Seats'
  BY <1>3 DEF MatchRoom, Seats, SeatOfRec, ReadySits, RoundIsFull, RecOfSeat, Taken
<1>4. ASSUME NEW p \in Players, CloseAgent(p) PROVE Seats'
  BY <1>4 DEF CloseAgent, Seats, SeatOfRec, ReadySits, RoundIsFull, RecOfSeat, Taken
<1>5. ASSUME NEW p \in Players, NEW k \in Kinds, DoGame(p, k) PROVE Seats'
  BY <1>5 DEF DoGame, Seats, SeatOfRec, ReadySits, RoundIsFull, RecOfSeat, Taken
<1>6. CASE Enqueue
  BY <1>6 DEF Enqueue, Seats, SeatOfRec, ReadySits, RoundIsFull, RecOfSeat, Taken
<1>7. CASE Continue
  BY <1>7 DEF Continue, Seats, SeatOfRec, ReadySits, RoundIsFull, RecOfSeat, Taken
<1>8. CASE CallDisconnect
  <2>1. game.player \in Players
    BY <1>8, ShapeTypes DEF CallDisconnect, Shapes, GameShape
  <2> QED
    BY <1>8, <2>1, DisconnectKeepsSeats DEF CallDisconnect
<1>9. CASE GameApply
  BY <1>9 DEF GameApply, Seats, SeatOfRec, ReadySits, RoundIsFull, RecOfSeat, Taken
<1>10. CASE LookAtQueue
  BY <1>10 DEF LookAtQueue, Seats, SeatOfRec, ReadySits, RoundIsFull,
       RecOfSeat, Taken
<1>11. CASE Take
  BY <1>11 DEF Take, Seats, SeatOfRec, ReadySits, RoundIsFull, RecOfSeat, Taken
<1>12. CASE PlayerInit
  <2>1. enter.player \in Players /\ enter.do = "init"
    BY <1>12, ShapeTypes DEF PlayerInit, Shapes, EnterShape
  <2>2. enter.player \notin hasty => at[enter.player] = NoSeat
    BY <2>1, ComingIsOut DEF Coming
  <2>3. /\ at' = [at EXCEPT ![enter.player] = NoSeat]
        /\ UNCHANGED <<hasty, seats, ready, ingame>>
    BY <1>12 DEF PlayerInit
  <2>4. SeatOfRec'
    BY <2>1, <2>3, Names DEF Seats, SeatOfRec, NoSeat, LuaOK
  <2>5. RecOfSeat'
    BY <2>1, <2>2, <2>3 DEF Seats, RecOfSeat, LuaOK
  <2>6. ReadySits' /\ RoundIsFull'
    BY <2>3 DEF Seats, ReadySits, RoundIsFull, Taken
  <2> QED
    BY <2>4, <2>5, <2>6 DEF Seats
<1>13. CASE NoRoomFree
  BY <1>13 DEF NoRoomFree, Seats, SeatOfRec, ReadySits, RoundIsFull, RecOfSeat,
       Taken
<1>14. CASE SetRoom
  BY <1>14 DEF SetRoom, Seats, SeatOfRec, ReadySits, RoundIsFull, RecOfSeat, Taken
<1>15. CASE Join
  BY <1>15 DEF Join, Seats, SeatOfRec, ReadySits, RoundIsFull, RecOfSeat, Taken
<1>16. ASSUME NEW r \in Rooms, EnterRoom(r) PROVE Seats'
  <2> DEFINE p == enter.player
             i == CHOOSE j \in Seat \ Taken(r) : \A k \in Seat \ Taken(r) : j <= k
  <2>3. Taken(r) # Seat /\ enter.do = "seat"
    BY <1>16 DEF EnterRoom
  <2>4. i \in Seat \ Taken(r)
    BY <2>3, FreeSeat
  <2>1. p \in Players
    BY <2>3, ShapeTypes DEF Shapes, EnterShape
  <2>5. p \in hasty \/ at[p] = NoSeat
    BY <2>1, <2>3, ComingIsOut DEF Coming
  <2>2. /\ seats' = [seats EXCEPT ![r] = [seats[r] EXCEPT ![i] = p]]
        /\ at' = [at EXCEPT ![p] = <<r, i>>] /\ UNCHANGED <<ready, ingame, hasty>>
    BY <1>16 DEF EnterRoom
  <2> HIDE DEF p, i
  <2> QED
    BY <2>1, <2>2, <2>4, <2>5, SeatGiven
<1>17. ASSUME NEW r \in Rooms, RoomIn(r) PROVE Seats'
  BY <1>17 DEF RoomIn, Seats, SeatOfRec, ReadySits, RoundIsFull, RecOfSeat, Taken
<1>18. ASSUME NEW r \in Rooms, RoomCall(r) PROVE Seats'
  <2>1. work[r].player \in Players
    BY <1>18, ShapeTypes DEF RoomCall, Shapes, WorkShape
  <2> QED
    BY <1>18, <2>1, MessageKeepsSeats DEF RoomCall
<1>19. ASSUME NEW r \in Rooms, RoomApply(r) PROVE Seats'
  BY <1>19 DEF RoomApply, Seats, SeatOfRec, ReadySits, RoundIsFull, RecOfSeat, Taken
<1>20. CASE UNCHANGED vars
  BY <1>20 DEF vars, Seats, SeatOfRec, ReadySits, RoundIsFull, RecOfSeat, Taken
<1> QED
  BY <1>1, <1>2, <1>3, <1>4, <1>5, <1>6, <1>7, <1>8, <1>9, <1>10,
     <1>11, <1>12, <1>13, <1>14, <1>15, <1>16, <1>17, <1>18, <1>19, <1>20
     DEF Next, Client, Game, Enter, Room

(* A player that never asked too soon stays in one place of the way into a *)
(* room, and in no goroutine's hands there.                                *)
LEMMA PlacesStep ==
  ASSUME TypeOK, Shapes, Shapes', Places, Records, [Next]_vars
  PROVE  Places'
<1>1. ASSUME NEW p \in Players, Connect(p) PROVE Places'
  BY <1>1, Names, ShapeTypes DEF Connect, Places, Place, QueuedOnce, Coming,
       Enqueues, Queued, Sends, Works, Ends, TypeOK, Shapes, GameShape,
       EnterShape, WorkShape
<1>2. ASSUME NEW p \in Players, Reconnect(p) PROVE Places'
  BY <1>2, Names, ShapeTypes DEF Reconnect, Places, Place, QueuedOnce, Coming,
       Enqueues, Queued, Sends, Works, Ends, TypeOK, Shapes, GameShape,
       EnterShape, WorkShape
<1>3. ASSUME NEW p \in Players, MatchRoom(p) PROVE Places'
  BY <1>3, Names, ShapeTypes DEF MatchRoom, Queues, TooSoon, Places, Place,
       QueuedOnce, Coming, Enqueues, Queued, Sends, Works, Ends, TypeOK,
       Shapes, GameShape, EnterShape, WorkShape
<1>4. ASSUME NEW p \in Players, CloseAgent(p) PROVE Places'
  <2>1. game = Idle /\ (p \notin hasty /\ room[p] # None => ~Coming(p))
    BY <1>4 DEF CloseAgent, Records, Record
  <2>2. /\ game' = IF room[p] # None THEN Doing("disconnect", p, None) ELSE Idle
        /\ UNCHANGED <<asked, hasty, queue, enter, work>>
    BY <1>4 DEF CloseAgent
  <2>3. /\ ~Enqueues(p)' /\ (room[p] = None => ~Ends(p)')
        /\ \A q \in Players : /\ ~Sends(q)' /\ (Ends(q)' => q = p) /\ ~Enqueues(q)'
                              /\ Queued(q)' <=> Queued(q)
                              /\ Works(q)' <=> Works(q)
    BY <2>2, Names, ShapeTypes DEF Enqueues, Queued, Sends, Works, Ends
  <2>4. ASSUME NEW q \in Players \ hasty PROVE Place(q)'
    <3>1. Coming(q)' => Coming(q)
      BY <2>2, <2>3 DEF Coming
    <3> QED
      BY <2>1, <2>2, <2>3, <3>1 DEF Places, Place
  <2>5. QueuedOnce'
    BY <2>2 DEF Places, QueuedOnce
  <2> QED
    BY <2>2, <2>4, <2>5 DEF Places
<1>5. ASSUME NEW p \in Players, NEW k \in Kinds, DoGame(p, k) PROVE Places'
  <2>1. game = Idle /\ (p \notin hasty => ~Coming(p))
    BY <1>5 DEF DoGame, Records, Record
  <2>2. /\ game' = Doing("send", room[p], <<p, k>>)
        /\ UNCHANGED <<asked, hasty, queue, enter, work>>
    BY <1>5 DEF DoGame
  <2>3. game'.do = "send" /\ game'.arg = <<p, k>>
    BY <2>2, ShapeTypes
  <2>4. \A q \in Players : /\ (Sends(q)' => q = p) /\ ~Ends(q)' /\ ~Enqueues(q)'
                           /\ Queued(q)' <=> Queued(q)
                           /\ Works(q)' <=> Works(q)
    BY <2>2, <2>3 DEF Enqueues, Queued, Sends, Works, Ends
  <2>5. ASSUME NEW q \in Players \ hasty PROVE Place(q)'
    <3>1. Coming(q)' => Coming(q)
      BY <2>2, <2>4 DEF Coming
    <3> QED
      BY <2>1, <2>2, <2>4, <3>1 DEF Places, Place
  <2>6. QueuedOnce'
    BY <2>2 DEF Places, QueuedOnce
  <2> QED
    BY <2>2, <2>5, <2>6 DEF Places
<1>6. CASE Enqueue
  BY <1>6, Names, ShapeTypes DEF Enqueue, Places, Place, QueuedOnce, Coming,
       Enqueues, Queued, Sends, Works, Ends, TypeOK, Shapes, GameShape,
       EnterShape, WorkShape
<1>7. CASE Continue
  <2>1. PICK p \in Players : p = game.player /\ game.do = "continue"
    BY <1>7, ShapeTypes DEF Continue, Shapes, GameShape
  <2>2. /\ game' = IF Closes(p) THEN Doing("apply", p, None) ELSE Idle
        /\ UNCHANGED <<asked, hasty, queue, enter, work>>
    BY <1>7, <2>1 DEF Continue
  <2>3. Closes(p) /\ p \notin hasty => ~Coming(p)
    BY DEF Closes, Records, Record
  <2>4. \A q \in Players : /\ (Ends(q)' => q = p /\ Closes(p)) /\ ~Sends(q)' /\ ~Enqueues(q)'
                           /\ Queued(q)' <=> Queued(q)
                           /\ Works(q)' <=> Works(q)
    BY <2>2, Names, ShapeTypes DEF Enqueues, Queued, Sends, Works, Ends
  <2>5. ASSUME NEW q \in Players \ hasty PROVE Place(q)'
    <3>1. Coming(q)' => Coming(q)
      BY <2>2, <2>4 DEF Coming
    <3> QED
      BY <2>2, <2>3, <2>4, <3>1 DEF Places, Place
  <2>6. QueuedOnce'
    BY <2>2 DEF Places, QueuedOnce
  <2> QED
    BY <2>2, <2>5, <2>6 DEF Places
<1>8. CASE CallDisconnect
  BY <1>8, Names, ShapeTypes DEF CallDisconnect, Places, Place, QueuedOnce,
       Coming, Enqueues, Queued, Sends, Works, Ends, TypeOK, Shapes, GameShape,
       EnterShape, WorkShape
<1>9. CASE GameApply
  BY <1>9, Names, ShapeTypes DEF GameApply, Leave, Places, Place, QueuedOnce,
       Coming, Enqueues, Queued, Sends, Works, Ends, TypeOK, Shapes, GameShape,
       EnterShape, WorkShape
<1>10. CASE LookAtQueue
  BY <1>10, Names, ShapeTypes DEF LookAtQueue, Places, Place, QueuedOnce,
       Coming, Enqueues, Queued, Sends, Works, Ends, TypeOK, Shapes, GameShape,
       EnterShape, WorkShape
<1>11. CASE Take
  BY <1>11, Names, ShapeTypes DEF Take, Places, Place, QueuedOnce, Coming,
       Enqueues, Queued, Sends, Works, Ends, TypeOK, Shapes, GameShape,
       EnterShape, WorkShape
<1>12. CASE PlayerInit
  BY <1>12, Names, ShapeTypes DEF PlayerInit, Places, Place, QueuedOnce,
       Coming, Enqueues, Queued, Sends, Works, Ends, TypeOK, Shapes, GameShape,
       EnterShape, WorkShape
<1>13. CASE NoRoomFree
  BY <1>13, Names, ShapeTypes DEF NoRoomFree, Places, Place, QueuedOnce,
       Coming, Enqueues, Queued, Sends, Works, Ends, TypeOK, Shapes, GameShape,
       EnterShape, WorkShape
<1>14. CASE SetRoom
  BY <1>14, Names, ShapeTypes DEF SetRoom, Places, Place, QueuedOnce, Coming,
       Enqueues, Queued, Sends, Works, Ends, TypeOK, Shapes, GameShape,
       EnterShape, WorkShape
<1>15. CASE Join
  BY <1>15, Names, ShapeTypes DEF Join, Places, Place, QueuedOnce, Coming,
       Enqueues, Queued, Sends, Works, Ends, TypeOK, Shapes, GameShape,
       EnterShape, WorkShape
<1>16. ASSUME NEW r \in Rooms, EnterRoom(r) PROVE Places'
  BY <1>16, Names, ShapeTypes DEF EnterRoom, Places, Place, QueuedOnce, Coming,
       Enqueues, Queued, Sends, Works, Ends, TypeOK, Shapes, GameShape,
       EnterShape, WorkShape
<1>17. ASSUME NEW r \in Rooms, RoomIn(r) PROVE Places'
  BY <1>17, Names, ShapeTypes, SMTT(20) DEF RoomIn, Places, Place, QueuedOnce,
       Coming, Enqueues, Queued, Sends, Works, Ends, TypeOK, Shapes, GameShape,
       EnterShape, WorkShape
<1>18. ASSUME NEW r \in Rooms, RoomCall(r) PROVE Places'
  BY <1>18, Names, ShapeTypes, SMTT(20) DEF RoomCall, Places, Place,
       QueuedOnce, Coming, Enqueues, Queued, Sends, Works, Ends, TypeOK,
       Shapes, GameShape, EnterShape, WorkShape
<1>19. ASSUME NEW r \in Rooms, RoomApply(r) PROVE Places'
  BY <1>19, Names, ShapeTypes DEF RoomApply, Leave, Places, Place, QueuedOnce,
       Coming, Enqueues, Queued, Sends, Works, Ends, TypeOK, Shapes, GameShape,
       EnterShape, WorkShape
<1>20. CASE UNCHANGED vars
  BY <1>20 DEF vars, Places, Place, QueuedOnce, Coming, Enqueues, Queued,
       Sends, Works, Ends
<1> QED
  BY <1>1, <1>2, <1>3, <1>4, <1>5, <1>6, <1>7, <1>8, <1>9, <1>10,
     <1>11, <1>12, <1>13, <1>14, <1>15, <1>16, <1>17, <1>18, <1>19, <1>20
     DEF Next, Client, Game, Enter, Room

(* Go's records follow the virtual machine.                                *)

(* Room.Leave takes one player out.                                        *)
LEMMA LeaveEffects ==
  ASSUME TypeOK, NEW p \in Players, Leave(p)
  PROVE  /\ room'[p] = None /\ queue' = queue
         /\ \A q \in Players \ {p} :
              room'[q] = room[q] /\ \A r \in Rooms : q \in members'[r] <=> q \in members[r]
BY DEF Leave, TypeOK

(* A player whom the step does not concern keeps its record.               *)
LEMMA OthersKeep ==
  ASSUME TypeOK, NEW q \in Players, Record(q), at'[q] = at[q], room'[q] =
       room[q],
         \A r \in Rooms : q \in members[r] => q \in members'[r],
         Applying(q) <=> Applying(q)', Coming(q)' => Coming(q),
         enter'.player = q => enter' = enter, enter.player = q => enter' = enter
  PROVE  Record(q)'
BY Names, ShapeTypes DEF Record, TypeOK

(* Go's records follow those of the virtual machine in every step.         *)
LEMMA RecordsStep ==
  ASSUME TypeOK, LuaOK, Shapes, Shapes', Seats, Places, Records,
       [Next]_vars
  PROVE  Records'
<1>1. ASSUME NEW p \in Players, Connect(p) PROVE Records'
  BY <1>1, Names, ShapeTypes DEF Connect, Records, Record, Coming, Applying,
       Enqueues, Queued, TypeOK, Shapes, GameShape, EnterShape, WorkShape
<1>2. ASSUME NEW p \in Players, Reconnect(p) PROVE Records'
  BY <1>2, Names, ShapeTypes DEF Reconnect, Records, Record, Coming, Applying,
       Enqueues, Queued, TypeOK, Shapes, GameShape, EnterShape, WorkShape
<1>3. ASSUME NEW p \in Players, MatchRoom(p) PROVE Records'
  BY <1>3, Names, ShapeTypes DEF MatchRoom, Queues, TooSoon, Records, Record,
       Coming, Applying, Enqueues, Queued, TypeOK, Shapes, GameShape,
       EnterShape, WorkShape
<1>4. ASSUME NEW p \in Players, CloseAgent(p) PROVE Records'
  BY <1>4, Names, ShapeTypes DEF CloseAgent, Records, Record, Coming,
       Applying, Enqueues, Queued, TypeOK, Shapes, GameShape, EnterShape,
       WorkShape
<1>5. ASSUME NEW p \in Players, NEW k \in Kinds, DoGame(p, k) PROVE Records'
  BY <1>5, Names, ShapeTypes DEF DoGame, Records, Record, Coming, Applying,
       Enqueues, Queued, TypeOK, Shapes, GameShape, EnterShape, WorkShape
<1>6. CASE Enqueue
  BY <1>6, Names, ShapeTypes DEF Enqueue, Records, Record, Coming, Applying,
       Enqueues, Queued, TypeOK, Shapes, GameShape, EnterShape, WorkShape
<1>7. CASE Continue
  BY <1>7, Names, ShapeTypes DEF Continue, Closes, Records, Record, Coming,
       Applying, Enqueues, Queued, TypeOK, Shapes, GameShape, EnterShape,
       WorkShape
<1>8. CASE CallDisconnect
  <2>1. PICK p \in Players : p = game.player /\ (p \notin hasty => Record(p))
    BY <1>8, ShapeTypes DEF CallDisconnect, Shapes, GameShape, WorkShape,
         Records
  <2>8. PICK lv \in BOOLEAN : lv <=> Leaves(game.player)
    OBVIOUS
  <2>2. IF lv THEN at'[p] = NoSeat /\ \A q \in Players \ {p} : at'[q] = at[q]
              ELSE at' = at
    BY <1>8, <2>1, <2>8, DisconnectKeepsSeats DEF CallDisconnect
  <2>3. UNCHANGED <<room, members, queue, enter>>
    BY <1>8 DEF CallDisconnect
  <2>4. p \notin hasty /\ enter.player = p => enter.do = "join"
    BY <1>8, <2>1 DEF CallDisconnect, Places, Place, Coming, Ends, Works
  <2>5. /\ \A q \in Players : /\ q # p \/ ~lv => (Applying(q) <=> Applying(q)')
                              /\ Coming(q)' => Coming(q)
        /\ lv => Applying(p)'
    BY <1>8, <2>1, <2>3, <2>8, Names, ShapeTypes DEF CallDisconnect, Applying,
         Coming, Enqueues, Queued, TypeOK
  <2>6. \A q \in Players \ hasty : q # p \/ ~lv => Record(q)'
    BY <2>2, <2>3, <2>5, OthersKeep DEF Records
  <2>7. p \notin hasty /\ lv => Record(p)'
    BY <2>1, <2>2, <2>3, <2>4, <2>5 DEF Record
  <2>10. hasty' = hasty
    BY <1>8 DEF CallDisconnect
  <2> QED
    BY <2>1, <2>6, <2>7, <2>10 DEF Records
<1>9. CASE GameApply
  <2>1. PICK p \in Players : /\ p = game.player /\ Leave(p)
                             /\ p \notin hasty => at[p] = NoSeat /\ Record(p)
    BY <1>9, ShapeTypes DEF GameApply, Shapes, GameShape, WorkShape, Records,
         Record, Applying
  <2>2. UNCHANGED <<at, enter>>
    BY <1>9 DEF GameApply
  <2>3. p \notin hasty /\ enter.player = p => enter.do = "join"
    BY <1>9, <2>1 DEF GameApply, Places, Place, Coming, Ends, Works
  <2>4. /\ room'[p] = None /\ queue' = queue
        /\ \A q \in Players \ {p} :
              room'[q] = room[q] /\ \A r1 \in Rooms : q \in members'[r1] <=> q \in members[r1]
    BY <2>1, LeaveEffects
  <2>5. \A q \in Players \ {p} : /\ Applying(q) <=> Applying(q)'
                                 /\ Coming(q)' => Coming(q)
    BY <1>9, <2>1, <2>2, <2>4, Names, ShapeTypes DEF GameApply, Applying,
         Coming, Enqueues, Queued, TypeOK
  <2>6. Coming(p)' => Coming(p)
    BY <1>9, <2>1, <2>2, <2>4, ShapeTypes DEF GameApply, Coming, Enqueues,
         Queued
  <2>7. \A q \in Players \ (hasty \cup {p}) : Record(q)'
    BY <2>2, <2>4, <2>5, OthersKeep DEF Records
  <2>8. NoSeat[1] = None
    BY DEF NoSeat
  <2>9. p \notin hasty => Record(p)'
    BY <2>1, <2>2, <2>3, <2>4, <2>6, <2>8 DEF Record
  <2>10. hasty' = hasty
    BY <1>9 DEF GameApply
  <2> QED
    BY <2>7, <2>9, <2>10 DEF Records
<1>10. CASE LookAtQueue
  BY <1>10, Names, ShapeTypes DEF LookAtQueue, Records, Record, Coming,
       Applying, Enqueues, Queued, TypeOK, Shapes, GameShape, EnterShape,
       WorkShape
<1>11. CASE Take
  BY <1>11, Names, ShapeTypes DEF Take, Records, Record, Coming, Applying,
       Enqueues, Queued, TypeOK, Shapes, GameShape, EnterShape, WorkShape
<1>12. CASE PlayerInit
  BY <1>12, Names, ShapeTypes DEF PlayerInit, Records, Record, Coming,
       Applying, Enqueues, Queued, TypeOK, Shapes, GameShape, EnterShape,
       WorkShape
<1>13. CASE NoRoomFree
  BY <1>13, Names, ShapeTypes DEF NoRoomFree, Records, Record, Coming,
       Applying, Enqueues, Queued, TypeOK, Shapes, GameShape, EnterShape,
       WorkShape
<1>14. CASE SetRoom
  <2>1. PICK p \in Players, a \in Rooms :
          /\ p = enter.player /\ a = enter.arg /\ enter.do = "set"
          /\ p \notin hasty => Record(p)
    BY <1>14, ShapeTypes DEF SetRoom, Shapes, EnterShape, Records
  <2>2. /\ room' = [room EXCEPT ![p] = a] /\ UNCHANGED <<at, members, queue, game, work>>
        /\ enter' = Doing("join", p, a)
    BY <1>14, <2>1, ShapeTypes DEF SetRoom, Shapes, EnterShape, Doing, Idle
  <2>3. p \notin hasty => at[p][1] = a /\ ~Enqueues(p) /\ ~Queued(p) /\ ~Applying(p)
    BY <2>1 DEF Record, Places, Place, Coming, Works, Ends, Applying
  <2>4. enter'.do = "join" /\ enter'.player = p
    BY <2>2, ShapeTypes
  <2>5. \A q \in Players \ hasty : /\ Applying(q) <=> Applying(q)'
                                   /\ Coming(q)' => Coming(q) /\ q # p
    BY <2>1, <2>2, <2>3, <2>4 DEF Applying, Coming, Enqueues, Queued
  <2>6. \A q \in Players \ (hasty \cup {p}) : Record(q)'
    <3>1. \A q \in Players \ {p} : room'[q] = room[q]
      BY <2>2 DEF TypeOK
    <3>2. enter.player = p
      BY <2>1
    <3> QED
      BY <2>2, <2>4, <2>5, <3>1, <3>2, OthersKeep DEF Records
  <2>7. ASSUME p \notin hasty PROVE Record(p)'
    <3>1. room'[p] = a
      BY <2>1, <2>2 DEF TypeOK
    <3> QED
      BY <2>1, <2>2, <2>3, <2>4, <2>5, <2>7, <3>1 DEF Record
  <2>8. hasty' = hasty
    BY <1>14 DEF SetRoom
  <2> QED
    BY <2>6, <2>7, <2>8 DEF Records
<1>15. CASE Join
  BY <1>15, Names, ShapeTypes DEF Join, Records, Record, Coming, Applying,
       Enqueues, Queued, TypeOK, Shapes, GameShape, EnterShape, WorkShape
<1>16. ASSUME NEW r \in Rooms, EnterRoom(r) PROVE Records'
  <2>1. PICK p \in Players : /\ p = enter.player /\ enter.do = "seat"
                             /\ p \notin hasty => Record(p)
    BY <1>16, ShapeTypes DEF EnterRoom, Shapes, EnterShape, Records
  <2>2. /\ \E i : at' = [at EXCEPT ![p] = <<r, i>>]
        /\ UNCHANGED <<room, members, queue, game, work>>
        /\ enter' = Doing("set", p, r)
    BY <1>16, <2>1 DEF EnterRoom
  <2>3. p \notin hasty => Coming(p) /\ ~Applying(p) /\ ~Enqueues(p) /\ ~Queued(p)
    BY <2>1 DEF Coming, Applying, Places, Place, Works, Ends
  <2>4. enter'.do = "set" /\ enter'.player = p /\ enter'.arg = r
    BY <2>2, ShapeTypes
  <2>5. \A q \in Players : /\ Applying(q) <=> Applying(q)'
                           /\ Coming(q)' => Coming(q)
    BY <2>1, <2>2, <2>3, <2>4 DEF Applying, Coming, Enqueues, Queued
  <2>6. \A q \in Players \ (hasty \cup {p}) : Record(q)'
    <3>1. \A q \in Players \ {p} : at'[q] = at[q]
      BY <2>2 DEF TypeOK
    <3> QED
      BY <2>1, <2>2, <2>4, <2>5, <3>1, OthersKeep DEF Records
  <2>7. ASSUME p \notin hasty PROVE Record(p)'
    <3>1. at'[p][1] = r
      BY <2>1, <2>2 DEF TypeOK
    <3>2. room[p] = None
      BY <2>1, <2>3, <2>7 DEF Record
    <3> QED
      BY <2>2, <2>3, <2>4, <2>5, <2>7, <3>1, <3>2 DEF Record
  <2>8. hasty' = hasty
    BY <1>16 DEF EnterRoom
  <2> QED
    BY <2>6, <2>7, <2>8 DEF Records
<1>17. ASSUME NEW r \in Rooms, RoomIn(r) PROVE Records'
  <2>1. /\ game.do = "send" /\ game' = Idle /\ work[r] = Idle
        /\ UNCHANGED <<at, room, members, queue, enter>>
    BY <1>17 DEF RoomIn
  <2>2. /\ work'[r].do = "call"
        /\ \A s \in Rooms \ {r} : work'[s] = work[s]
    BY <1>17, ShapeTypes DEF RoomIn, TypeOK
  <2>3. \A q \in Players : Applying(q) <=> Applying(q)'
    BY <2>1, <2>2, ShapeTypes DEF Applying
  <2>4. \A q \in Players : Coming(q)' => Coming(q)
    BY <2>1, ShapeTypes DEF Coming, Enqueues, Queued
  <2>10. hasty' = hasty
    BY <1>17 DEF RoomIn
  <2> QED
    BY <2>1, <2>3, <2>4, <2>10, OthersKeep DEF Records
<1>18. ASSUME NEW r \in Rooms, RoomCall(r) PROVE Records'
  <2>1. PICK p \in Players : p = work[r].player /\ (p \notin hasty => Record(p))
    BY <1>18, ShapeTypes DEF RoomCall, Shapes, GameShape, WorkShape, Records
  <2>8. PICK lv \in BOOLEAN : lv <=> work[r].arg = "leave" /\ Leaves(work[r].player)
    OBVIOUS
  <2>2. IF lv THEN at'[p] = NoSeat /\ \A q \in Players \ {p} : at'[q] = at[q]
              ELSE at' = at
    BY <1>18, <2>1, <2>8, MessageKeepsSeats DEF RoomCall
  <2>3. UNCHANGED <<room, members, queue, enter>>
    BY <1>18 DEF RoomCall
  <2>4. p \notin hasty /\ enter.player = p => enter.do = "join"
    BY <1>18, <2>1 DEF RoomCall, Places, Place, Coming, Ends, Works
  <2>5. /\ \A q \in Players : /\ q # p \/ ~lv => (Applying(q) <=> Applying(q)')
                              /\ Coming(q)' => Coming(q)
        /\ lv => Applying(p)'
    BY <1>18, <2>1, <2>3, <2>8, Names, ShapeTypes DEF RoomCall, Applying,
         Coming, Enqueues, Queued, TypeOK
  <2>6. \A q \in Players \ hasty : q # p \/ ~lv => Record(q)'
    BY <2>2, <2>3, <2>5, OthersKeep DEF Records
  <2>7. p \notin hasty /\ lv => Record(p)'
    BY <2>1, <2>2, <2>3, <2>4, <2>5 DEF Record
  <2>10. hasty' = hasty
    BY <1>18 DEF RoomCall
  <2> QED
    BY <2>1, <2>6, <2>7, <2>10 DEF Records
<1>19. ASSUME NEW r \in Rooms, RoomApply(r) PROVE Records'
  <2>1. PICK p \in Players : /\ p = work[r].player /\ Leave(p)
                             /\ p \notin hasty => at[p] = NoSeat /\ Record(p)
    BY <1>19, ShapeTypes DEF RoomApply, Shapes, GameShape, WorkShape, Records,
         Record, Applying
  <2>2. UNCHANGED <<at, enter>>
    BY <1>19 DEF RoomApply
  <2>3. p \notin hasty /\ enter.player = p => enter.do = "join"
    BY <1>19, <2>1 DEF RoomApply, Places, Place, Coming, Ends, Works
  <2>4. /\ room'[p] = None /\ queue' = queue
        /\ \A q \in Players \ {p} :
              room'[q] = room[q] /\ \A r1 \in Rooms : q \in members'[r1] <=> q \in members[r1]
    BY <2>1, LeaveEffects
  <2>5. \A q \in Players \ {p} : /\ Applying(q) <=> Applying(q)'
                                 /\ Coming(q)' => Coming(q)
    BY <1>19, <2>1, <2>2, <2>4, Names, ShapeTypes DEF RoomApply, Applying,
         Coming, Enqueues, Queued, TypeOK
  <2>6. Coming(p)' => Coming(p)
    BY <1>19, <2>1, <2>2, <2>4, ShapeTypes DEF RoomApply, Coming, Enqueues,
         Queued
  <2>7. \A q \in Players \ (hasty \cup {p}) : Record(q)'
    BY <2>2, <2>4, <2>5, OthersKeep DEF Records
  <2>8. NoSeat[1] = None
    BY DEF NoSeat
  <2>9. p \notin hasty => Record(p)'
    BY <2>1, <2>2, <2>3, <2>4, <2>6, <2>8 DEF Record
  <2>10. hasty' = hasty
    BY <1>19 DEF RoomApply
  <2> QED
    BY <2>7, <2>9, <2>10 DEF Records
<1>20. CASE UNCHANGED vars
  BY <1>20 DEF vars, Records, Record, Coming, Applying, Enqueues, Queued
<1> QED
  BY <1>1, <1>2, <1>3, <1>4, <1>5, <1>6, <1>7, <1>8, <1>9, <1>10,
     <1>11, <1>12, <1>13, <1>14, <1>15, <1>16, <1>17, <1>18, <1>19, <1>20
     DEF Next, Client, Game, Enter, Room

(* The inductive invariant.                                                *)
LEMMA Initially == Init => EntryInv
<1> SUFFICES ASSUME Init PROVE EntryInv
  OBVIOUS
<1> USE DEF Init
<1>1. Shapes
  BY DEF Shapes, GameShape, EnterShape, WorkShape
<1>2. GoOK /\ LuaOK
  BY Names DEF GoOK, LuaOK
<1>3. StepsOK /\ work \in [Rooms -> Steps]
  BY ShapeTypes DEF StepsOK
<1>4. TypeOK
  BY <1>2, <1>3 DEF TypeOK, GoOK, LuaOK, StepsOK
<1>5. Seats
  <2>1. \A p \in Players, r \in Rooms, i \in Seat :
          seats[r][i] # p /\ at[p] # <<r, i>>
    BY Names DEF NoSeat
  <2>2. 1 \in Seat /\ \A r \in Rooms : ready[r] = {} /\ ~ingame[r]
    BY Names DEF Seat
  <2> QED
    BY <2>1, <2>2 DEF Seats, SeatOfRec, ReadySits, RoundIsFull, RecOfSeat
<1>6. Places
  BY Names, ShapeTypes DEF Places, Place, QueuedOnce, Coming, Enqueues, Queued,
       Sends, Works, Ends
<1>7. Records
  BY Names, ShapeTypes DEF Records, Record, Coming, Enqueues, Queued,
       Applying, NoSeat
<1> QED
  BY <1>1, <1>4, <1>5, <1>6, <1>7 DEF EntryInv

(* Every step keeps the inductive invariant.                               *)
LEMMA InvStep == EntryInv /\ [Next]_vars => EntryInv'
<1> SUFFICES ASSUME EntryInv, [Next]_vars PROVE EntryInv'
  OBVIOUS
<1>1. TypeOK /\ Shapes /\ Seats /\ Places /\ Records
  BY DEF EntryInv
<1>2. LuaOK
  BY <1>1 DEF TypeOK, LuaOK
<1>3. TypeOK' /\ Shapes'
  BY <1>1, TypeStep
<1>4. Seats'
  BY <1>1, <1>2, SeatsStep
<1>5. Places'
  BY <1>1, <1>3, PlacesStep
<1>6. Records'
  BY <1>1, <1>2, <1>3, RecordsStep
<1> QED
  BY <1>3, <1>4, <1>5, <1>6 DEF EntryInv

(* Every reachable state satisfies the inductive invariant.                *)
LEMMA InvHolds == Spec => []EntryInv
BY Initially, InvStep, PTL DEF Spec

-----------------------------------------------------------------------------
(* Where a player sits is one thing that Player.Room, Room.Players and the *)
(* virtual machine agree on when no goroutine is in the middle of changing *)
(* it, and a player never has two seats (queue.go, room.go, game.lua).     *)
THEOREM SeatsAreKept == Spec => []SeatsInv
<1>1. ASSUME EntryInv PROVE SeatsInv
  <2>1. TypeOK /\ Shapes /\ Seats /\ Records
    BY <1>1 DEF EntryInv
  <2>2. ASSUME NEW p \in Players \ hasty, Settled(p)
        PROVE  /\ room[p] = at[p][1]
               /\ room[p] # None => p \in members[room[p]]
    <3>1. enter.player # p /\ ~Applying(p) /\ Record(p)
      BY <2>1, <2>2 DEF Settled, Applying, Records
    <3>2. \A r : Doing("join", p, r).player = p
      BY ShapeTypes
    <3> QED
      BY <3>1, <3>2 DEF Record
  <2>3. OneSeat
    BY <2>1 DEF OneSeat, Seats, SeatOfRec, RecOfSeat, RoundIsFull
  <2> QED
    BY <2>1, <2>2, <2>3 DEF SeatsInv, RoomsAgree
<1> QED
  BY <1>1, InvHolds, PTL

(* Go can reach everybody who plays in a round: the seat is found in the   *)
(* virtual machine and the packets of the player go to its room.           *)
THEOREM RoundsAreReachable == Spec => []RoundIsReachable
<1>1. ASSUME EntryInv PROVE RoundIsReachable
  <2>1. TypeOK /\ Seats /\ Records
    BY <1>1 DEF EntryInv
  <2>2. ASSUME NEW r \in Rooms, NEW i \in Seat, ingame[r], seats[r][i] \notin hasty
        PROVE  /\ seats[r][i] # None
               /\ at[seats[r][i]] = <<r, i>>
               /\ room[seats[r][i]] = r \/ enter.player = seats[r][i]
    <3>1. i \in Taken(r)
      BY <2>1, <2>2 DEF Seats, RoundIsFull
    <3>2. PICK p \in Players \ hasty : seats[r][i] = p /\ p # None
      BY <2>1, <2>2, <3>1 DEF Taken, TypeOK
    <3>3. at[p] = <<r, i>> /\ Record(p)
      BY <2>1, <3>2 DEF Seats, RecOfSeat, Records
    <3>4. at[p] # NoSeat /\ at[p][1] = r
      BY <3>3, Names DEF NoSeat
    <3>5. room[p] = r \/ enter.player = p
      BY <3>3, <3>4 DEF Record
    <3> QED
      BY <3>2, <3>3, <3>5
  <2> QED
    BY <2>2 DEF RoundIsReachable
<1> QED
  BY <1>1, InvHolds, PTL

(* A close_player command never reaches a player who has meanwhile come to *)
(* sit somewhere else: Room.Leave follows the loss of the seat, and only   *)
(* enterRoom gives a new room.                                             *)
THEOREM LeaveFollowsSeat == Spec => LeavesAfterSeat
<1> DEFINE A == \A p \in Players \ hasty' :
                  room[p] # None /\ room'[p] # room[p] => at[p] = NoSeat /\ room'[p] = None
<1>1. ASSUME EntryInv, Next PROVE A
  <2> SUFFICES ASSUME NEW p \in Players \ hasty', room[p] # None, room'[p] # room[p]
               PROVE  at[p] = NoSeat /\ room'[p] = None
    OBVIOUS
  <2>1. TypeOK /\ Shapes /\ Record(p)
    BY <1>1, HastyGrows DEF EntryInv, Records
  <2>2. GameApply \/ SetRoom \/ \E r \in Rooms : RoomApply(r)
    BY <1>1 DEF Next, Client, Game, Enter, Room, Connect, Reconnect,
         MatchRoom, CloseAgent, DoGame,
       Enqueue, Continue, CallDisconnect, LookAtQueue, Take, PlayerInit,
       NoRoomFree, Join, EnterRoom,
       RoomIn, RoomCall
  <2>3. CASE GameApply
    <3>1. game.player \in Players
      BY <2>1, <2>3, ShapeTypes DEF GameApply, Shapes, GameShape
    <3>2. game.player = p /\ room'[p] = None
      BY <2>1, <2>3, <3>1 DEF GameApply, Leave, TypeOK
    <3> QED
      BY <2>1, <2>3, <3>2 DEF GameApply, Record, Applying
  <2>4. CASE SetRoom
    <3>1. enter.player = p /\ enter.do = "set"
      BY <2>1, <2>4 DEF SetRoom, TypeOK
    <3> QED
      BY <2>1, <3>1 DEF Record, Coming
  <2>5. ASSUME NEW r \in Rooms, RoomApply(r) PROVE at[p] = NoSeat /\ room'[p]
       = None
    <3>1. work[r].player \in Players
      BY <2>1, <2>5, ShapeTypes DEF RoomApply, Shapes, WorkShape
    <3>2. work[r].player = p /\ room'[p] = None
      BY <2>1, <2>5, <3>1 DEF RoomApply, Leave, TypeOK
    <3> QED
      BY <2>1, <2>5, <3>2 DEF RoomApply, Record, Applying
  <2> QED
    BY <2>2, <2>3, <2>4, <2>5
<1>2. ASSUME EntryInv, UNCHANGED vars PROVE A
  BY <1>2 DEF vars
<1>3. EntryInv /\ [Next]_vars => [A]_vars
  BY <1>1, <1>2
<1> HIDE DEF A
<1>4. Spec => [][A]_vars
  BY <1>3, InvHolds, PTL DEF Spec
<1> QED
  BY <1>4 DEF LeavesAfterSeat, A
=============================================================================
