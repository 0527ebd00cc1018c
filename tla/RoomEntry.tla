------------------------------ MODULE RoomEntry ------------------------------
(***************************************************************************)
(* How a player gets into a room and out of it.  The fact "player p is in  *)
(* room r" is kept three times: in the Go player (Player.Room), in the Go  *)
(* room (Room.Players) and as a seat inside the Lua virtual machine.  It   *)
(* is changed by several goroutines: the game module's (CsEnterRoom,       *)
(* packets, CloseAgent), the one that takes players from the wait queue    *)
(* (enterRoom), and one per room (Room.run).                               *)
(*                                                                         *)
(* A call into the virtual machine is one step; what Go does before and    *)
(* after it, and the commands the call returned, are steps of their own.   *)
(* Room.Leave, run under the room's lock, is one step.                     *)
(*                                                                         *)
(* Abstracted: one virtual machine; of a round only that it starts when    *)
(* all seats are ready and ends with a packet of a player (module DdzRoom  *)
(* has the round); of the commands only close_player.                      *)
(***************************************************************************)
EXTENDS Integers, FiniteSets, Sequences

CONSTANTS Players, Rooms, None,
          Size,       (* seats of a room, 3 in the code                      *)
          QueueCap,   (* capacity of WaitQueue, 10000 in the code            *)
          StopAt,     (* length at which enterRoom returns, 9999 in the code *)
          DEBUG,      (* of the scripts, TRUE as they are in the repository  *)
          HalfOpen,   (* the players that may be back before their old       *)
                      (* connection is seen to be closed                     *)
          Hurried     (* BOUND: the players that may ask to enter too soon,  *)
                      (* each of them once                                   *)

ASSUME NamesAssumption == None \notin Players \cup Rooms
ASSUME SizesAssumption == /\ Size \in Nat \ {0}
                          /\ QueueCap \in Nat \ {0} /\ StopAt \in Nat
ASSUME FlagsAssumption == DEBUG \in BOOLEAN /\ HalfOpen \cup Hurried \subseteq Players

Seat   == 1..Size
NoSeat == <<None, 0>>
Kinds  == {"ready", "leave", "play"}

VARIABLES
  conn,     (* player -> is its agent connected                             *)
  old,      (* player -> is an earlier agent of it still to be closed       *)
  asked,    (* player -> has it asked to enter and not been served yet      *)
  hasty,    (* HISTORY: the players that asked to enter too soon            *)
  room,     (* Player.Room                                                  *)
  members,  (* Room.Players                                                 *)
  queue,    (* WaitQueue                                                    *)
  at,       (* Lua player record: <<its room, its seat_index>>              *)
  online,   (* Lua player record: online                                    *)
  seats,    (* Lua room -> seat -> the player seated                        *)
  ready,    (* Lua room -> the seats that are ready                         *)
  ingame,   (* Lua room -> is a round on                                    *)
  game,     (* what the game module's goroutine is doing                    *)
  enter,    (* what enterRoom is doing                                      *)
  work      (* room -> what its goroutine is doing                          *)

client == <<conn, old, asked, hasty>>
gostate == <<room, members, queue>>
lua    == <<at, online, seats, ready, ingame>>
vars   == <<client, gostate, lua, game, enter, work>>

Doing(what, p, k) == [do |-> what, player |-> p, arg |-> k]
Idle == Doing("idle", None, None)

Taken(r) == {i \in Seat : seats[r][i] # None}

(* Room.Leave, by the goroutine that applies close_player of p; nothing    *)
(* happens if the player has no room.                                      *)
LeaveStays(p) ==      (* MUTANT: forgets SetRoom(nil)                        *)
  /\ members' = [r \in Rooms |-> IF r = room[p] THEN members[r] \ {p} ELSE members[r]]
  /\ UNCHANGED <<room, queue>>
Leave(p) ==
  /\ room' = [room EXCEPT ![p] = None]
  /\ members' = [r \in Rooms |-> IF r = room[p] THEN members[r] \ {p} ELSE members[r]]
  /\ UNCHANGED queue

-----------------------------------------------------------------------------
(* Calls into the virtual machine.                                         *)

(* make_player_leave: gives up the seat of p and asks to close the player. *)
(* MUTANT: also in the middle of a round.                                  *)
LeavesAlways(p) == at[p] # NoSeat
Leaves(p) == at[p] # NoSeat /\ ~ingame[at[p][1]]

GiveUpSeat(p) ==
  LET r == at[p][1]  i == at[p][2]
  IN  /\ seats' = [seats EXCEPT ![r][i] = None]
      /\ ready' = [ready EXCEPT ![r] = @ \ {i}]
      /\ at' = [at EXCEPT ![p] = NoSeat]
      /\ UNCHANGED <<online, ingame>>

(* on_cs_ready_game: the last seat to be ready starts the round.           *)
GetReady(p) ==
  LET r == at[p][1]
      now == ready[r] \cup {at[p][2]}
  IN  /\ ready' = [ready EXCEPT ![r] = now]
      /\ ingame' = [ingame EXCEPT ![r] = now = Seat]
      /\ UNCHANGED <<at, online, seats>>

(* A packet of the round; it may be the last one.                          *)
PlayOn(p) ==
  \/ UNCHANGED lua
  \/ /\ ready' = [ready EXCEPT ![at[p][1]] = {}]
     /\ ingame' = [ingame EXCEPT ![at[p][1]] = FALSE]
     /\ UNCHANGED <<at, online, seats>>

(* onmessage, called by the goroutine of a room: the packets that are not  *)
(* for the player's state are ignored.                                     *)
InRound(p)  == at[p] # NoSeat /\ ingame[at[p][1]]
MayReady(p) == at[p] # NoSeat /\ ~ingame[at[p][1]]

OnMessage(p, k) ==
  \/ k = "leave" /\ Leaves(p) /\ GiveUpSeat(p)
  \/ k = "ready" /\ MayReady(p) /\ GetReady(p)
  \/ k = "play" /\ InRound(p) /\ PlayOn(p)
  \/ /\ k = "leave" => ~Leaves(p)
     /\ k = "ready" => ~MayReady(p)
     /\ k = "play" => ~InRound(p)
     /\ UNCHANGED lua

(* player_disconnect: between rounds the seat is given up, in a round the  *)
(* player is marked as offline.                                            *)
PlayerDisconnect(p) ==
  IF Leaves(p) THEN GiveUpSeat(p)
  ELSE /\ online' = [online EXCEPT ![p] = @ /\ at[p] = NoSeat]
       /\ UNCHANGED <<at, seats, ready, ingame>>

-----------------------------------------------------------------------------
(* Clients and connections.                                                *)

Connect(p) ==
  /\ ~conn[p]
  /\ conn' = [conn EXCEPT ![p] = TRUE]
  /\ UNCHANGED <<old, asked, hasty, gostate, lua, game, enter, work>>

Reconnect(p) ==
  /\ p \in HalfOpen /\ conn[p] /\ ~old[p]
  /\ old' = [old EXCEPT ![p] = TRUE]
  /\ UNCHANGED <<conn, asked, hasty, gostate, lua, game, enter, work>>

-----------------------------------------------------------------------------
(* The goroutine of the game module: one call at a time.                   *)

(* matchRoom: a player without a room joins the wait queue, one with a     *)
(* room continues its game.                                                *)
Queues(p) == room[p] = None

(* A second request before the first is served, as after a reconnect, or   *)
(* while a room still has a packet of the player, the leave packet that    *)
(* was answered already among them: nothing in the code prevents it.       *)
TooSoon(p) == Queues(p) /\ (asked[p] \/ \E r \in Rooms : work[r].player = p)

MatchRoom(p) ==
  /\ game = Idle /\ conn[p]
  /\ TooSoon(p) => p \in Hurried \ hasty
  /\ hasty' = IF TooSoon(p) THEN hasty \cup {p} ELSE hasty
  /\ game' = Doing(IF Queues(p) THEN "enqueue" ELSE "continue", p, None)
  /\ asked' = [asked EXCEPT ![p] = Queues(p) \/ @]
  /\ UNCHANGED <<conn, old, gostate, lua, enter, work>>

(* The send to the wait queue blocks while the queue is full.              *)
Enqueue ==
  /\ game.do = "enqueue" /\ Len(queue) < QueueCap
  /\ queue' = Append(queue, game.player)
  /\ game' = Idle
  /\ UNCHANGED <<client, room, members, lua, enter, work>>

(* player_continue_game; if the player has lost its room meanwhile the     *)
(* handler panics and the module's goroutine recovers.  If only the script *)
(* knows no room any more it closes the player, but for DEBUG, when it     *)
(* fails in the output before that.                                        *)
Closes(p) == room[p] # None /\ at[p] = NoSeat /\ ~DEBUG

Continue ==
  /\ game.do = "continue"
  /\ online' = [online EXCEPT ![game.player] = @ \/ room[game.player] # None]
  /\ game' = IF Closes(game.player) THEN Doing("apply", game.player, None) ELSE Idle
  /\ UNCHANGED <<client, gostate, at, seats, ready, ingame, enter, work>>

(* doGame: the packet is handed to the goroutine of the player's room.     *)
DoGame(p, k) ==
  /\ game = Idle /\ conn[p] /\ room[p] # None
  /\ game' = Doing("send", room[p], <<p, k>>)
  /\ UNCHANGED <<client, gostate, lua, enter, work>>

(* rpcCloseAgent, for the player's agent or for an earlier one.            *)
CloseAgent(p) ==
  /\ game = Idle
  /\ \/ old[p] /\ old' = [old EXCEPT ![p] = FALSE] /\ UNCHANGED conn
     \/ conn[p] /\ ~old[p] /\ conn' = [conn EXCEPT ![p] = FALSE] /\ UNCHANGED old
  /\ game' = IF room[p] # None THEN Doing("disconnect", p, None) ELSE Idle
  /\ UNCHANGED <<asked, hasty, gostate, lua, enter, work>>

(* The first MUTANT closes a player the script has not let go, the second  *)
(* waits for the end of the player's round.                                *)
DisconnectCloses ==
  /\ game.do = "disconnect"
  /\ PlayerDisconnect(game.player)
  /\ game' = Doing("apply", game.player, None)
  /\ UNCHANGED <<client, gostate, enter, work>>
DisconnectWaits ==
  /\ game.do = "disconnect"
  /\ IF InRound(game.player) THEN UNCHANGED <<lua, game>>
     ELSE /\ PlayerDisconnect(game.player)
          /\ game' = IF Leaves(game.player) THEN Doing("apply", game.player, None) ELSE Idle
  /\ UNCHANGED <<client, gostate, enter, work>>
CallDisconnect ==
  /\ game.do = "disconnect"
  /\ PlayerDisconnect(game.player)
  /\ game' = IF Leaves(game.player) THEN Doing("apply", game.player, None) ELSE Idle
  /\ UNCHANGED <<client, gostate, enter, work>>

GameApply ==
  /\ game.do = "apply"
  /\ Leave(game.player)
  /\ game' = Idle
  /\ UNCHANGED <<client, lua, enter, work>>

-----------------------------------------------------------------------------
(* The goroutine of a room: Room.run and HandleResult.                     *)

RoomIn(r) ==
  /\ game.do = "send" /\ game.player = r
  /\ work[r] = Idle
  /\ work' = [work EXCEPT ![r] = Doing("call", game.arg[1], game.arg[2])]
  /\ game' = Idle
  /\ UNCHANGED <<client, gostate, lua, enter>>

RoomCall(r) ==
  /\ work[r].do = "call"
  /\ OnMessage(work[r].player, work[r].arg)
  /\ work' = [work EXCEPT ![r] =
       IF @.arg = "leave" /\ Leaves(@.player) THEN Doing("apply", @.player, None) ELSE Idle]
  /\ UNCHANGED <<client, gostate, game, enter>>

RoomApply(r) ==
  /\ work[r].do = "apply"
  /\ Leave(work[r].player)
  /\ work' = [work EXCEPT ![r] = Idle]
  /\ UNCHANGED <<client, lua, game, enter>>

-----------------------------------------------------------------------------
(* The goroutine enterRoom.                                                *)

(* It looks at the length of the queue before it takes the next player,    *)
(* and returns for good if the queue is too long.                          *)
TooLong(n) == n >= StopAt

LookAtQueue ==
  /\ enter = Idle
  /\ enter' = Doing(IF TooLong(Len(queue)) THEN "stopped" ELSE "take", None, None)
  /\ UNCHANGED <<client, gostate, lua, game, work>>

Take ==
  /\ enter.do = "take" /\ queue # <<>>
  /\ enter' = Doing("init", Head(queue), None)
  /\ queue' = Tail(queue)
  /\ UNCHANGED <<client, room, members, lua, game, work>>

(* player_init: a new Lua record, without a seat, replaces the player's.   *)
PlayerInit ==
  /\ enter.do = "init"
  /\ at' = [at EXCEPT ![enter.player] = NoSeat]
  /\ online' = [online EXCEPT ![enter.player] = TRUE]
  /\ enter' = [enter EXCEPT !.do = "seat"]
  /\ UNCHANGED <<client, gostate, seats, ready, ingame, game, work>>

(* player_enter_room: any room that is not full gives its first free seat. *)
(* A room that is not full has no round on (FullTable of DdzRoom).         *)
EnterRoom(r) ==
  LET p == enter.player
      i == CHOOSE j \in Seat \ Taken(r) : \A k \in Seat \ Taken(r) : j <= k
  IN  /\ enter.do = "seat" /\ Taken(r) # Seat
      /\ seats' = [seats EXCEPT ![r][i] = p]
      /\ at' = [at EXCEPT ![p] = <<r, i>>]
      /\ enter' = Doing("set", p, r)
      /\ UNCHANGED <<client, gostate, online, ready, ingame, game, work>>

(* No room is free: the player is dropped without an answer.               *)
NoRoomFree ==
  /\ enter.do = "seat" /\ \A r \in Rooms : Taken(r) = Seat
  /\ asked' = [asked EXCEPT ![enter.player] = FALSE]
  /\ enter' = Idle
  /\ UNCHANGED <<conn, old, hasty, gostate, lua, game, work>>

SetRoom ==
  /\ enter.do = "set"
  /\ room' = [room EXCEPT ![enter.player] = enter.arg]
  /\ enter' = [enter EXCEPT !.do = "join"]
  /\ UNCHANGED <<client, members, queue, lua, game, work>>

(* Room.Join; the answer to the client is sent after it.                   *)
Join ==
  /\ enter.do = "join"
  /\ members' = [members EXCEPT ![enter.arg] = @ \cup {enter.player}]
  /\ asked' = [asked EXCEPT ![enter.player] = FALSE]
  /\ enter' = Idle
  /\ UNCHANGED <<conn, old, hasty, room, queue, lua, game, work>>

-----------------------------------------------------------------------------
Init ==
  /\ conn = [p \in Players |-> FALSE] /\ old = conn /\ asked = conn /\ hasty = {}
  /\ room = [p \in Players |-> None]
  /\ members = [r \in Rooms |-> {}]
  /\ queue = <<>>
  /\ at = [p \in Players |-> NoSeat]
  /\ online = [p \in Players |-> TRUE]
  /\ seats = [r \in Rooms |-> [i \in Seat |-> None]]
  /\ ready = [r \in Rooms |-> {}]
  /\ ingame = [r \in Rooms |-> FALSE]
  /\ game = Idle /\ enter = Idle
  /\ work = [r \in Rooms |-> Idle]

Client(p) == \/ Connect(p) \/ Reconnect(p) \/ MatchRoom(p) \/ CloseAgent(p)
             \/ \E k \in Kinds : DoGame(p, k)
Game  == Enqueue \/ Continue \/ CallDisconnect \/ GameApply
Enter == \/ LookAtQueue \/ Take \/ PlayerInit \/ NoRoomFree \/ SetRoom \/ Join
         \/ \E r \in Rooms : EnterRoom(r)
Room(r) == RoomIn(r) \/ RoomCall(r) \/ RoomApply(r)

Next == \/ \E p \in Players : Client(p)
        \/ Game \/ Enter
        \/ \E r \in Rooms : Room(r)

Spec == Init /\ [][Next]_vars

(* The goroutines run; clients may do nothing for ever.                    *)
FairSpec == /\ Spec
            /\ WF_vars(Game) /\ WF_vars(Enter)
            /\ \A r \in Rooms : WF_vars(Room(r))

-----------------------------------------------------------------------------
(* Properties.                                                             *)

Steps == [do : {"idle", "enqueue", "continue", "send", "disconnect", "apply",
                "call", "take", "init", "seat", "set", "join", "stopped"},
          player : Players \cup Rooms \cup {None},
          arg : Rooms \cup {None} \cup Kinds \cup (Players \X Kinds)]

(* Every goroutine is at one of its steps with what that step needs, and   *)
(* the queue keeps its capacity.                                           *)
TypeOK ==
  /\ conn \in [Players -> BOOLEAN] /\ old \in [Players -> BOOLEAN]
  /\ asked \in [Players -> BOOLEAN] /\ hasty \subseteq Players
  /\ room \in [Players -> Rooms \cup {None}]
  /\ members \in [Rooms -> SUBSET Players]
  /\ queue \in Seq(Players) /\ Len(queue) <= QueueCap
  /\ at \in [Players -> (Rooms \X Seat) \cup {NoSeat}]
  /\ online \in [Players -> BOOLEAN]
  /\ seats \in [Rooms -> [Seat -> Players \cup {None}]]
  /\ ready \in [Rooms -> SUBSET Seat] /\ ingame \in [Rooms -> BOOLEAN]
  /\ game \in Steps /\ enter \in Steps /\ work \in [Rooms -> Steps]

(* No goroutine holds p between the two halves of a change.                *)
Settled(p) ==
  /\ enter.player # p
  /\ game.do \notin {"apply", "disconnect"} \/ game.player # p
  /\ \A r \in Rooms : work[r].do = "apply" => work[r].player # p

(* The three records of "p is in room r" agree when nobody is in the       *)
(* middle of changing them: Player.Room, the seat in the virtual machine   *)
(* and, at least, Room.Players; for every player that never asked too      *)
(* soon, whatever the others do.                                           *)
RoomsAgree ==
  \A p \in Players \ hasty : Settled(p) =>
    /\ room[p] = at[p][1]
    /\ room[p] # None => p \in members[room[p]]

(* A player that never asked too soon holds one seat at most (the comment  *)
(* of queue.go:102: player_enter_room allocates "a room").  Nobody ever    *)
(* loses the seat of its record to another player, and a round has a full  *)
(* table, however hasty some are.                                          *)
OneSeat ==
  /\ \A p \in Players \ hasty, r \in Rooms, i \in Seat :
       seats[r][i] = p => at[p] = <<r, i>>
  /\ \A p \in Players, r \in Rooms, i \in Seat :
       at[p] = <<r, i>> => seats[r][i] = p
  /\ \A r \in Rooms : ingame[r] => Taken(r) = Seat

(* Where a player sits is one thing that all its records say.              *)
SeatsInv == TypeOK /\ RoomsAgree /\ OneSeat

(* In every seat of a round is a player, and one that never asked too soon *)
(* can be reached: the virtual machine finds the player's seat and Go      *)
(* sends its packets to its room, or is about to.                          *)
RoundIsReachable ==
  \A r \in Rooms, i \in Seat : ingame[r] /\ seats[r][i] \notin hasty =>
    /\ seats[r][i] # None
    /\ at[seats[r][i]] = <<r, i>>
    /\ room[seats[r][i]] = r \/ enter.player = seats[r][i]

(* A player that never asked too soon is taken out of its Go room only     *)
(* after the virtual machine has given up its seat: a late close_player    *)
(* never hits a later stay.                                                *)
LeavesAfterSeat ==
  [][\A p \in Players \ hasty' :
       room[p] # None /\ room'[p] # room[p] => at[p] = NoSeat /\ room'[p] = None]_vars

(* A queued player is taken from the queue and answered or dropped: the    *)
(* comment of queue.go:14 says that 10000, the capacity, may wait.         *)
QueueIsServed == \A p \in Players : asked[p] ~> ~asked[p]

(* The module's goroutine, which serves all players, is held up for ever   *)
(* by one thing only: a queue that is full after enterRoom has given up.   *)
(* The hand-over of a packet to a room comes to its end.                   *)
QueueIsDead  == game.do = "enqueue" /\ enter.do = "stopped" /\ Len(queue) = QueueCap
GameGetsFree == game # Idle ~> game = Idle \/ QueueIsDead
=============================================================================
