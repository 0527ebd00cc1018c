------------------------------ MODULE Gateway -------------------------------
(***************************************************************************)
(* The way of a connection through the server and the way the server       *)
(* stops.  The gate (leaf/gate/gate.go) runs two servers of connections,   *)
(* one for websockets and one for TCP (leaf/network/ws_server.go,          *)
(* tcp_server.go); each connection has a goroutine that reads messages and *)
(* routes them to the game or to the hall (gate/router.go), and the game   *)
(* is told of the connection's begin and end.  At shutdown the modules     *)
(* (leaf/module/module.go) are destroyed in the reverse of the order in    *)
(* which main.go lists them, while all this goes on.                       *)
(*                                                                         *)
(* Abstracted: what a connection does with its bytes (module TcpConn); the *)
(* loops of game and hall (module Skeleton), which here execute a call in  *)
(* one step; rooms, of which only matters who has one and since when       *)
(* (module RoomEntry).  A connection is of one player, a player has one.   *)
(***************************************************************************)
EXTENDS Integers, Sequences, FiniteSets

CONSTANTS Ws, Tcp,   (* the connections there can be, by kind                *)
          MaxConnNum,
          ChanCap,   (* ChanRPCLen                                           *)
          MaxMsgs    (* BOUND: messages of each connection                   *)

ASSUME KindsAssumption == Ws \cap Tcp = {}
ASSUME BoundsAssumption == /\ {MaxConnNum, ChanCap} \subseteq Nat \ {0}
                           /\ MaxMsgs \in [Ws \cup Tcp -> Nat]

Conns   == Ws \cup Tcp
Servers == {"ws", "tcp"}
Kind(c) == IF c \in Ws THEN "ws" ELSE "tcp"
Mods    == <<"hall", "game", "gate">>    (* as main.go lists them            *)

VARIABLES
  pc,       (* per connection, what the server is doing with it:             *)
            (*  "none", "backlog"  not there, not accepted or upgraded yet   *)
            (*  "found", "listed"  accepted, in conns but not yet counted    *)
            (*  "announce"         about to tell the game of it              *)
            (*  "read"             its goroutine waits for a message, or     *)
            (*  "login", "enter"   sends one to hall or game                 *)
            (*  "cleanup", "leave", "called", "over"  from its last read to  *)
            (*                     the answer of CloseAgent                  *)
            (*  "gone"                                                       *)
  shut,     (* connections closed by either side: reads fail                 *)
  reads,    (* per connection: messages read                                 *)
  listening,(* servers whose listener is open                                *)
  accepting,(* is run() of the TCP server still in its loop                  *)
  conns,    (* server -> its set of connections                              *)
  nilled,   (* servers whose conns is nil                                    *)
  wg,       (* server -> its wait group for connections                      *)
  queue,    (* game and hall: ChanCall                                       *)
  closed,   (* modules whose ChanCall is closed                              *)
  life, served,         (* what the game has heard, see AgentLife            *)
  userData,             (* connections with a player as user data            *)
  waiting,  (* per connection: entries of its player in waitQueue            *)
  room,     (* connections whose player has a room                           *)
  entered, offline,     (* HISTORY: those whose player asked for a room      *)
                        (* through them, and was reported to be offline      *)
  late,     (* HISTORY: those that had ended when their player got a room    *)
  stopping, (* has the signal to stop come                                   *)
  down,     (* number of modules destroyed                                   *)
  gate      (* how far Close of the servers is                               *)

connVars == <<shut, reads, listening, accepting>>
setVars  == <<conns, nilled, wg>>
roomVars == <<waiting, room, late>>
modVars  == <<queue, closed, life, served, userData, entered, offline, roomVars>>
stopVars == <<stopping, down, gate>>
vars     == <<pc, connVars, setVars, modVars, stopVars>>

Init ==
  /\ pc = [c \in Conns |-> "none"]
  /\ shut = {} /\ reads = [c \in Conns |-> 0]
  /\ listening = Servers /\ accepting = TRUE
  /\ conns = [s \in Servers |-> {}] /\ nilled = {}
  /\ wg = [s \in Servers |-> 0]
  /\ queue = [m \in {"game", "hall"} |-> <<>>] /\ closed = {}
  /\ life = [c \in Conns |-> "none"] /\ served = [c \in Conns |-> 0]
  /\ userData = {} /\ entered = {} /\ offline = {}
  /\ waiting = [c \in Conns |-> 0] /\ room = {} /\ late = {}
  /\ stopping = FALSE /\ down = 0 /\ gate = "run"

At(c, step) == pc' = [pc EXCEPT ![c] = step]

-----------------------------------------------------------------------------
(* Clients.                                                                *)

Dial(c) ==
  /\ pc[c] = "none" /\ Kind(c) \in listening
  /\ At(c, "backlog")
  /\ UNCHANGED <<connVars, setVars, modVars, stopVars>>

(* That the client is gone shows when the server upgrades or reads.        *)
HangUp(c) ==
  /\ pc[c] \in {"backlog", "read"} /\ c \notin shut
  /\ shut' = shut \cup {c}
  /\ UNCHANGED <<pc, reads, listening, accepting, setVars, modVars, stopVars>>

-----------------------------------------------------------------------------
(* The servers.  All TCP connections are accepted by one goroutine, which  *)
(* goes on to the next when the game has been told of the last; for a      *)
(* websocket there is a goroutine from the start, which may be anywhere    *)
(* when the listener is closed.                                            *)

InHand == {c \in Tcp : pc[c] \in {"found", "listed", "announce"}}

Accept(c) ==
  /\ c \in Tcp /\ pc[c] = "backlog" /\ "tcp" \in listening
  /\ accepting /\ InHand = {}
  /\ At(c, "found")
  /\ UNCHANGED <<connVars, setVars, modVars, stopVars>>

AcceptEnds ==
  /\ accepting /\ "tcp" \notin listening /\ InHand = {}
  /\ accepting' = FALSE
  /\ UNCHANGED <<pc, shut, reads, listening, setVars, modVars, stopVars>>

Upgrade(c) ==
  /\ c \in Ws /\ pc[c] = "backlog"
  /\ At(c, "found")
  /\ wg' = [wg EXCEPT !["ws"] = @ + 1]
  /\ UNCHANGED <<connVars, conns, nilled, modVars, stopVars>>

UpgradeFails(c) ==
  /\ c \in Ws /\ pc[c] = "backlog" /\ c \in shut
  /\ At(c, "gone")
  /\ UNCHANGED <<connVars, setVars, modVars, stopVars>>

(* Only the websocket handler looks whether conns is nil; for TCP the loop *)
(* has to be over by then, as an entry in a nil map is a panic.            *)
HasRoom(s) ==
  /\ s = "ws" => s \notin nilled
  /\ Cardinality(conns[s]) < MaxConnNum

(* Both under mutexConns.                                                  *)
Admit(c) ==
  /\ pc[c] = "found" /\ HasRoom(Kind(c))
  /\ conns' = [conns EXCEPT ![Kind(c)] = @ \cup {c}]
  /\ At(c, IF c \in Tcp THEN "listed" ELSE "announce")
  /\ UNCHANGED <<connVars, nilled, wg, modVars, stopVars>>

RefuseForgets(c) ==   (* MUTANT: wg.Done only at the end of the handler      *)
  /\ pc[c] = "found" /\ ~HasRoom(Kind(c))
  /\ shut' = shut \cup {c} /\ At(c, "gone")
  /\ UNCHANGED <<reads, listening, accepting, setVars, modVars, stopVars>>
Refuse(c) ==
  /\ pc[c] = "found" /\ ~HasRoom(Kind(c))
  /\ shut' = shut \cup {c} /\ At(c, "gone")
  /\ wg' = IF c \in Ws THEN [wg EXCEPT !["ws"] = @ - 1] ELSE wg
  /\ UNCHANGED <<reads, listening, accepting, conns, nilled, modVars, stopVars>>

Count(c) ==
  /\ c \in Tcp /\ pc[c] = "listed" /\ At(c, "announce")
  /\ wg' = [wg EXCEPT !["tcp"] = @ + 1]
  /\ UNCHANGED <<connVars, conns, nilled, modVars, stopVars>>

(* A send into ChanCall waits for room.  On a closed channel it panics: Go *)
(* recovers and the message is lost.                                       *)
CanSend(m) == m \in closed \/ Len(queue[m]) < ChanCap
Send(m, c, what) ==
  queue' = IF m \in closed THEN queue
           ELSE [queue EXCEPT ![m] = Append(@, [conn |-> c, what |-> what])]

AnnounceTries(c) ==   (* MUTANT: does not wait for room in the channel       *)
  /\ pc[c] = "announce" /\ At(c, "read")
  /\ IF CanSend("game") THEN Send("game", c, "new") ELSE UNCHANGED queue
  /\ UNCHANGED <<connVars, setVars, closed, life, served, userData, entered,
                 offline, roomVars, stopVars>>
Announce(c) ==
  /\ pc[c] = "announce" /\ CanSend("game")
  /\ Send("game", c, "new") /\ At(c, "read")
  /\ UNCHANGED <<connVars, setVars, closed, life, served, userData, entered,
                 offline, roomVars, stopVars>>

-----------------------------------------------------------------------------
(* The goroutine of a connection.  What the other side sent, or the        *)
(* websocket has buffered, may still be read after the connection is shut. *)

Read(c, what) ==
  /\ pc[c] = "read" /\ reads[c] < MaxMsgs[c]
  /\ reads' = [reads EXCEPT ![c] = @ + 1] /\ At(c, what)
  /\ UNCHANGED <<shut, listening, accepting, setVars, modVars, stopVars>>

RouteOf(what) == IF what = "login" THEN "hall" ELSE "game"

Route(c) ==
  /\ pc[c] \in {"login", "enter"} /\ CanSend(RouteOf(pc[c]))
  /\ Send(RouteOf(pc[c]), c, pc[c]) /\ At(c, "read")
  /\ UNCHANGED <<connVars, setVars, closed, life, served, userData, entered,
                 offline, roomVars, stopVars>>

(* The connection is shut, or a message cannot be decoded or routed.       *)
ReadFails(c) ==
  /\ pc[c] = "read" /\ At(c, "cleanup")
  /\ UNCHANGED <<connVars, setVars, modVars, stopVars>>

Remove(c) ==
  /\ pc[c] = "cleanup" /\ At(c, "leave")
  /\ shut' = shut \cup {c}
  /\ conns' = [conns EXCEPT ![Kind(c)] = @ \ {c}]
  /\ UNCHANGED <<reads, listening, accepting, nilled, wg, modVars, stopVars>>

(* OnClose: Call0, which waits for the answer.                             *)
OnCloseGo(c) ==      (* MUTANT: with Go, without waiting                     *)
  /\ pc[c] = "leave" /\ CanSend("game")
  /\ Send("game", c, "close") /\ At(c, "over")
  /\ UNCHANGED <<connVars, setVars, closed, life, served, userData, entered,
                 offline, roomVars, stopVars>>
OnClose(c) ==
  /\ pc[c] = "leave" /\ CanSend("game")
  /\ Send("game", c, "close")
  /\ At(c, IF "game" \in closed THEN "over" ELSE "called")
  /\ UNCHANGED <<connVars, setVars, closed, life, served, userData, entered,
                 offline, roomVars, stopVars>>

Done(c) ==
  /\ pc[c] = "over" /\ At(c, "gone")
  /\ wg' = [wg EXCEPT ![Kind(c)] = @ - 1]
  /\ UNCHANGED <<connVars, conns, nilled, modVars, stopVars>>

-----------------------------------------------------------------------------
(* The loops of game and hall.                                             *)

(* NewAgent does nothing.  EnterRoom takes the player the connection       *)
(* already has, or the one the message names, if there is such a player,   *)
(* and puts it into the queue if it has no room.  CloseAgent tells the     *)
(* room of the connection's player, if it has one.                         *)
Hear(c, what) ==
  /\ what = "new"
  /\ life' = [life EXCEPT ![c] = "new"]
  /\ UNCHANGED <<pc, served, userData, entered, offline, roomVars>>

AsksForRoom(c) ==
  /\ entered' = entered \cup {c}
  /\ waiting' = IF c \in room THEN waiting ELSE [waiting EXCEPT ![c] = @ + 1]

EnterRoomOnly(c, what) ==   (* MUTANT: does not set the user data            *)
  /\ what = "enter"
  /\ served' = [served EXCEPT ![c] = @ + 1]
  /\ \/ AsksForRoom(c)
     \/ c \notin userData /\ UNCHANGED <<entered, waiting>>
  /\ UNCHANGED <<pc, life, userData, offline, room, late>>
EnterRoom(c, what) ==
  /\ what = "enter"
  /\ served' = [served EXCEPT ![c] = @ + 1]
  /\ \/ AsksForRoom(c) /\ userData' = userData \cup {c}
     \/ c \notin userData /\ UNCHANGED <<userData, entered, waiting>>
  /\ UNCHANGED <<pc, life, offline, room, late>>

CloseAgent(c, what) ==
  /\ what = "close"
  /\ life' = [life EXCEPT ![c] = "closed"]
  /\ offline' = IF c \in userData \cap room THEN offline \cup {c} ELSE offline
  /\ At(c, "over")
  /\ UNCHANGED <<served, userData, entered, roomVars>>

GameExec ==
  /\ "game" \notin closed /\ queue["game"] # <<>>
  /\ LET x == Head(queue["game"])
     IN  Hear(x.conn, x.what) \/ EnterRoom(x.conn, x.what) \/ CloseAgent(x.conn, x.what)
  /\ queue' = [queue EXCEPT !["game"] = Tail(@)]
  /\ UNCHANGED <<connVars, setVars, closed, stopVars>>

(* Login, which may find the player or not.                                *)
HallExec ==
  /\ "hall" \notin closed /\ queue["hall"] # <<>>
  /\ userData' \in {userData, userData \cup {Head(queue["hall"]).conn}}
  /\ queue' = [queue EXCEPT !["hall"] = Tail(@)]
  /\ UNCHANGED <<pc, connVars, setVars, closed, life, served, entered, offline,
                 roomVars, stopVars>>

(* The goroutine of waitQueue gives a player a room, whatever has become   *)
(* of its connection meanwhile, or finds none; close_player takes it away. *)
SetRoom(c) ==
  /\ waiting[c] > 0
  /\ waiting' = [waiting EXCEPT ![c] = @ - 1]
  /\ \/ /\ room' = room \cup {c}
        /\ late' = IF life[c] = "closed" THEN late \cup {c} ELSE late
     \/ UNCHANGED <<room, late>>
  /\ UNCHANGED <<pc, connVars, setVars, queue, closed, life, served, userData,
                 entered, offline, stopVars>>

LeaveRoom(c) ==
  /\ c \in room /\ room' = room \ {c}
  /\ UNCHANGED <<pc, connVars, setVars, queue, closed, life, served, userData,
                 entered, offline, waiting, late, stopVars>>

-----------------------------------------------------------------------------
(* Shutdown.                                                               *)

Signal ==
  /\ ~stopping /\ stopping' = TRUE
  /\ UNCHANGED <<pc, connVars, setVars, modVars, down, gate>>

ToDestroy(n)           == Mods[Len(Mods) + 1 - n]
Destroying(m) == stopping /\ down < Len(Mods) /\ ToDestroy(down + 1) = m

(* Close of the server of websockets, then that of TCP connections: the    *)
(* listener; every connection; and the wait for their goroutines.          *)
CloseListener(s) ==
  /\ Destroying("gate") /\ gate = IF s = "ws" THEN "run" ELSE "ws_closed"
  /\ listening' = listening \ {s} /\ gate' = s
  /\ UNCHANGED <<pc, shut, reads, accepting, setVars, modVars, stopping, down>>

ShutAllOver(s) ==      (* MUTANT: does not wait for the accepting loop       *)
  /\ gate = s /\ s \notin nilled
  /\ shut' = shut \cup conns[s]
  /\ conns' = [conns EXCEPT ![s] = {}] /\ nilled' = nilled \cup {s}
  /\ UNCHANGED <<pc, reads, listening, accepting, wg, modVars, stopVars>>
ShutAll(s) ==
  /\ gate = s /\ s \notin nilled
  /\ s = "tcp" => ~accepting
  /\ shut' = shut \cup conns[s]
  /\ conns' = [conns EXCEPT ![s] = {}] /\ nilled' = nilled \cup {s}
  /\ UNCHANGED <<pc, reads, listening, accepting, wg, modVars, stopVars>>

Waited(s)     == wg[s] = 0
ServerClosed(s) ==
  /\ gate = s /\ s \in nilled /\ Waited(s)
  /\ gate' = IF s = "ws" THEN "ws_closed" ELSE "closed"
  /\ down' = IF s = "tcp" THEN down + 1 ELSE down
  /\ UNCHANGED <<pc, connVars, setVars, modVars, stopping>>

(* A call that still waits is answered with an error, a message is lost.   *)
CloseSkeleton(m) ==
  /\ Destroying(m)
  /\ closed' = closed \cup {m} /\ down' = down + 1
  /\ queue' = [queue EXCEPT ![m] = <<>>]
  /\ pc' = [c \in Conns |->
              IF \E i \in DOMAIN queue[m] : queue[m][i] = [conn |-> c, what |-> "close"]
              THEN "over" ELSE pc[c]]
  /\ UNCHANGED <<connVars, setVars, life, served, userData, entered, offline,
                 roomVars, stopping, gate>>

-----------------------------------------------------------------------------
Serve(c)     == Accept(c) \/ Upgrade(c) \/ Admit(c) \/ Refuse(c) \/ Count(c) \/ Announce(c)
Goroutine(c) == Route(c) \/ ReadFails(c) \/ Remove(c) \/ OnClose(c) \/ Done(c)

Next ==
  \/ \E c \in Conns : \/ Dial(c) \/ HangUp(c) \/ UpgradeFails(c)
                      \/ Serve(c) \/ Goroutine(c)
                      \/ \E what \in {"login", "enter"} : Read(c, what)
                      \/ SetRoom(c) \/ LeaveRoom(c)
  \/ AcceptEnds \/ GameExec \/ HallExec \/ Signal
  \/ \E s \in Servers : CloseListener(s) \/ ShutAll(s) \/ ServerClosed(s)
  \/ \E m \in {"game", "hall"} : CloseSkeleton(m)

Spec == Init /\ [][Next]_vars

-----------------------------------------------------------------------------
(* Properties.                                                             *)

Open      == {"listed", "announce", "read", "login", "enter", "cleanup"}
Leaving   == {"leave", "called", "over"}
Steps     == {"none", "backlog", "found", "gone"} \cup Open \cup Leaving
Of(s, S)  == {c \in Conns : Kind(c) = s /\ pc[c] \in S}

TypeOK ==
  /\ pc \in [Conns -> Steps]
  /\ shut \subseteq Conns /\ reads \in [Conns -> Nat] /\ \A c \in Conns : reads[c] <= MaxMsgs[c]
  /\ listening \subseteq Servers /\ accepting \in BOOLEAN
  /\ conns \in [Servers -> SUBSET Conns] /\ nilled \subseteq Servers
  /\ wg \in [Servers -> Nat]
  /\ queue \in [{"game", "hall"} ->
                  Seq([conn : Conns, what : {"new", "login", "enter", "close"}])]
  /\ \A m \in {"game", "hall"} : Len(queue[m]) <= ChanCap
  /\ closed \subseteq {"game", "hall"}
  /\ life \in [Conns -> {"none", "new", "closed"}] /\ served \in [Conns -> Nat]
  /\ userData \subseteq Conns /\ entered \subseteq Conns /\ offline \subseteq Conns
  /\ waiting \in [Conns -> Nat] /\ room \subseteq Conns /\ late \subseteq Conns
  /\ stopping \in BOOLEAN /\ down \in 0..Len(Mods)
  /\ gate \in {"run", "ws", "ws_closed", "tcp", "closed"}

(* The set of connections holds those being served until they are cleaned  *)
(* up, never more than the limit, and nothing any more once it is nil:     *)
(* neither a websocket that comes late nor a TCP connection gets in.       *)
Registered ==
  \A s \in Servers :
    /\ Cardinality(Of(s, Open)) <= MaxConnNum
    /\ conns[s] = IF s \in nilled THEN {} ELSE Of(s, Open)
    /\ "tcp" \in nilled => Of("tcp", {"found", "listed", "announce"}) = {}

(* Close of a server waits for every goroutine that serves one of its      *)
(* connections, the ones that are no longer in the set included; the wait  *)
(* group counts them exactly.                                              *)
CloseWaits ==
  /\ gate \in {"ws_closed", "tcp", "closed"} => Of("ws", Open \cup Leaving) = {}
  /\ gate = "closed" => Of("tcp", Open \cup Leaving) = {}
  /\ wg["ws"] = Cardinality(Of("ws", Open \cup Leaving \cup {"found"}))
  /\ wg["tcp"] = Cardinality(Of("tcp", (Open \ {"listed"}) \cup Leaving))

(* The servers keep their books, and so close when the last is gone.       *)
ServerInv == TypeOK /\ Registered /\ CloseWaits

(* When the game's turn to close comes, all that was sent to it has been   *)
(* executed, and nobody sends to it any more, neither while it closes nor  *)
(* on the closed channel.                                                  *)
GameClosesEmpty ==
  Destroying("game") \/ "game" \in closed =>
    /\ queue["game"] = <<>>
    /\ \A c \in Conns : pc[c] \notin {"announce", "login", "enter", "leave", "called"}

(* At the end the game has heard the end of every connection whose begin   *)
(* it heard, and every connection that was served has been heard of.       *)
HeardOut ==
  down = Len(Mods) => \A c \in Conns : /\ life[c] # "new"
                                       /\ reads[c] > 0 => life[c] = "closed"

(* The game hears all there is to hear, before it closes.                  *)
GameHearsAll == GameClosesEmpty /\ HeardOut

(* A player that has a room and no connection any more was reported to be  *)
(* offline when the connection it came through ended, although hall and    *)
(* game both set the user data and read their messages from channels of    *)
(* their own; unless it was still queued then, and got the room later, in  *)
(* which case nobody reports it (chanrpc.go:30).                           *)
OfflineReported ==
  \A c \in entered \cap room : life[c] = "closed" => c \in offline \cup late

(* What the game hears of a connection is in order.                        *)
Agents == INSTANCE AgentLife
KeepsAgentLife == Agents!LSpec

(* What some goroutine of the server waits for is there: each line is the  *)
(* guard of the actions beside it.  No step of a client is among them, and *)
(* a read comes back only from a connection that is shut.                  *)
Moves ==
  \/ \E c \in Conns :
       \/ pc[c] \in {"found", "cleanup", "over"}   (* Admit, Refuse, Remove, Done *)
       \/ pc[c] = "read" /\ c \in shut                         (* ReadFails       *)
       \/ pc[c] = "listed" /\ c \in Tcp                        (* Count           *)
       \/ pc[c] = "backlog" /\ c \in Ws                        (* Upgrade         *)
       \/ pc[c] \in {"announce", "leave"} /\ CanSend("game")   (* Announce, OnClose *)
       \/ pc[c] \in {"login", "enter"} /\ CanSend(RouteOf(pc[c]))       (* Route  *)
  \/ accepting /\ "tcp" \notin listening /\ InHand = {}        (* AcceptEnds      *)
  \/ \E m \in {"game", "hall"} :                               (* GameExec,       *)
       /\ m \notin closed /\ queue[m] # <<>>                   (* HallExec        *)
       /\ m = "game" => Head(queue[m]).what # "login"
  \/ Destroying("gate") /\ gate \in {"run", "ws_closed"}       (* CloseListener   *)
  \/ \E s \in Servers :
       /\ gate = s
       /\ IF s \in nilled THEN Waited(s)                       (* ServerClosed    *)
                          ELSE s = "tcp" => ~accepting         (* ShutAll         *)
  \/ Destroying("game") \/ Destroying("hall")                  (* CloseSkeleton   *)

Stopped ==
  /\ down = Len(Mods) /\ ~accepting
  /\ \A c \in Conns : pc[c] \in {"none", "backlog", "gone"}
  /\ \A m \in {"game", "hall"} : queue[m] = <<>>

(* A shutdown never waits for ever, neither for a client nor in a circle   *)
(* of goroutines, channels and wait groups: until the server has stopped,  *)
(* every connection it accepted has come to its end and nothing is left in *)
(* a channel, some goroutine of its own can go on.  Every such step moves  *)
(* a connection, a message or the shutdown forward, so the end is reached  *)
(* as long as goroutines run.                                              *)
NobodyBlocks == stopping => Moves \/ Stopped
=============================================================================
