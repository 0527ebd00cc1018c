# A verification project for room_game_server

`room_game_server` is a game server: a Go process (the *leaf* framework, a hall,
a game module, a database writer) that runs the rules of a card game, "dou
dizhu", as Lua scripts inside LuaJIT virtual machines. The modules in this
directory model its concurrent parts and its game rules in TLA+; TLC checks them
on small instances and TLAPS proves the theorems listed below for all values of
the constants.

How the parts meet: a connection's bytes reach the gate (`Gateway`, `TcpConn`),
which posts messages to the loops of hall and game (`Skeleton`); the game module
seats players and hands packets to room goroutines (`RoomEntry`); those call the
virtual machine (`ScriptVm`), whose scripts play the game (`DdzRoom`,
`CardPlay`); the commands a call returns start timers (`TimerBucket`) and
change players, who are written to the database (`DbWriter`).

## Inventory of the system

| Part | Source | State | Operations | What makes it hard |
|---|---|---|---|---|
| Table (room logic) | `lua/game/classic_ddz/game/game.lua` | seats, phase, turn, auction, hands, waited-for actions | enter, leave, ready, packets of a round, timers | three players, timeouts that race answers, redeals, several phases |
| Timer bucket | `bean/timer.go`, `bean/cmd.go` | map of timers keyed by room, id, tag | `Add`, `Kill`, poll and fire | the poller calls the VM and then removes the key, others add and kill meanwhile |
| Room entry and exit | `game/internal/handler.go`, `queue.go`, `chanrpc.go`, `bean/room.go` | `Player.Room`, `Room.Players`, wait queue, seats inside the VM | `matchRoom`, `enterRoom`, `doGame`, `rpcCloseAgent`, `Leave` | three goroutines change the same player, commands are applied outside the VM |
| VM and command loop | `vm/vm.go`, `bean/cmd.go` | call channel, results, command list | `Run`, `HandleResult` | results are applied by the callers, in any order |
| Hot update | `lua/loader.go`, `vm/vm.go` | script table, update and done channels | `Watch`, `hot`, `Done` | a select with a timeout that sends on its own channel |
| Database writer | `db/write.go`, `bean/cmd.go`, `main.go` | dirty players, single-save requests, final save | single save, force save, timer save, final save | a store between write and delete, a panic of the writer, shutdown |
| Connection | `leaf/network/tcp_conn.go`, `ws_conn.go` | write channel, close flag, socket | `Write`, `Close`, `Destroy`, writer goroutine | bounded queue, sentinel, errors of the socket |
| Server of connections | `leaf/network/tcp_server.go` | listener, set of connections, wait groups | accept, cleanup, `Close` | limit on connections, shutdown while accepting |
| Message framing | `leaf/network/tcp_msg.go` | length limits | `SetMsgLen`, `Read`, `Write` | widths of integers |
| Channel RPC | `leaf/chanrpc/chanrpc.go`, `leaf/module/skeleton.go` | call channel, return channels, pending counter | `Call`, `AsynCall`, `Go`, `Exec`, `Close` | every call is answered once, also at shutdown; nobody blocks for ever |
| Linear context | `leaf/go/go.go` | list of tasks, two mutexes, callbacks | `Go`, `Cb`, `Close` | tasks run one at a time and in order, whichever goroutine gets the lock |
| Module lifecycle | `leaf/module/module.go`, `leaf/leaf.go` | modules, close signals | `Register`, `Init`, `Destroy` | order of shutdown |
| Unions | `hall/union`, `hall/mail` | `Union`, `Player.Union`, mails | create, join, exit, transfer, tick, read mail | several records updated one after the other |
| Login | `hall/login` | cache of players | login, register, location | cache against database |
| Settlement | `game.lua` `game_over` | gold of three players | settle | capped losses against winnings |

## Modules

### `DdzRoom`: one table of the landlord game

`DdzRoom` is the state machine of a table. A variable of the module is a field
of the `room` or of its `seats` in game.lua, under the field's own name;
`waiting[s]` is the list `waiting_actions` of a seat as a set; `timers` is the
part of the Go timer bucket that belongs to the room, and `fired` the timer the
bucket's goroutine holds between reading its channel and calling the VM.
`bidder` is a history variable (the last seat that called or grabbed).

An action is a whole call into the VM with the commands it returns:

| Action | Code |
|---|---|
| `Enter`, `Leave`, `Ready` | `player_enter_room`, `on_cs_leave_room` and `make_player_leave`, `on_cs_ready_game` with `helper_game_start` when the third seat is ready |
| `Mingpai`, `Jdz`, `Qdz`, `Jiabei`, `TakeTurn` | the handlers of `on_cs_game_action`, down to the next phase, the redeal or the end of the round |
| `TimerDue`, `OnTimer` | the bucket reads a due timer; the VM runs `on_timer` some calls later |

The data is abstracted to what the properties tell apart: a hand is a number of
cards, a play is its size and whether it is a bomb, the replies to mingpai, jdz
and qdz are 0 and 1. Packets to clients, logs, bots, props and the automatic
play of a seat are left out; nothing modelled reads them.

A play ends in one of three ways: refused, taken (`TakeTurn`), or broken off. The
handler asks of each card whether it is somewhere in the hand (game.lua:1725-1739), so a
packet that names a card twice passes; it is then recorded and taken card by card,
and `assert(false)` (game.lua:1755) ends the call where the second of the two is not
found (`BreakOff`). The state stays half changed, and `broken` counts such plays of the
round, one recorded card too many each. `CardPlay` has the same step with the cards.

`LandlordAuction` is the abstract auction: bids while it is open, the last
bidder becomes landlord, a deal is thrown away only if nobody has bid, and a
landlord is forced only after the counted redeals. `DdzRoom` implements it under
the mapping `AuctionPhase`.

### `RoomEntry`: into a room and out of it

That player p is in room r is recorded three times: `Player.Room` and
`Room.Players` in Go (`room`, `members`), a seat inside the virtual machine
(`at`, `seats`). Three kinds of goroutines change the records, and each is a
program counter of the module:

| Goroutine | Variable | Actions | Code |
|---|---|---|---|
| game module | `game` | `MatchRoom`, `Enqueue`, `Continue`; `DoGame`; `CloseAgent`, `CallDisconnect`, `GameApply` | `matchRoom`, `doGame` (handler.go), `rpcCloseAgent` (chanrpc.go) |
| `enterRoom` | `enter` | `LookAtQueue`, `Take`, `PlayerInit`, `EnterRoom`, `NoRoomFree`, `SetRoom`, `Join` | queue.go 73-131 |
| one per room | `work[r]` | `RoomIn`, `RoomCall`, `RoomApply` | `Room.run` (room.go), `HandleResult` (cmd.go) |

A call into the virtual machine is one step, because one goroutine runs the
machine (vm.go 94-166); what Go does before and after it are steps of their own.
The environment connects, disconnects (`CloseAgent` is also the end of a
connection) and sends. The players of `HalfOpen` may be back before the old connection
is seen to end. Nothing in the code makes a client wait for the answer to a request:
`matchRoom` only asks whether Go knows a room of the player. It knows none while the
player is queued, and it may know none while a room still has a packet of the player: a
leave packet, say, is answered with `sc_leave_room` before Go applies its `close_player`
(cmd.go:288), and a disconnect or `player_continue_game` can take the room away first. A
request in such a moment is `TooSoon`, and who has made one is `hasty` from then on (a
history variable). What such a player gets, two seats among it, is what the code does;
the properties are about everybody else, at tables with hasty players too. `Hurried`
bounds who may be hasty, in the runs only. `DEBUG` is the scripts' own: it decides whether
`player_continue_game` closes a player it knows no room of (game.lua:911, 933).
`Room.Leave` is one step: it runs under the lock of the room and its
second write, `SetRoom(nil)`, has no reader that also reads `Players`.
`EnterRoom` seats a player in any room with a free seat, between rounds: that a
room with a round on has none is theorem `TableIsSound`.

### `TimerBucket`: game timers

`bucket` is the sync.Map of bean/timer.go, `at`, `todo` and `held` the poller's
walk over it, `cmds` the timer commands each goroutine still has to apply.

| Action | Code |
|---|---|
| `Add`; `KillStop`, `KillDelete` | `TimerBucket.Add`; `Kill`, two steps: stop the timer, delete the key |
| `StartWalk`, `Visit`, `Look`, `OnTimer`, `Remove` | `Run` and `call`: range, select on the timer's channel, VM call and its commands, removal of the key |
| `Packet` | a call by the room's goroutine, which returns kill and start commands |
| `Expire` | the Go runtime puts the value into the channel of a timer |

A stopped timer whose value is already in its channel keeps it: that is what
`Stop` of Go's timers did before version 1.23, and the repository is older. Timer
objects nobody holds are used again, which keeps the state finite.

Nothing bounds how far the script runs ahead of the poller. `lead` counts the phases that
have passed while the poller is busy with one timer, `outrun` remembers that two have, and
`robbed` says that the timer of the phase was stopped or its key removed. When the poller
is outrun it can apply its `start_timer` after the room's goroutine has applied the
`kill_timer` meant for it (cmd.go:206). The stale timer fires later, `on_timer` ignores
it, and `Remove` (timer.go:63) deletes by key what may by then be the next timer of the
same key. The run reaches this, and a phase whose timer is gone waits for a packet.
`BucketInv` says that this is the only way to lose a timer: `PhaseTimerArmed`, the timer
of the phase can fire or was robbed, and `RobbedByTheLate`, only an outrun poller robs.
`DdzRoom` has commands applied with their call and is therefore the bucket's ideal;
`TimerBucket` says how far the code meets it.

### `TcpConn` and `WriteStream`: a connection's writes

`Write`, `Close` and `Destroy` of tcp_conn.go hold the mutex throughout and are
one action each; the writer goroutine (`newTCPConn`, lines 25-44) is `Take`,
`Written` or `WriteFails`, `RangeEnds`, `CloseConn`, `SetFlag`; `Lose` is the
network. `accepted` and `wire` are history variables. ws_conn.go is the same
program over a websocket.

`WriteStream` is what callers rely on: accepted messages are sent in order, each
at most once, nothing is accepted after closing, and the stream ends drained or
cut. `TcpConn` implements it with `sent <- wire`, `closing <- closeFlag` and an
end read off the state of the socket.

### `CardPlay`, `Pokers` and `PokersRules`: the cards of a round

`Pokers` is pokers.lua with a card reduced to its point: `PokersTypeCheck` says
what kind a play is, by the positions of the sorted points as the code does, and
`AutoActionPokers` what the script would play. `PokersRules` says the same without
an order: each kind by the cards it consists of. `CardPlay` is the round around
them: `Pass`, `Play` and `PlayLast` are `on_game_action_chupai` for every set of
cards a seat may try, and `PlayLast` settles as `game_over` does. Turns and
timers are those of `DdzRoom`, where a play is only a size.

### `ScriptVm`: a virtual machine and its scripts

One goroutine runs the machine (vm.go:86, `vm`): its select takes a call (`TakeCall`,
`EndCall`, `Panic`) or an update (`TakeUpdate`, `EndUpdate`). Callers are rooms, the timer
poller and the game module. The watcher (loader.go, `watch`) hears of a change
(`HearEvent`), reads the file (`ReadFile`), offers the text for a second (`Tick` is its
end), and stops when the machine has died (`HearDone`, `WatchEnds`). The file system is
`Truncate`, `Write`, `Replace`, `Delete`: an editor saves in place, in two steps, or moves
a new file over the old one. A text is its version and whether it is good; one that is bad
does not compile, or fails when it is run, and may by then have replaced definitions
(vm.go:158-161). `stale` is an error message left on the Lua stack, and `unspent` a
history count for it. The specification's names are its own (`SVInit`, `SVNext`,
`SVSpec`), so that one module can extend it and `CardPlay`.

### `Skeleton` and `CallPromise`: calls between modules

A skeleton is the loop of every leaf module. Two are composed: the client's
(`phase`, `code`, `pendingAsyn`, `asynRet`, and the tasks of leaf/go) and the
server's (`server`, `cur`, `chanCall`), with goroutines that call and post.

| Action | Code |
|---|---|
| `Handle`, `Return` | a handler or callback begins and ends |
| `AsynCall`, `TakeAnswer` | `Client.AsynCall`, `Client.Cb` |
| `Go`, `TakeLinear`, `SendCb`, `TakeCb` | `Go.Go`, `LinearContext.Go` with its two mutexes, `Go.Cb` |
| `CloseClient`, `GoClosed`, `CallsClosed` | `Skeleton.Run` closing (skeleton.go:44-51) |
| `SendCall`, `SendPanics` | the send of `Call0`..`CallN` and `Go`, also on a closed channel |
| `Exec`, `Answer`, `CloseServer`, `Drain` | `Server.Exec`, `ret`, `Server.Close` |

`CallPromise` is what a user of `AsynCall` relies on: at most so many pending, each
executed at most once and called back once with its result. The server's own
modules use the part with `Go` and `Call0` (`Route`, `NewAgent`, `CloseAgent`);
asynchronous calls and linear contexts are what the framework offers them.

### `Gateway` and `AgentLife`: connections, the gate, and shutdown

Both servers of connections, the goroutine of each connection (`pc`), the queues of
hall and game, and the destruction of the modules in reverse order
(`Signal`, `CloseListener`, `ShutAll`, `ServerClosed`, `CloseSkeleton`). The two servers
count at different moments: a websocket enters the wait group before the set, a
TCP connection after it (tcp_server.go:88-93). `EnterRoom` queues a player (`waiting`),
`SetRoom` and `LeaveRoom` are the queue's goroutine and `close_player`, at any later
moment, and `CloseAgent` reports a player offline only if it has a room then
(chanrpc.go:30). Who gets the room after its connection has ended is in `late`: nobody ever
reports it. `AgentLife` is what the game hears of
one connection: new, its messages, closed. A connection is of one player, and
`rpcCloseAgent` is assumed to return: that it waits for the virtual machine
belongs to `ScriptVm`.

### `DbWriter`: the database writer

The writer goroutine (write.go) as `StartWalk`, `Visit`, `Read`, `Commit`, `Delete`, `EndWalk`
for the walks over `WaitUpdates`, `Take`, ..., `Reply` for single saves, `Fail` and `Panic`
for a statement that goes wrong; `Change`, `Store`, `TryWrite` are the commands of a
room, `Begin` and `Answered` a game log with its links, `Stop` and `Exit` main.go. A
player's data is a version; `Read` and `Commit` are apart because the cached object
may change while its statement is on the way. `raced` and `late` are history: what
was stored between statement and delete, and what the last walk could not write.


## Runs

Mutants of definitions stand beside them in the modules, marked MUTANT; a run's
property is violated when the mutant replaces its definition. A property that is
a conjunction names its parts at its definition.

| Run | Instance | What it shows |
|---|---|---|
| `table_safety` | 3 players, 2 cards each and 1 extra, 2 counted redeals | `TableInv`, `AuctionInv`, `TimerFitsPhase`, `CardsConserved`: phase, seats waited for, timers, cards and landlord fit together in every order of packets, timers and late timers; `RoundEndsByLastCard`; the table implements `LandlordAuction` |
| `table_answers` | 1 card each and 1 extra, no counted redeal | `RoundGoesOn`: a deal reaches the auction, an auction with a bid reaches the play by timeouts alone; a round ends if players play |
| `stake_not_reset` | as `table_safety`, multiplier up to 2 | violation, see Findings |
| `entry_safety` | 2 players, 1 room of 2 seats; one player may ask too soon, the other be half open; a queue of 2 whose reader stops at 1; `DEBUG` off | `SeatsInv`: the records agree; `RoundIsReachable`: a round has reachable players; `LeavesAfterSeat`: no late close hits a later stay (all of players that never asked too soon); `GameGetsFree`: only a full queue that nobody reads holds the game module up |
| `entry_served` | 2 players, 1 room of 1 seat, a queue of 3 whose reader stops at 2 | violation of `QueueIsServed`, see Findings |
| `timer_bucket` | 3 phases with timers and one without | `BucketInv`, `PhaseEnds`: every phase keeps its timer and ends without a packet, unless the poller is outrun |
| `tcp_conn` | channel of 2, 4 writes, 2 messages | the connection implements `WriteStream`, never sends to a closed channel, and gets rid of its writer |
| `skeleton` | 2 calls of which 1 may be pending, 1 caller, 2 linear tasks, channels of 1 | `AnswerOnce`, `KeepsPromise`: every call has one answer and room for it; `LinearInOrder`; `ClosedIsQuiet`; `WorkReturns`, `PeersReleased`: whatever closes when, everyone is answered and a closing skeleton ends |
| `gateway` | 2 TCP connections and a websocket, limit 1 per server, channels of 1, up to 2 messages | `ServerInv`: the limit and the wait groups; `GameHearsAll`, `KeepsAgentLife`: nothing sent to the game is lost by the order of shutdown; `OfflineReported`: who has a room and no connection was reported, or got the room too late; `NobodyBlocks`: a shutdown waits for no client and for nothing that waits for it |
| `db_writer` | 2 players with 2 and 1 changes, 1 game log, 1 fault | `ChangesKept`: one interleaving only can forget a change; `ToldTruth`; `FinalSaveIsComplete`; `WriterServes`, `ChangesWritten` |
| `card_play` | 7 positions with all plays, 288 ends of rounds | `PlayInv`: index tests and rules agree on every set of cards; `HintIsAccepted`, `NoAnswerToAirplanes`; `FairSettlement`; hands of up to 3 cards may be played with a card named twice |
| `script_vm` | 1 script and 1 to come, 2 callers, 2 changes | `VmInv`: a bad text spoils one call, and updates arrive in the order of the saves; `VmAnswers`: calls are answered while the machine lives; `LastSaveLoaded`: the last good text is what runs |

Why the bounds are enough. The seats of a table are three in the code and in the model.
Two cards in a hand are the least with a play that does not end the round, one extra card
the least that changes a hand; the counters of cards are only compared with zero. Two
counted redeals reach the forced landlord by way of an ordinary redeal. In `RoomEntry` the
reader of the queue stops one short of its capacity, as in the code, and two players fill
it. One of them is enough to be in the other's way by asking too soon, and one room for
both a second stay and a stale packet of the first. Two rooms, and half-open connections
of both, were checked for the invariants beyond the run; the theorems have neither bound.
Three keyed phases and one without are a walk in which a key is ahead of, under and behind
the poller. Four writes fill a channel of two, with one message in the writer's hands and
one on the socket. In `Skeleton` and `Gateway` the channels hold one (10000 in
conf/conf.go), so that "full" is met at once; the messages that are only posted are in the
proofs of `Skeleton` and not in its run: two calls are one too many, two TCP connections
one more than the limit. In `DbWriter` a player that changes twice can change while its
first version is being written, and a second player is what a walk still has before it or
behind it. The positions of `card_play` are chosen by kind: each meets kinds of four and
more cards, kings and bombs; the ends meet every factor of a stake. `ScriptVm` needs two
changes for a text that is read between two saves, and two callers for one that waits
while the other is served.

`MaxBeishu`, `MaxRedeals`, `MaxWrites`, `MaxMsgs`, `MaxVersion`, `MaxFaults`, `MaxEdits`,
`Hurried` and `Deals` bound what would otherwise grow; `JiabeiReplies`, `Plays` and
`MaxRepeated` (the hands from which a packet names a card twice) bound the inputs. Replies
to mingpai, jdz and qdz are 0 and 1.

Deadlock is checked except where the system does stop: `skeleton`, `gateway` and
`db_writer` reach the end of a shutdown (`NobodyBlocks` says that a shutdown of the
gateway stops nowhere else), in `entry_safety` and `entry_served` everything stops when
nobody reads the queue any more (`GameGetsFree` says that it is only then), `card_play`
the end of its round, and in `script_vm` callers of a dead machine wait for ever.

## Fairness

- `DdzRoom`: the bucket's goroutine takes due timers and delivers them (`WF` of `TimerDue`
  and `OnTimer`). Players owe nothing. `PlayEnds`, a part of `RoundGoesOn`, has the
  fairness of `TakeTurn` as its premise, since the code arms no timer for the playing
  phase (game.lua:2439) and nothing calls `kick_offline_player`.
- `RoomEntry`: the goroutines run (`WF` of each); clients may do nothing for ever.
- `TimerBucket`: poller and room goroutine run, a running timer fires. That the poller's
  step is weakly fair although it blocks on the machine's channel assumes a machine that
  answers: that is `VmAnswers`.
- `TcpConn`: the writer runs. Whether the socket takes a message is the peer's affair, so
  the fairness of `Written` is a premise, of `CloseEndsWriter` only.
- `Skeleton`: goroutines run, handlers return. Strong fairness is asked of the cases of a
  select and of blocked senders only: Go's select picks at random among the ready cases,
  and a channel serves those who wait for it in their order.
- `DbWriter`: as there, for `StartWalk` and `Take`; the writer's own steps and the rooms
  are weakly fair.
- `ScriptVm`: as there, for `TakeUpdate` and `TakeCall`; nobody has to call or edit.
- `Gateway` and `CardPlay` assume none: every step of `Gateway` moves something forward,
  so that a shutdown ends is the invariant `NobodyBlocks`: before the end `Moves` holds,
  whose lines are the guards of the server's own actions (not of clients or of the
  signal).

## Theorems

Proved by TLAPS for every value of the constants that meets the named assumptions.

`DdzRoomProofs`. The inductive invariant is `RoundInv`, the conjunction of
`TypeOK`, `FullTable`, `WaitsForTheRightSeats` (as `TableInv`), the auction's order
(`AuctionInv`: `AuctionOrder`, `LandlordIsLastBidder`, `LandlordWhenAuctionOver`),
`Unanswered` (nobody has doubled before the landlord is known) and `LandlordNext`
(while the stake is doubled the turn is already the landlord's, and then
`LandlordLeads`). `WaitsForTheRightSeats` is needed because the handlers'
guards are about what the room waits for, not about the phase; the phase has to
follow from it. `LandlordIsLastBidder` is not inductive: grabbing ends by a walk
over the seats, and only `AuctionOrder`, which says for each turn who can have
answered what, makes the walk find the last bidder. From `RoundInvariant` follow
`TableIsSound`, `AuctionIsSound` and `LandlordOpens`; the action property `RoundEnds`; and the
refinement `AuctionRefined`: each handler maps to a bid, a settlement, a redeal,
a new round or a stutter of `LandlordAuction`.
`TimersFit` (a timer in the bucket belongs to the phase that is on) needs `TagFits`: a
picked-up timer of the phases that wait for everybody carries no tag, so one that is still
in time is the one in the bucket, and a late one has left it. `CardsAreConserved` needs
`NotYetPlayed`: a redeal takes back the hands but not the plays (game.lua:377), and is sound
only because nothing has been played before there is a landlord. The sum it keeps counts the
plays that were broken off: a table where nobody names a card twice has exactly its deal.

`TcpConnProofs`. The inductive invariant `ConnInv` is `TypeOK`, `NilIsLast` (the
channel's nil is its last entry and the flag is set), `WriterAt` (what each place of the
writer says of channel and flag) and `Places`: the accepted messages are those on
the wire, then the one in the writer's hands, then those in the channel. From it
follow `ConnTypes`, `ChannelStaysFinal` and the refinement `StreamImplemented`.

`SkeletonProofs`, for any sets of calls, callers, posts and tasks and any capacities.
The calls: `OnePlace` and `AnswersFit` are not inductive, since a place is a set while the
channels are sequences; `CallsInv` adds that a call is in its channel once
(`ChanOnce`), that an answer says what the call came to (`ResultsAgree`) and that the
counter is the number of pending calls (`PendingCount`). From it follow
`AnsweredOnce` and the refinement `PromiseKept`. The tasks: `TaskInv` relates the
counter of goroutines, the callbacks in the channel and what is done; from it and
`CallsInv` follows `ClosedLeavesNothing`. The linear context: `LinearInv` says that
the list holds the end of what was begun, in order, and `LinearStaysInOrder` follows.

`ScriptProofs` is about the scripts and the machine that runs them. Of `CardPlay`, for any
positions with whole gold and positive stakes
(`DealsAssumption`). `AirplanesNeverPlayed`: no airplane is ever the play to be
beaten. `SettlementIsFair` is its three parts `NoGoldIsMade`, `FarmersNeverOverdrawn` and
`WinnersAreNotCharged`, from the invariant `StakesInv` and from the settlement's arithmetic:
the division of game.lua:1914 gives each farmer back the share it had.
Of `ScriptVm`, for any callers, scripts and number of edits: `MachineIsSound` proves `VmInv` and
`UpdatesAdvance` that no update puts an older script in the place of a newer one. The
inductive invariant `VmSound` adds what the texts on their way are: whose version the
watcher and the machine have in their hands (`WatchTypes`, `MachineTypes`), and `InOrder`, which
compares all of them with the file, since the machine may still be at one text while the
watcher has the next.

`DbWriterProofs`, for any players, savers, numbers of changes and of faults. None of the
three properties is inductive, as they speak of the cache and the rows and between the two
stands what the writer has in its hands. `JobInv` says where the writer is by what it has;
`SnapInv` that a snapshot which is old by now belongs to a player that will be written
again, or in a walk, whose delete is still to come, to one that is being changed or was
stored in the gap (write.go:82); `SaverInv` that a saver's object is in the database
exactly from the statement that succeeded, until a panic; `FinalInv` that a row which is
behind in the last walk is still to be visited, being written, or excused. From them
follow `ChangesKept`, `ToldTruth` and `FinalSaveIsComplete`.

`GatewayProofs`, for any connections, limit, capacity of the channels and numbers of
messages. `GateInv` (`TypeOK`, `Progress`, `Books`) proves `ServerKeepsBooks`. The limit
and the wait groups are not inductive without what the steps of a shutdown have done
already (`Progress`): nobody is accepted once a server's listing is gone. The wait groups
count, so `Books` adds that finitely many connections were dialled. `HeardInv` proves what
the game hears: `QueueInv` orders a connection's messages in the game's channel, `LifeInv`
ties the place of its goroutine to what the game has heard and will hear, and `UserInv`
says that who entered a room has a player. From them follow `GameHears`,
`PlayersReported`, with rooms given and taken at any moment, and the refinement
`AgentsInOrder`. `ShutdownGoesOn` proves `NobodyBlocks`. It needs two more invariants:
`ShutInv`, that whoever is still served by a server whose set is emptied is shut, so that
its read comes back; and `CallInv`, that who waits for the game's answer has its question
in the channel. A full channel then is one that its module reads, the wait group of the
server that is closing counts somebody who can go on, and the accepting loop has nobody in
hand or can go on with it.

`RoomEntryProofs`, for any players, rooms, seats, capacity of the queue and length at
which its reader stops, with no assumption about clients: any of them may ask too soon at
any time, be half open, or send while it is queued. What is proved of a player needs only
that this player was never hasty itself; that a seat is never given to a second player,
and that a round has a full table, is proved of all. The records of a seat are changed by
goroutines without a common lock, and agree because at most one works for such a player at
a time on its way in. `Shapes` says what each goroutine has in its hands at its step;
`Seats` what the machine knows by itself, that seats and players are inverse to each
other; `Places` that a player is in one place of the way into a room at most and no other
goroutine then has a message of it; `Records` how far Go's room and members may be behind
the machine, and which goroutine is about to set or clear them. From them follow
`SeatsAreKept`, `RoundsAreReachable` and the action property `LeaveFollowsSeat`.

`TimerBucketProofs`, for any number of phases from three on, with or without timers, whose
keys differ (`CycleDiffers`), however slow poller and room are. With two phases the timer
before is also the next, so that a late poller finds its own phase again. The invariant
`BucketIInv` has two halves. `Kept` needs nothing of the poller: whatever order commands
are applied in, a timer that was not taken away is still to be started (`Pending`), or is
in the bucket and can fire, or is the one the poller is about to call with (`Usable`),
because no timer is under two keys (`OnePlace`). `Order` holds until the poller is outrun,
and excludes a robbery: which commands the room (`RoomIsAt`) and the poller (`PollerIsAt`)
have still to apply and whose timer the poller holds, counted in phases behind the script;
which two keys can be in the bucket (`Stored`); and which of the timers there was stopped
or taken (`Fires`). From them follows `RoundKeepsItsTimer`.

Only model-checked: `PlayInv` and `HintIsAccepted` of `CardPlay`, which compare what recursive
folds over cards compute; and all liveness, which is beyond the proof system as it
uses ENABLED. `NobodyBlocks` is stated with the guards themselves for that reason.

## Findings

`stake_not_reset`: `reset_room` and `restart_room` (game.lua:316, 344) never
set `room.beishu` back to 1, so a round's doublings multiply the stakes of every later round.

`entry_served`: `enterRoom` returns for good when it finds 9999 players waiting
(queue.go:75), although queue.go:14 allows 10000. In the run two players wait in a queue
of three: neither is ever served. The next ones fill the queue and then block the game
module, which serves all players.

Seen while modelling, without a run of their own:

The table and its cards
- A packet that names a card twice is recorded twice in `chued_seq`, counted as a play, and
  broken off by `assert(false)` (game.lua:1755), which the handler takes to be impossible; the
  cards of the round are one too many from then on (`BreakOff`, `CardsConserved`).
- `first_mingpai_seat` survives a redeal (game.lua:377 resets the seats only),
  although game.lua:136 calls it the first seat to show its cards: the next
  auction may open at a seat that has shown nothing in this deal.
- Airplanes can never be led: pokers.lua:200 looks for them only to answer one, while
  the comment at pokers.lua:184 lists them. `PROGRESSION_SUIT_ONE` and `_TWO` are both 11,
  and the finders for airplanes are called without arguments (pokers.lua:535).
  Eight cards of two fours are read with the lower four.
- When the farmers win, the landlord's loss is not limited by its gold (game.lua:1912),
  as a farmer's is.
- `on_cs_game_auto`, `on_cs_game_manual` and `make_player_auto` hand `room` instead
  of `room.seats` to `broadcast_packet_except` (game.lua:547, 576, 2362): the
  other players are never told.
- `game_over` returns `update_user_info` with one record (game.lua:1931) where the
  command loop expects a list of records (cmd.go:105): the new gold never reaches the Go
  player, and `write_user_info` then saves the old one.

Entering and leaving
- `matchRoom` (handler.go:57) queues every request that arrives before `SetRoom`; a
  client that asks twice is seated twice. It need not be careless: it may have reconnected while
  it was queued, or have its leave answered by `sc_leave_room` before `close_player` is applied
  (cmd.go:288): if the room is lost in another way meanwhile, the late `Leave` takes the player
  out of the next one.
- A disconnect between the seating in Lua and `SetRoom`, or while the player is queued, is never
  reported (chanrpc.go:30), and the table waits for the player (`late` in `Gateway`).
- A disconnect handled between `SetRoom` (queue.go:116) and `Join` (queue.go:118)
  takes the player out of the room before it is put in: it stays in
  `Room.Players` (room.go:19). `RoomsAgree` therefore asks one direction only.
- `rpcCloseAgent` (chanrpc.go:22, 29) does not compare the closed agent with the
  player's: the late end of an old connection makes a connected player lose its
  seat between rounds, or counts it as offline in one.

Virtual machine and timers
- A text that does not compile or fails when run leaves Lua's message on the stack
  (vm.go:158; only the branch of a call does `Settop(0)`): the next call returns it as its
  first result, so that `HandleResult` drops its commands or `enterRoom` gets no room for
  a player the script has seated. `SpoilsOneCall` says that it is one call.
- If the machine does not take an update in its second, the watcher sends on `done`, which
  only itself receives (loader.go:144): no script is reloaded any more. It watches the
  game's directory only, although `Load` also reads those below it.
- A panic in the machine leaves its callers waiting for ever (vm.go:86).
- A poller that two phases pass while it is busy with one timer can start a timer after
  its kill, and remove the next timer of the same key unfired (timer.go:63, cmd.go:206);
  the phase then waits for a packet. `BucketInv` says that nothing else does.
- A panic under `TimerBucket.Run` is recovered outside its loop (timer.go:47), which would
  stop all timers; none was found in what it calls.

Players and database
- A change stored between the writer's statement and its `Delete` (write.go:82) is
  forgotten until the next change of the same player.
- After a panic of a single save the writer ends (write.go:28): later saves block, the
  final save of main.go:58 among them, and the answer is the error of the save before.
- In the hall, `Exit` writes the player's row before it sets `Union` to 0
  (hall/union/logic.go:169); `TickMember` does nothing to a member found in the cache,
  `Transfer` nothing when the master is found there (logic.go:283, 235); `ReadMail` caches
  a copy of the sender that its connection does not share (hall/mail/mail.go:31).

## Not modelled

- Of the table: automatic play of a seat, props, packets and what clients are shown.
- Unions, mails, login and registration: handlers that run one after the other in the
  hall's goroutine around SQL statements. What can go wrong between them is between
  rows of a database whose schema and isolation are not in the repository.
- Framing of messages (`MsgParser`), processors and encryption: sequential, without
  state that outlives a call.
- Connecting clients, leaf's timers, cron, cluster, console, mongodb and recordfile:
  the server does not build on them.
- Of the modelled parts: the initial loading of rooms, scripts and modules, which is
  over before anything else runs; `Room.Close`, which nothing sends on; queries.
- Vendored LuaJIT, generated protocol code, bots, test clients, debug scripts,
  configuration and logging.

PROJECT.json lists each with its reason, and the hazard of the unions.

## Plan

1. `MsgParser` as operators on 32-bit lengths, and the players' objects of the hall as an
   environment of `DbWriter`.
2. `Skeleton` with posts in its run, at smaller channels, and `TimerBucket` with two rooms' timers.
