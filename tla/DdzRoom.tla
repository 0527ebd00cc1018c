------------------------------- MODULE DdzRoom -------------------------------
(***************************************************************************)
(* One three-seat table of the landlord game ("dou dizhu") as the Lua      *)
(* script lua/game/classic_ddz/game/game.lua keeps it inside one virtual   *)
(* machine: who sits where, the phase of the round, the auction for the    *)
(* landlord's seat, the cards in the hands, the actions the table waits    *)
(* for, and the timers it arms in the Go timer bucket.                     *)
(*                                                                         *)
(* One action is one call into the virtual machine together with the       *)
(* commands the call returned (start_timer and kill_timer).  A timer that  *)
(* is due is first picked up by the bucket's goroutine (TimerDue) and      *)
(* reaches the virtual machine later (OnTimer), after other calls perhaps, *)
(* so a timer may arrive when its phase is over.                           *)
(*                                                                         *)
(* Abstracted: the identity of the cards (a hand is a number of cards), a  *)
(* play (its size and whether it is a bomb), the value of a "mingpai"      *)
(* multiplier (1 stands for 2..5), the flags "auto" and "online", which    *)
(* no handler modelled here reads to decide on a step (auto selects the    *)
(* length of a timer), logs and packets.                                   *)
(***************************************************************************)
EXTENDS Integers, FiniteSets

CONSTANTS Players,       (* who may sit down at the table                   *)
          None,          (* an empty seat                                   *)
          HandCards,     (* cards dealt to a seat, 17 in the code           *)
          BottomCards,   (* the landlord's extra cards, 3 in the code       *)
          MaxRedeals,    (* counted redeals before a forced landlord, 3     *)
          JiabeiReplies, (* the answers to "double the stake?"              *)
          Plays,         (* the plays: records [n |-> size, bomb |-> bool]  *)
          MaxBeishu      (* BOUND: the multiplier is recorded up to here    *)

ASSUME PlayersAssumption == None \notin Players
ASSUME CardsAssumption == /\ HandCards \in Nat \ {0}
                          /\ BottomCards \in Nat
                          /\ Plays \subseteq [n : Nat \ {0}, bomb : BOOLEAN]
ASSUME RoundAssumption == /\ MaxRedeals \in Nat
                          /\ JiabeiReplies \subseteq Nat
                          /\ MaxBeishu \in Nat \ {0}

Seat     == 1..3
AnySeat  == 0..3        (* 0 is "no seat", as in the script *)
Turns    == {"jiaodizhu", "qiangdizhu", "gaming"}
Statuses == {"not_gaming", "sendpokers", "jiabei"} \cup Turns
Actions  == {"mingpai", "jdz", "qdz", "jiabei", "chupai"}

(* A timer is <<action, tag>>: the tag is the action_seq of a seat, 0 for  *)
(* the empty string, Gone for the action_seq of a seat that was given up.  *)
Gone    == 4
Timer   == (Actions \ {"chupai"}) \X (0..Gone)
NoTimer == <<"none", 0>>

VARIABLES
  seats,      (* seat -> player or None                                     *)
  ready,      (* seat -> has it announced it is ready                       *)
  ingame,     (* seat -> is it taking part in the round                     *)
  play_seats, (* how many seats helper_game_start has listed                *)
  status,     (* phase of the room                                          *)
  curr_turn,  (* seat whose turn it is, 0 for none                          *)
  waiting,    (* seat -> set of the actions the room waits for              *)
  mingpai,    (* seat -> -1 undecided, 0 hidden, 1 cards shown              *)
  first_mingpai_seat,
  jdz,        (* seat -> -1 not asked, 0 refused, 1 called                  *)
  qdz,        (* seat -> -1 not asked, 0 refused, 1 grabbed                 *)
  jiabei,     (* seat -> -1 or its reply                                    *)
  jdz_liuju,  (* counted redeals                                            *)
  dizhu_seat, (* the landlord's seat                                        *)
  hand,       (* seat -> number of cards in hand                            *)
  chued,      (* seat -> number of cards recorded as played                 *)
  bottom,     (* number of extra cards on the table                         *)
  broken,     (* HISTORY: plays of this round broken off (BreakOff)         *)
  banker_seat,(* who made the last play that was not a pass                 *)
  last,       (* that play                                                  *)
  beishu,     (* multiplier of the stake, up to MaxBeishu                   *)
  timers,     (* timers armed in the bucket                                 *)
  fired,      (* the timer the bucket's goroutine is handing over           *)
  bidder      (* HISTORY: the last seat that called or grabbed              *)

table   == <<seats, ready, ingame, play_seats>>
turn    == <<status, curr_turn, waiting>>
auction == <<jdz, qdz, jdz_liuju, dizhu_seat, bidder>>
showing == <<mingpai, first_mingpai_seat>>
cards   == <<hand, chued, bottom, broken>>
trick   == <<banker_seat, last>>
vars    == <<table, turn, auction, showing, cards, trick,
             jiabei, beishu, timers, fired>>

NoPlay   == [n |-> 0, bomb |-> FALSE]
All(v)   == [s \in Seat |-> v]
Empty    == All({})
Only(t, acts) == [s \in Seat |-> IF s = t THEN acts ELSE {}]

(* get_next_seat_index *)
NextSeat(s) == IF s < 3 THEN s + 1 ELSE 1

(* The first of the two seats after s that is in S, 0 when neither is.     *)
FirstAfter(s, S) ==
  IF NextSeat(s) \in S THEN NextSeat(s)
  ELSE IF NextSeat(NextSeat(s)) \in S THEN NextSeat(NextSeat(s)) ELSE 0

(* The first and the last seat of S in the order of the seats, 0 if none.  *)
FirstOf(S) == IF 1 \in S THEN 1 ELSE IF 2 \in S THEN 2 ELSE IF 3 \in S THEN 3 ELSE 0
LastOf(S)  == IF 3 \in S THEN 3 ELSE IF 2 \in S THEN 2 ELSE IF 1 \in S THEN 1 ELSE 0

(* add_timer and kill_timer, as the commands change the bucket T.          *)
(* MUTANTS: a timer is never started; a timer is killed by the empty tag.  *)
NoQdzTimer(T, id, tag) ==
  IF id \in {"qdz", "chupai"} THEN T ELSE T \cup {<<id, tag>>}
AddTimer(T, id, tag) == IF id = "chupai" THEN T ELSE T \cup {<<id, tag>>}

KillUntagged(id, tag) == timers \ {<<id, 0>>}
KillTimer(id, tag)    == timers \ {<<id, tag>>}

Doubled(b) == IF 2 * b > MaxBeishu THEN MaxBeishu ELSE 2 * b

Init ==
  /\ seats = All(None) /\ ready = All(FALSE) /\ ingame = All(FALSE)
  /\ play_seats = 0
  /\ status = "not_gaming" /\ curr_turn = 0 /\ waiting = Empty
  /\ mingpai = All(-1) /\ first_mingpai_seat = 0
  /\ jdz = All(-1) /\ qdz = All(-1) /\ jdz_liuju = 0
  /\ dizhu_seat = 0 /\ bidder = 0
  /\ jiabei = All(-1)
  /\ hand = All(0) /\ chued = All(0) /\ bottom = 0 /\ broken = 0
  /\ banker_seat = 0 /\ last = NoPlay
  /\ beishu = 1
  /\ timers = {} /\ fired = NoTimer

-----------------------------------------------------------------------------
(* Seating: player_enter_room, make_player_leave.  A player object is in   *)
(* one seat at most: module RoomEntry looks at the callers that break it.  *)

FreeSeats == {s \in Seat : seats[s] = None}

Enter(p) ==
  /\ \A s \in Seat : seats[s] # p
  /\ FreeSeats # {}
  /\ status = "not_gaming"
  /\ seats' = [seats EXCEPT ![FirstOf(FreeSeats)] = p]
  /\ UNCHANGED <<ready, ingame, play_seats, turn, auction, showing, cards,
                 trick, jiabei, beishu, timers, fired>>

(* The status check of on_cs_leave_room and player_disconnect, and the     *)
(* early return of make_player_leave.  The mutant lets anyone go.          *)
LeaveAlways(s) == seats[s] # None
MayLeave(s)    == seats[s] # None /\ status = "not_gaming" /\ ~ingame[s]

(* on_cs_leave_room, and player_disconnect while no round is on: the seat  *)
(* table is dropped and with it the action_seq its timers carry.           *)
Leave(s) ==
  /\ MayLeave(s)
  /\ seats'   = [seats EXCEPT ![s] = None]
  /\ ready'   = [ready EXCEPT ![s] = FALSE]
  /\ mingpai' = [mingpai EXCEPT ![s] = -1]
  /\ fired'   = IF fired[2] = s THEN <<fired[1], Gone>> ELSE fired
  /\ UNCHANGED <<ingame, play_seats, turn, auction, first_mingpai_seat, cards,
                 trick, jiabei, beishu, timers>>

-----------------------------------------------------------------------------
(* The helper_game_start_* functions.  T is what the timer bucket holds    *)
(* when the commands of the call are carried out.                          *)

(* helper_game_start: lists the seats, deals, asks who shows their cards.  *)
Deal(held, listed, onTable, shown, T) ==
  /\ status' = "sendpokers"
  /\ ingame' = All(TRUE)
  /\ play_seats' = listed + 3
  /\ hand'   = [s \in Seat |-> held[s] + HandCards]
  /\ bottom' = onTable + BottomCards
  /\ UNCHANGED <<chued, broken>>
  /\ mingpai' = shown
  /\ waiting' = [s \in Seat |-> IF shown[s] = -1 THEN {"mingpai"} ELSE {}]
  /\ timers' = AddTimer(T, "mingpai", 0)

(* reset_seats_status: what a redeal keeps of the hands, of the list of    *)
(* seats and of the table.  MUTANT: the hands are kept.                    *)
HandsKept        == hand
HeldAfterReset   == All(0)
ListedAfterReset == 0
BottomAfterReset == 0

Redeal(T) ==
  /\ jdz' = All(-1) /\ qdz' = All(-1) /\ jiabei' = All(-1)
  /\ curr_turn' = 0 /\ dizhu_seat' = 0 /\ bidder' = 0
  /\ banker_seat' = 0
  /\ Deal(HeldAfterReset, ListedAfterReset, BottomAfterReset, All(-1), T)
  /\ UNCHANGED <<seats, ready, first_mingpai_seat, last, beishu>>

(* helper_game_start_jdz, entered from the dealing phase.                  *)
ToJdz(first, T) ==
  /\ status' = "jiaodizhu"
  /\ \E t \in IF first = 0 THEN 1..play_seats ELSE {first} :
       /\ curr_turn' = t
       /\ waiting' = Only(t, {"jdz"})
       /\ timers' = AddTimer(T, "jdz", t)

(* helper_game_start_qdz with curr_turn = t; t = 0 is a Lua error.         *)
ToQdz(t, T) ==
  /\ status' = "qiangdizhu"
  /\ curr_turn' = t
  /\ waiting' = Only(t, {"qdz"})
  /\ timers' = AddTimer(T, "qdz", t)
  /\ UNCHANGED <<seats, ready, ingame, play_seats, showing, dizhu_seat, cards,
                 trick, jiabei>>

(* set_room_dizhu                                                          *)
Dizhu(d)            == IF dizhu_seat = 0 THEN d ELSE dizhu_seat

(* set_room_dizhu, broadcast_dizhu_info and helper_game_start_jiabei.      *)
ToJiabei(d, T) ==
  /\ status' = "jiabei"
  /\ curr_turn' = d
  /\ dizhu_seat' = Dizhu(d)
  /\ hand' = [s \in Seat |->
                IF s = d /\ dizhu_seat = 0 THEN hand[s] + bottom ELSE hand[s]]
  /\ waiting' = All({"jiabei"})
  /\ timers' = AddTimer(T, "jiabei", 0)
  /\ UNCHANGED <<seats, ready, ingame, play_seats, showing, chued, bottom,
                 broken, trick, jiabei>>

(* helper_game_start_chupai with curr_turn = t.  add_timer drops the timer *)
(* of action 5: nothing limits the time of a turn.                         *)
ToChupai(t, h, T) ==
  /\ status' = "gaming"
  /\ curr_turn' = t
  /\ waiting' = Only(t, {"chupai"} \cup
       (IF t = dizhu_seat /\ chued'[t] = 0 /\ mingpai[t] = -1
        THEN {"mingpai"} ELSE {}))
  /\ hand' = h
  /\ timers' = AddTimer(T, "chupai", t)

-----------------------------------------------------------------------------
(* Packets.                                                                *)

(* on_cs_ready_game; show is the packet's mingpai flag.                    *)
Ready(s, show) ==
  /\ seats[s] # None
  /\ ~ready[s]
  /\ status = "not_gaming"
  /\ ready' = [ready EXCEPT ![s] = TRUE]
  /\ LET shown == IF show THEN [mingpai EXCEPT ![s] = 1] ELSE mingpai
     IN  IF \A t \in Seat : seats[t] # None /\ ready'[t]
         THEN /\ Deal(hand, play_seats, bottom, shown, timers)
              /\ UNCHANGED <<seats, curr_turn, auction, first_mingpai_seat,
                             trick, jiabei, beishu, fired>>
         ELSE /\ mingpai' = shown
              /\ UNCHANGED <<seats, ingame, play_seats, turn, auction,
                             first_mingpai_seat, cards, trick, jiabei, beishu,
                             timers, fired>>

(* on_game_action_mingpai, while dealing and before the landlord's lead.   *)
Mingpai(s, reply) ==
  /\ "mingpai" \in waiting[s]
  /\ mingpai[s] = -1
  /\ mingpai' = [mingpai EXCEPT ![s] = reply]
  /\ first_mingpai_seat' =
       IF reply = 1 /\ first_mingpai_seat = 0 THEN s ELSE first_mingpai_seat
  /\ IF status = "sendpokers"
     THEN IF \A t \in Seat : mingpai'[t] # -1
          THEN ToJdz(first_mingpai_seat', KillTimer("mingpai", 0))
          ELSE /\ waiting' = [waiting EXCEPT ![s] = {}]
               /\ UNCHANGED <<status, curr_turn, timers>>
     ELSE UNCHANGED <<turn, timers>>
  /\ UNCHANGED <<table, auction, cards, trick, jiabei, beishu, fired>>

(* The two outcomes of on_game_action_jdz and of its timeout.              *)
Call(s, T) ==
  /\ jdz' = [jdz EXCEPT ![s] = 1]
  /\ bidder' = s
  /\ LET t == FirstAfter(s, {u \in Seat : jdz[u] # 0})
     IN  IF t # 0 THEN ToQdz(t, T) ELSE ToJiabei(s, T)
  /\ UNCHANGED <<qdz, jdz_liuju, beishu>>

AskNextSeat(s, T) ==
  /\ jdz[NextSeat(s)] = -1
  /\ jdz' = [jdz EXCEPT ![s] = 0]
  /\ curr_turn' = NextSeat(s)
  /\ waiting' = Only(NextSeat(s), {"jdz"})
  /\ timers' = AddTimer(T, "jdz", NextSeat(s))
  /\ UNCHANGED <<status, table, qdz, jdz_liuju, dizhu_seat, bidder, showing,
                 cards, trick, jiabei, beishu>>

(* The next seat has answered already: everybody has refused.              *)
RefusedByAll(s) == jdz[NextSeat(s)] # -1

(* The limit on the counted redeals.                                       *)
MayRedeal         == jdz_liuju < MaxRedeals

ForcedLandlord(s, T) ==
  /\ jdz' = [jdz EXCEPT ![s] = 0]
  /\ ToJiabei(NextSeat(s), T)
  /\ UNCHANGED <<qdz, jdz_liuju, bidder, beishu>>

(* on_game_action_jdz *)
Jdz(s, reply) ==
  /\ "jdz" \in waiting[s]
  /\ status = "jiaodizhu" /\ curr_turn = s
  /\ LET T == KillTimer("jdz", s) IN
       \/ reply = 1 /\ Call(s, T)
       \/ reply = 0 /\ AskNextSeat(s, T)
       \/ /\ reply = 0 /\ RefusedByAll(s)
          /\ IF MayRedeal
             THEN Redeal(T) /\ jdz_liuju' = jdz_liuju + 1
             ELSE ForcedLandlord(s, T)
  /\ UNCHANGED fired

(* The seats that grabbed, other than s.  The mutant confuses the fields.  *)
Called(s)  == {u \in Seat \ {s} : jdz[u] = 1}
Grabbed(s) == {u \in Seat \ {s} : qdz[u] = 1}

(* Reply 1 of on_game_action_qdz: the one who called, or has grabbed       *)
(* before, takes the seat; otherwise the next one still bidding is asked.  *)
Grab(s, T) ==
  /\ bidder' = s
  /\ beishu' = Doubled(beishu)
  /\ qdz' = [qdz EXCEPT ![s] = 1]
  /\ IF jdz[s] = 1 \/ qdz[s] = 1
     THEN ToJiabei(s, T)
     ELSE ToQdz(FirstAfter(s, {u \in Seat : qdz[u] # 0 /\ jdz[u] # 0}), T)
  /\ UNCHANGED <<jdz, jdz_liuju>>

(* Reply 0 of on_game_action_qdz, and on_game_timeout_qdz: the caller, a   *)
(* seat that grabbed, and a seat asked for the first time.                 *)
CallerDeclines(s, T) ==
  LET t == FirstAfter(s, Grabbed(s)) IN
    /\ jdz[s] = 1
    /\ qdz' = [qdz EXCEPT ![s] = 0]
    /\ IF Grabbed(s) = {t} THEN ToJiabei(t, T) ELSE ToQdz(t, T)

GrabberGivesWay(s, T) ==      (* MUTANT: the caller is the landlord again. *)
  /\ jdz[s] # 1 /\ qdz[s] = 1
  /\ ToJiabei(LastOf({u \in Seat : jdz[u] = 1}), T)
  /\ UNCHANGED qdz
GrabberDeclines(s, T) ==
  /\ jdz[s] # 1 /\ qdz[s] = 1
  /\ ToJiabei(FirstOf(Grabbed(s)), T)
  /\ UNCHANGED qdz

OtherDeclines(s, T) ==
  LET notAsked == {u \in Seat \ {s} : jdz[u] = -1 /\ qdz[u] = -1}
      grabbers == {u \in Seat \ {s} : jdz[u] = -1 /\ qdz[u] = 1}
      caller   == {u \in Seat : jdz[u] = 1}
  IN  /\ jdz[s] # 1 /\ qdz[s] # 1
      /\ qdz' = [qdz EXCEPT ![s] = 0]
      /\ \/ /\ notAsked # {}
            /\ ToQdz(LastOf(notAsked), T)
         \/ /\ notAsked = {} /\ grabbers = {}
            /\ ToJiabei(LastOf(caller), T)
         \/ /\ notAsked = {} /\ grabbers # {}
            /\ ToQdz(NextSeat(s), T)

Decline(s, T) ==
  /\ CallerDeclines(s, T) \/ GrabberDeclines(s, T) \/ OtherDeclines(s, T)
  /\ UNCHANGED <<jdz, jdz_liuju, bidder, beishu>>

(* on_game_action_qdz *)
Qdz(s, reply) ==
  /\ "qdz" \in waiting[s]
  /\ status = "qiangdizhu"
  /\ LET T == KillTimer("qdz", s) IN
       \/ reply = 1 /\ Grab(s, T)
       \/ reply = 0 /\ Decline(s, T)
  /\ UNCHANGED fired

(* on_game_action_jiabei *)
Jiabei(s, reply) ==
  /\ "jiabei" \in waiting[s]
  /\ status = "jiabei"
  /\ jiabei' = [jiabei EXCEPT ![s] = reply]
  /\ UNCHANGED <<chued, broken>>
  /\ IF \A t \in Seat : jiabei'[t] # -1
     THEN ToChupai(curr_turn, hand, KillTimer("jiabei", 0))
     ELSE /\ waiting' = [waiting EXCEPT ![s] = {}]
          /\ UNCHANGED <<status, curr_turn, hand, timers>>
  /\ UNCHANGED <<table, auction, showing, bottom, trick, beishu, fired>>

-----------------------------------------------------------------------------
(* on_game_action_chupai: a pass, a play, and the play that ends the game. *)
MayPass(s) == banker_seat # 0 /\ banker_seat # s

(* pokers_type_check and the comparison with the banker's play; whether    *)
(* the cards of a play of the same kind are higher is left open.           *)
Beats(p, s) ==
  MayPass(s) => \/ p.bomb /\ ~last.bomb
                \/ p.bomb = last.bomb /\ (p.bomb \/ p.n = last.n)

Pass(s) ==
  /\ "chupai" \in waiting[s] /\ curr_turn = s
  /\ MayPass(s)
  /\ UNCHANGED <<chued, broken>>
  /\ ToChupai(NextSeat(s), hand, timers)
  /\ UNCHANGED <<table, auction, showing, bottom, trick, jiabei, beishu, fired>>

PlayCards(s, p) ==
  /\ "chupai" \in waiting[s] /\ curr_turn = s
  /\ Beats(p, s)
  /\ p.n < hand[s]
  /\ chued' = [chued EXCEPT ![s] = @ + p.n]
  /\ banker_seat' = s
  /\ last' = p
  /\ beishu' = IF p.bomb THEN Doubled(beishu) ELSE beishu
  /\ ToChupai(NextSeat(s), [hand EXCEPT ![s] = @ - p.n], timers)
  /\ UNCHANGED <<table, auction, showing, bottom, broken, jiabei, fired>>

(* A packet that names a card of the hand twice.  The hand is long enough  *)
(* and holds every card named, so the handler records the cards one by one *)
(* as played and takes them from the hand, until it finds the repeated one *)
(* gone: k cards have left the hand, k + 1 are recorded, and the assertion *)
(* that fails drops the rest of the call with its commands.  The two kings *)
(* are two cards; which other sizes allow a repetition is left open.       *)
Repeats(p) == p.n > 1 /\ ~(p.bomb /\ p.n = 2)

BreakOff(s, p) ==
  /\ "chupai" \in waiting[s] /\ curr_turn = s
  /\ Repeats(p) /\ Beats(p, s)
  /\ p.n <= hand[s]
  /\ \E k \in 1..(p.n - 1) :
       /\ hand'  = [hand EXCEPT ![s] = @ - k]
       /\ chued' = [chued EXCEPT ![s] = @ + k + 1]
  /\ broken' = broken + 1
  /\ UNCHANGED <<table, turn, auction, showing, bottom, trick, jiabei, beishu,
                 timers, fired>>

(* game_over, restart_room and reset_room.  The multiplier is in none of   *)
(* them, so it is carried over to the next round.                          *)
RestartRoom ==
  /\ status' = "not_gaming" /\ curr_turn' = 0 /\ waiting' = Empty
  /\ ready' = All(FALSE) /\ ingame' = All(FALSE) /\ play_seats' = 0
  /\ mingpai' = All(-1) /\ first_mingpai_seat' = 0
  /\ jdz' = All(-1) /\ qdz' = All(-1) /\ jiabei' = All(-1)
  /\ jdz_liuju' = 0 /\ dizhu_seat' = 0 /\ bidder' = 0
  /\ hand' = All(0) /\ chued' = All(0) /\ bottom' = 0 /\ broken' = 0
  /\ banker_seat' = 0 /\ last' = NoPlay

PlayLastCards(s, p) ==
  /\ "chupai" \in waiting[s] /\ curr_turn = s
  /\ Beats(p, s)
  /\ p.n = hand[s]
  /\ beishu' = IF p.bomb THEN Doubled(beishu) ELSE beishu
  /\ RestartRoom
  /\ UNCHANGED <<seats, timers, fired>>

-----------------------------------------------------------------------------
(* Timers.  The bucket's goroutine takes one due timer at a time; it stays *)
(* in the bucket until the call into the virtual machine has returned.     *)

TimerDue(t) ==
  /\ fired = NoTimer
  /\ t \in timers
  /\ fired' = t
  /\ UNCHANGED <<table, turn, auction, showing, cards, trick, jiabei, beishu,
                 timers>>

(* on_game_timeout_mingpai: who has not decided keeps mingpai = -1.        *)
TimeoutMingpai(T) ==
  /\ ToJdz(first_mingpai_seat, T)
  /\ UNCHANGED <<table, auction, showing, cards, trick, jiabei, beishu>>

(* on_game_timeout_jdz: here a redeal is not counted.                      *)
TimeoutJdz(tag, T) ==
  \/ AskNextSeat(tag, T)
  \/ RefusedByAll(tag) /\ Redeal(T) /\ UNCHANGED jdz_liuju

(* on_game_timeout_qdz; the mutant redeals as on_game_timeout_jdz does.    *)
RedealOnTimeout(tag, T) == Redeal(T) /\ UNCHANGED jdz_liuju
TimeoutQdz(tag, T) == Decline(tag, T)

(* on_game_timeout_jiabei *)
TimeoutJiabei(T) ==
  /\ jiabei' = [s \in Seat |-> IF jiabei[s] = -1 THEN 0 ELSE jiabei[s]]
  /\ UNCHANGED <<chued, broken>>
  /\ ToChupai(curr_turn, hand, T)
  /\ UNCHANGED <<table, auction, showing, bottom, trick, beishu>>

(* The conditions of the four handlers; a timer that does not meet its own *)
(* is ignored, its phase is over.                                          *)
InTime(t) ==
  CASE t[1] = "mingpai" -> status = "sendpokers"
    [] t[1] = "jiabei"  -> status = "jiabei"
    [] t[1] = "jdz" -> /\ status = "jiaodizhu" /\ t[2] = curr_turn
                       /\ "jdz" \in waiting[t[2]]
    [] t[1] = "qdz" -> /\ status = "qiangdizhu" /\ t[2] = curr_turn
                       /\ "qdz" \in waiting[t[2]]

(* on_timer and the removal of the timer from the bucket after the call.   *)
OnTimer ==
  /\ fired # NoTimer
  /\ fired' = NoTimer
  /\ LET T == timers \ {fired} IN
       \/ fired[1] = "mingpai" /\ InTime(fired) /\ TimeoutMingpai(T)
       \/ fired[1] = "jdz"     /\ InTime(fired) /\ TimeoutJdz(fired[2], T)
       \/ fired[1] = "qdz"     /\ InTime(fired) /\ TimeoutQdz(fired[2], T)
       \/ fired[1] = "jiabei"  /\ InTime(fired) /\ TimeoutJiabei(T)
       \/ /\ ~InTime(fired)
          /\ timers' = T
          /\ UNCHANGED <<table, turn, auction, showing, cards, trick, jiabei,
                         beishu>>

-----------------------------------------------------------------------------
TakeTurn(s) ==
  Pass(s) \/ \E p \in Plays : PlayCards(s, p) \/ PlayLastCards(s, p)

Packet(s) ==
  \/ Leave(s)
  \/ \E show \in BOOLEAN : Ready(s, show)
  \/ \E reply \in {0, 1} : Mingpai(s, reply) \/ Jdz(s, reply) \/ Qdz(s, reply)
  \/ \E reply \in JiabeiReplies : Jiabei(s, reply)
  \/ TakeTurn(s)
  \/ \E p \in Plays : BreakOff(s, p)

Next ==
  \/ \E p \in Players : Enter(p)
  \/ \E s \in Seat : Packet(s)
  \/ \E t \in timers : TimerDue(t)
  \/ OnTimer

Spec == Init /\ [][Next]_vars

(* The bucket's goroutine polls for ever and the virtual machine answers   *)
(* every call: an armed timer fires and is delivered.  Players owe nothing. *)
FairSpec == /\ Spec
            /\ WF_vars(\E t \in timers : TimerDue(t))
            /\ WF_vars(OnTimer)

-----------------------------------------------------------------------------
(* Properties.                                                             *)

(* Every variable of the room has its type: handlers index only seats     *)
(* that exist, and only timers the script starts are ever in the bucket.   *)
TypeOK ==
  /\ seats \in [Seat -> Players \cup {None}]
  /\ ready \in [Seat -> BOOLEAN] /\ ingame \in [Seat -> BOOLEAN]
  /\ play_seats \in Nat
  /\ status \in Statuses /\ curr_turn \in AnySeat
  /\ waiting \in [Seat -> SUBSET Actions]
  /\ mingpai \in [Seat -> {-1, 0, 1}] /\ first_mingpai_seat \in AnySeat
  /\ jdz \in [Seat -> {-1, 0, 1}] /\ qdz \in [Seat -> {-1, 0, 1}]
  /\ jiabei \in [Seat -> Nat \cup {-1}]
  /\ jdz_liuju \in 0..MaxRedeals
  /\ dizhu_seat \in AnySeat /\ bidder \in AnySeat
  /\ hand \in [Seat -> Nat] /\ chued \in [Seat -> Nat]
  /\ bottom \in Nat /\ broken \in Nat
  /\ banker_seat \in AnySeat /\ last \in Plays \cup {NoPlay}
  /\ beishu \in 1..MaxBeishu
  /\ timers \subseteq Timer /\ fired \in Timer \cup {NoTimer}

(* While a round is on every seat is taken and takes part in it, and the   *)
(* assertion "game_player_count == #room.play_seats" of helper_game_start  *)
(* holds; between rounds nobody is marked as playing, so everyone may go.  *)
FullTable ==
  IF status = "not_gaming"
  THEN ingame = All(FALSE) /\ play_seats = 0
  ELSE /\ \A s \in Seat : seats[s] # None /\ ready[s] /\ ingame[s]
       /\ play_seats = 3

(* What the room waits for fits its phase: exactly the seat whose turn it  *)
(* is, or exactly the seats that have not answered.  A phase that waits    *)
(* for nobody, or for the wrong seat, would hang the table.                *)
WaitsForTheRightSeats ==
  /\ status = "not_gaming" => waiting = Empty
  /\ status = "sendpokers" =>
       \A s \in Seat : waiting[s] = IF mingpai[s] = -1 THEN {"mingpai"} ELSE {}
  /\ status = "jiabei" =>
       \A s \in Seat : waiting[s] = IF jiabei[s] = -1 THEN {"jiabei"} ELSE {}
  /\ status = "jiaodizhu"  => curr_turn # 0 /\ waiting = Only(curr_turn, {"jdz"})
  /\ status = "qiangdizhu" => curr_turn # 0 /\ waiting = Only(curr_turn, {"qdz"})
  /\ status = "gaming" =>
       /\ curr_turn # 0
       /\ \A s \in Seat : ("chupai" \in waiting[s]) <=> (s = curr_turn)

(* A table that can go on: types, seats, and who is waited for.            *)
TableInv == TypeOK /\ FullTable /\ WaitsForTheRightSeats

(* The timer bucket holds the timer of the current phase and nothing else: *)
(* every phase before the play ends without the players' help, and no      *)
(* timer of an earlier phase is left running.  A timer on its way to the   *)
(* virtual machine may be out of date.                                     *)
PhaseTimer ==
  CASE status = "sendpokers" -> {<<"mingpai", 0>>}
    [] status = "jiaodizhu"  -> {<<"jdz", curr_turn>>}
    [] status = "qiangdizhu" -> {<<"qdz", curr_turn>>}
    [] status = "jiabei"     -> {<<"jiabei", 0>>}
    [] OTHER                 -> {}

TimerFitsPhase == timers = PhaseTimer

(* Dealing, redealing, handing the extra cards to the landlord and playing *)
(* lose and duplicate no card.  A play that is broken off records exactly  *)
(* one card more than it takes from the hand (game.lua:1743-1755); nobody  *)
(* keeps playing without cards.                                            *)
CardsConserved ==
  LET held == hand[1] + hand[2] + hand[3]
      out  == chued[1] + chued[2] + chued[3]
      free == IF dizhu_seat = 0 THEN bottom ELSE 0
  IN  IF status = "not_gaming"
      THEN held + out + bottom = 0
      ELSE /\ held + out + free = 3 * HandCards + BottomCards + broken
           /\ \A s \in Seat : hand[s] > 0

(* The auction: once there is a landlord it is the last seat that called   *)
(* or grabbed, unless everybody refused and the redeals are used up.       *)
LandlordIsLastBidder ==
  dizhu_seat # 0 => \/ dizhu_seat = bidder
                    \/ /\ bidder = 0 /\ jdz_liuju = MaxRedeals
                       /\ jdz = All(0)

(* How far the auction has come, from which the previous property follows. *)
(* Seats are asked in turn; those that refused sit before the one asked.   *)
AskedInTurn ==
  /\ curr_turn # 0 /\ jdz[curr_turn] = -1
  /\ jdz \in [Seat -> {-1, 0}]
  /\ LET a == NextSeat(curr_turn)
     IN  jdz[a] = 0 => jdz[NextSeat(a)] = 0

(* c called, a and b sit after c.  The turn is at a, then at b, then at c  *)
(* when someone grabbed, and again at a when both did and c declined.      *)
GrabbedInTurn(c, a, b) ==
  /\ jdz[c] = 1 /\ jdz[a] # 1 /\ jdz[b] # 1
  /\ \A u \in {a, b} : jdz[u] = 0 => qdz[u] = -1
  /\ bidder = IF qdz[b] = 1 THEN b ELSE IF qdz[a] = 1 THEN a ELSE c
  /\ \/ /\ curr_turn = a /\ jdz[a] = -1
        /\ qdz[a] = -1 /\ qdz[b] = -1 /\ qdz[c] = -1
     \/ /\ curr_turn = b /\ jdz[b] = -1 /\ qdz[b] = -1 /\ qdz[c] = -1
        /\ jdz[a] = -1 => qdz[a] # -1
     \/ /\ curr_turn = c /\ qdz[c] = -1
        /\ qdz[a] = 1 \/ qdz[b] = 1
        /\ \A u \in {a, b} : jdz[u] = -1 => qdz[u] # -1
     \/ /\ curr_turn = a /\ qdz[a] = 1 /\ qdz[b] = 1 /\ qdz[c] = 0

AuctionOrder ==
  /\ status \in {"not_gaming", "sendpokers"} =>
       bidder = 0 /\ jdz = All(-1) /\ qdz = All(-1)
  /\ status = "jiaodizhu" => bidder = 0 /\ qdz = All(-1) /\ AskedInTurn
  /\ status = "qiangdizhu" =>
       \E c \in Seat : GrabbedInTurn(c, NextSeat(c), NextSeat(NextSeat(c)))

(* There is a landlord exactly when the auction is over.                   *)
LandlordWhenAuctionOver ==
  (dizhu_seat # 0) <=> (status \in {"jiabei", "gaming"})

(* The auction, asked in turn, is won by its last bidder, and only then is *)
(* there a landlord.                                                       *)
AuctionInv == AuctionOrder /\ LandlordIsLastBidder /\ LandlordWhenAuctionOver

(* The landlord opens the play: as long as nobody has played it is the     *)
(* landlord's turn, and the landlord must not pass.                        *)
LandlordLeads ==
  status = "gaming" /\ banker_seat = 0 => curr_turn = dizhu_seat

(* The auction of the table keeps the promises of module LandlordAuction:  *)
(* the landlord is the last bidder, a deal is thrown away only when nobody *)
(* has bid, nobody is forced before the counted redeals are used up.       *)
AuctionPhase ==
  CASE status = "not_gaming" -> "idle"
    [] status \in {"sendpokers", "jiaodizhu", "qiangdizhu"} -> "bidding"
    [] OTHER -> "settled"

Auction == INSTANCE LandlordAuction
  WITH phase <- AuctionPhase, landlord <- dizhu_seat, redeals <- jdz_liuju

ImplementsAuction == Auction!AuctionSpec

(* Nobody gets up from a table in the middle of a round, and no step other *)
(* than a play of a last card ends one.                                    *)
RoundEndsByLastCard ==
  [][/\ status # "not_gaming" => UNCHANGED seats
     /\ status # "not_gaming" /\ status' = "not_gaming" =>
          status = "gaming" /\ \E p \in Plays : hand[curr_turn] = p.n]_vars

(* A dealt hand is followed by the auction, by timeouts alone, whatever    *)
(* the players do.                                                         *)
DealIsAnswered == status = "sendpokers" ~> status = "jiaodizhu"

(* An auction with a bid leads to the play, by timeouts alone.             *)
AuctionSettles == bidder # 0 ~> status = "gaming"

(* A round whose players take their turns, which no timer makes them do,   *)
(* ends: nobody passes on the lead, so every trick costs somebody cards.   *)
PlayEnds == WF_vars(\E s \in Seat : TakeTurn(s)) =>
              (status = "gaming" ~> status = "not_gaming")

(* A dealt round goes on, phase by phase, whoever keeps silent up to the   *)
(* play.                                                                   *)
RoundGoesOn == DealIsAnswered /\ AuctionSettles /\ PlayEnds

(* game.lua:315 says reset_room resets the data that must be reset for     *)
(* each round: the multiplier starts at 1.                                 *)
RoundStartsAtSingleStake ==
  status = "not_gaming" => beishu = 1
=============================================================================
