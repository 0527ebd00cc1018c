---------------------------- MODULE DdzRoomProofs ----------------------------
(***************************************************************************)
(* Theorems about module DdzRoom, for every set of players, every size of  *)
(* the deal, every limit on redeals and every set of plays.                *)
(***************************************************************************)
EXTENDS DdzRoom, TLAPS

(* TableInv is the type invariant and what it needs to be inductive: the   *)
(* turn of the play and the random first turn of the auction are seats     *)
(* only because the table is full, and the table is full only because the  *)
(* room waits for nobody between rounds.                                   *)

(* What the walks over the three seats return: a seat, or 0 for none.      *)
LEMMA SeatFacts ==
  /\ \A s \in Seat : /\ NextSeat(s) \in Seat /\ NextSeat(s) # s
                     /\ NextSeat(NextSeat(s)) \in Seat
                     /\ NextSeat(NextSeat(s)) # s
                     /\ NextSeat(NextSeat(NextSeat(s))) = s
                     /\ Seat = {s, NextSeat(s), NextSeat(NextSeat(s))}
  /\ \A S : \A s \in Seat : FirstAfter(s, S) \in AnySeat
  /\ \A S : FirstOf(S) \in AnySeat /\ LastOf(S) \in AnySeat
  BY DEF NextSeat, Seat, AnySeat, FirstAfter, FirstOf, LastOf

(* An empty room satisfies the table invariant.                            *)
LEMMA InitTable == Init => TableInv
  BY RoundAssumption DEF Init, TableInv, TypeOK, FullTable,
     WaitsForTheRightSeats, All, Empty, Seat, AnySeat, Statuses, Turns,
     Actions, Timer, NoTimer, NoPlay

(* Sitting down at a table between rounds keeps the table invariant.       *)
LEMMA EnterTable ==
  ASSUME TableInv, NEW p \in Players, Enter(p)
  PROVE  TableInv'
  BY SeatFacts DEF Enter, TableInv, TypeOK, FullTable, WaitsForTheRightSeats,
     table, turn, auction, showing, cards, trick, All, Only, Empty

(* Leaving between rounds keeps the table invariant: no round was on.      *)
LEMMA LeaveTable ==
  ASSUME TableInv, NEW s \in Seat, Leave(s)
  PROVE  TableInv'
  BY DEF Leave, MayLeave, TableInv, TypeOK, FullTable, WaitsForTheRightSeats,
     table, turn, auction, showing, cards, trick, All, Only, Empty, Timer,
     Seat, Gone, NoTimer, Actions

(* The deal of helper_game_start, at a full table, makes every seat a      *)
(* playing one and asks each for its mingpai answer.                       *)
LEMMA DealTable ==
  ASSUME TableInv, NEW held \in [Seat -> Nat], NEW onTable \in Nat,
         NEW shown \in [Seat -> {-1, 0, 1}], NEW T \in SUBSET Timer,
         Deal(held, 0, onTable, shown, T)
  PROVE  /\ status' = "sendpokers" /\ play_seats' = 3
         /\ ingame' = All(TRUE)
         /\ hand' \in [Seat -> Nat] /\ bottom' \in Nat
         /\ chued' = chued /\ broken' = broken
         /\ mingpai' = shown
         /\ waiting' \in [Seat -> SUBSET Actions]
         /\ \A s \in Seat :
              waiting'[s] = IF mingpai'[s] = -1 THEN {"mingpai"} ELSE {}
         /\ timers' \in SUBSET Timer
  BY CardsAssumption DEF Deal, AddTimer, All, Actions, Timer, Gone

(* Announcing readiness keeps the table invariant, whether or not it is    *)
(* the third seat's and starts the round.                                  *)
LEMMA ReadyTable ==
  ASSUME TableInv, NEW s \in Seat, NEW show \in BOOLEAN, Ready(s, show)
  PROVE  TableInv'
  <1> DEFINE shown == IF show THEN [mingpai EXCEPT ![s] = 1] ELSE mingpai
  <1>1. /\ shown \in [Seat -> {-1, 0, 1}] /\ ready' \in [Seat -> BOOLEAN]
        /\ status = "not_gaming" /\ play_seats = 0
    BY DEF Ready, TableInv, TypeOK, FullTable
  <1>2. CASE \A t \in Seat : seats[t] # None /\ ready'[t]
    <2>1. /\ Deal(hand, play_seats, bottom, shown, timers)
          /\ UNCHANGED <<seats, curr_turn, auction, first_mingpai_seat,
                         trick, jiabei, beishu, fired>>
      BY <1>2 DEF Ready
    <2>2. /\ hand \in [Seat -> Nat] /\ bottom \in Nat
          /\ timers \in SUBSET Timer
      BY DEF TableInv, TypeOK
    <2> HIDE DEF shown
    <2>3. Deal(hand, 0, bottom, shown, timers)
      BY <2>1, <1>1
    <2>4. /\ status' = "sendpokers" /\ play_seats' = 3
          /\ ingame' = All(TRUE)
          /\ hand' \in [Seat -> Nat] /\ bottom' \in Nat
          /\ chued' = chued /\ broken' = broken
          /\ mingpai' = shown
          /\ waiting' \in [Seat -> SUBSET Actions]
          /\ \A t \in Seat :
               waiting'[t] = IF mingpai'[t] = -1 THEN {"mingpai"} ELSE {}
          /\ timers' \in SUBSET Timer
      BY <2>2, <2>3, <1>1, DealTable
    <2>5. TypeOK'
      BY <2>1, <2>4, <1>1
         DEF TableInv, TypeOK, auction, trick, All, Statuses
    <2>6. FullTable'
      BY <2>1, <2>4, <1>2 DEF FullTable, All
    <2>7. QED
      BY <2>4, <2>5, <2>6 DEF TableInv, WaitsForTheRightSeats
  <1>3. CASE ~ \A t \in Seat : seats[t] # None /\ ready'[t]
    <2>1. /\ mingpai' = shown
          /\ UNCHANGED <<seats, ingame, play_seats, turn, auction,
                         first_mingpai_seat, cards, trick, jiabei, beishu,
                         timers, fired>>
      BY <1>3 DEF Ready
    <2>2. TypeOK'
      BY <2>1, <1>1 DEF TableInv, TypeOK, turn, auction, trick, cards
    <2>3. QED
      BY <2>1, <2>2, <1>1
         DEF TableInv, FullTable, WaitsForTheRightSeats, turn
  <1>4. QED
    BY <1>2, <1>3

(* The steps of a round: when the table is full and stays so, a step has   *)
(* to be looked at for the types and for what the room waits for only.     *)
LEMMA RoundTable ==
  ASSUME TableInv, status # "not_gaming", TypeOK', WaitsForTheRightSeats',
         status' # "not_gaming",
         UNCHANGED table
  PROVE  TableInv'
  BY DEF TableInv, FullTable, table

(* A mingpai answer keeps the table invariant: the last one opens the      *)
(* auction, the others are removed from what the room waits for.           *)
LEMMA MingpaiTable ==
  ASSUME TableInv, NEW s \in Seat, NEW reply \in {0, 1}, Mingpai(s, reply)
  PROVE  TableInv'
  <1>1. /\ mingpai' \in [Seat -> {-1, 0, 1}]
        /\ first_mingpai_seat' \in AnySeat
        /\ status # "not_gaming"
    BY DEF Mingpai, TableInv, TypeOK, WaitsForTheRightSeats, Empty, All, Seat,
           AnySeat
  <1>2. CASE status = "sendpokers" /\ \A t \in Seat : mingpai'[t] # -1
    <2>1. PICK t \in Seat : /\ curr_turn' = t
                            /\ waiting' = Only(t, {"jdz"})
                            /\ timers' = AddTimer(KillTimer("mingpai", 0), "jdz", t)
                            /\ status' = "jiaodizhu"
      BY <1>1, <1>2 DEF Mingpai, ToJdz, TableInv, FullTable, Seat, AnySeat
    <2>2. timers' \subseteq Timer
      BY <2>1 DEF AddTimer, KillTimer, TableInv, TypeOK, Timer, Actions, Seat,
         Gone
    <2>3. TypeOK'
      BY <2>1, <2>2, <1>1
         DEF Mingpai, TableInv, TypeOK, table, auction, cards, trick, Only,
             Actions, Seat, AnySeat, Statuses, Turns
    <2>4. QED
      BY <2>1, <2>3, <1>1, RoundTable
         DEF Mingpai, WaitsForTheRightSeats, Seat
  <1>3. CASE status = "sendpokers" /\ ~ \A t \in Seat : mingpai'[t] # -1
    <2>1. /\ waiting' = [waiting EXCEPT ![s] = {}]
          /\ UNCHANGED <<status, curr_turn, timers>>
      BY <1>3 DEF Mingpai
    <2>2. TypeOK'
      BY <2>1, <1>1 DEF Mingpai, TableInv, TypeOK, table, auction, cards, trick
    <2>3. \A t \in Seat :
            waiting'[t] = IF mingpai'[t] = -1 THEN {"mingpai"} ELSE {}
      <3>1. /\ mingpai' = [mingpai EXCEPT ![s] = reply]
            /\ mingpai \in [Seat -> {-1, 0, 1}]
            /\ waiting \in [Seat -> SUBSET Actions]
        BY DEF Mingpai, TableInv, TypeOK
      <3>2. \A t \in Seat :
              waiting[t] = IF mingpai[t] = -1 THEN {"mingpai"} ELSE {}
        BY <1>3 DEF TableInv, WaitsForTheRightSeats
      <3>3. waiting'[s] = {} /\ mingpai'[s] # -1
        BY <2>1, <3>1
      <3>4. \A t \in Seat \ {s} : waiting'[t] = waiting[t]
                                /\ mingpai'[t] = mingpai[t]
        BY <2>1, <3>1
      <3>5. QED
        BY <3>2, <3>3, <3>4
    <2>4. WaitsForTheRightSeats'
      BY <2>1, <2>3, <1>3 DEF WaitsForTheRightSeats
    <2>5. UNCHANGED table
      BY DEF Mingpai
    <2>6. QED
      BY <2>1, <2>2, <2>4, <2>5, <1>3, RoundTable
  <1>4. CASE status # "sendpokers"
    <2>1. UNCHANGED <<turn, timers, jiabei, table>>
      BY <1>4 DEF Mingpai
    <2>2. TypeOK'
      BY <2>1, <1>1
         DEF Mingpai, TableInv, TypeOK, table, auction, cards, trick, turn
    <2>3. WaitsForTheRightSeats'
      BY <2>1, <1>4 DEF WaitsForTheRightSeats, TableInv, turn
    <2>4. status' # "not_gaming"
      BY <2>1, <1>1 DEF turn
    <2>5. QED
      BY <2>1, <2>2, <2>3, <2>4, <1>1, RoundTable
  <1>5. QED
    BY <1>2, <1>3, <1>4

(* ToQdz, ToJiabei, ToChupai: the phases a bid, a refusal or a timeout     *)
(* leads to.                                                               *)
LEMMA TimersKept ==
  ASSUME timers \subseteq Timer, NEW id \in Actions, NEW tag \in AnySeat
  PROVE  /\ KillTimer(id, tag) \subseteq Timer
         /\ \A T \in SUBSET Timer : AddTimer(T, id, tag) \subseteq Timer
  BY DEF KillTimer, AddTimer, Timer, AnySeat, Gone

(* The step to the grabbing waits for exactly the next seat.               *)
LEMMA ToQdzTable ==
  ASSUME TableInv, status # "not_gaming", NEW t \in Seat,
         NEW T \in SUBSET Timer, ToQdz(t, T),
         jdz' \in [Seat -> {-1, 0, 1}], qdz' \in [Seat -> {-1, 0, 1}],
         jdz_liuju' = jdz_liuju, bidder' \in AnySeat,
         beishu' \in 1..MaxBeishu, fired' \in Timer \cup {NoTimer}
  PROVE  TableInv'
  <1>1. timers' \subseteq Timer
    BY TimersKept DEF ToQdz, TableInv, TypeOK, Actions, Seat, AnySeat
  <1>2. /\ status' = "qiangdizhu" /\ curr_turn' = t
        /\ waiting' = Only(t, {"qdz"})
    BY DEF ToQdz
  <1>3. TypeOK'
    BY <1>1, <1>2 DEF ToQdz, TableInv, TypeOK, cards, trick, showing, Only,
       Actions, Seat, AnySeat, Statuses, Turns
  <1>4. UNCHANGED table
    BY DEF ToQdz, TableInv, FullTable, table
  <1>5. QED
    BY <1>2, <1>3, <1>4, RoundTable DEF WaitsForTheRightSeats, Seat

(* The step to the doubling waits for all three seats.                     *)
LEMMA ToJiabeiTable ==
  ASSUME TableInv, status # "not_gaming", jiabei = All(-1), NEW d \in Seat,
         NEW T \in SUBSET Timer, ToJiabei(d, T),
         jdz' \in [Seat -> {-1, 0, 1}], qdz' \in [Seat -> {-1, 0, 1}],
         jdz_liuju' = jdz_liuju, bidder' \in AnySeat,
         beishu' \in 1..MaxBeishu, fired' \in Timer \cup {NoTimer}
  PROVE  TableInv'
  <1>1. timers' \subseteq Timer
    BY TimersKept DEF ToJiabei, TableInv, TypeOK, Actions, Seat, AnySeat
  <1>2. /\ status' = "jiabei" /\ curr_turn' = d
        /\ waiting' = All({"jiabei"}) /\ jiabei' = All(-1)
        /\ dizhu_seat' \in AnySeat
    BY DEF ToJiabei, Dizhu, TableInv, TypeOK, Seat, AnySeat
  <1>3. hand' \in [Seat -> Nat]
    BY DEF ToJiabei, TableInv, TypeOK
  <1>4. TypeOK'
    BY <1>1, <1>2, <1>3
       DEF ToJiabei, TableInv, TypeOK, trick, showing, All, Actions, Seat,
           AnySeat, Statuses
  <1>5. UNCHANGED table
    BY DEF ToJiabei, table
  <1>6. QED
    BY <1>2, <1>4, <1>5, RoundTable DEF WaitsForTheRightSeats, All

(* The step to the play waits for the landlord.                            *)
LEMMA ToChupaiTable ==
  ASSUME TableInv, status # "not_gaming", NEW t \in Seat,
         NEW h \in [Seat -> Nat], NEW T \in SUBSET Timer, ToChupai(t, h, T),
         UNCHANGED <<table, auction, showing, bottom, broken>>,
         chued' \in [Seat -> Nat], jiabei' \in [Seat -> Nat \cup {-1}],
         banker_seat' \in AnySeat, last' \in Plays \cup {NoPlay},
         beishu' \in 1..MaxBeishu, fired' \in Timer \cup {NoTimer}
  PROVE  TableInv'
  <1>1. timers' \subseteq Timer
    BY DEF ToChupai, AddTimer
  <1>2. /\ status' = "gaming" /\ curr_turn' = t /\ hand' = h
        /\ waiting' \in [Seat -> SUBSET Actions]
        /\ \A s \in Seat : ("chupai" \in waiting'[s]) <=> (s = t)
    BY DEF ToChupai, Only, Actions
  <1>3. TypeOK'
    BY <1>1, <1>2
       DEF TableInv, TypeOK, table, auction, showing, Seat, AnySeat, Statuses,
           Turns
  <1>4. QED
    BY <1>2, <1>3, RoundTable DEF WaitsForTheRightSeats, Seat

(* A redeal waits for the mingpai answers of all three seats again.        *)
LEMMA RedealTable ==
  ASSUME TableInv, status # "not_gaming", NEW T \in SUBSET Timer, Redeal(T),
         jdz_liuju' \in 0..MaxRedeals, fired' \in Timer \cup {NoTimer}
  PROVE  TableInv'
  <1>1. /\ status' = "sendpokers" /\ play_seats' = 3
        /\ ingame' = All(TRUE)
        /\ hand' \in [Seat -> Nat] /\ bottom' \in Nat
        /\ chued' = chued /\ broken' = broken
        /\ mingpai' = All(-1)
        /\ waiting' \in [Seat -> SUBSET Actions]
        /\ \A s \in Seat :
             waiting'[s] = IF mingpai'[s] = -1 THEN {"mingpai"} ELSE {}
        /\ timers' \in SUBSET Timer
    <2>1. Deal(All(0), 0, 0, All(-1), T)
      BY DEF Redeal, HeldAfterReset, ListedAfterReset, BottomAfterReset
    <2>2. All(0) \in [Seat -> Nat] /\ All(-1) \in [Seat -> {-1, 0, 1}]
      BY DEF All
    <2>3. QED
      BY <2>1, <2>2, DealTable
  <1>2. TypeOK'
    BY <1>1 DEF Redeal, TableInv, TypeOK, All, AnySeat, Statuses
  <1>3. FullTable'
    BY <1>1 DEF Redeal, TableInv, FullTable, All
  <1>4. QED
    BY <1>1, <1>2, <1>3 DEF TableInv, WaitsForTheRightSeats

-----------------------------------------------------------------------------
(* The auction.  Everything an auction step looks at is fixed by the seat  *)
(* that called first and the two seats after it.                           *)
InAuction == \E c \in Seat : GrabbedInTurn(c, NextSeat(c), NextSeat(NextSeat(c)))

(* Three steps around the table come back to the seat one started at.      *)
LEMMA Around ==
  ASSUME NEW c \in Seat
  PROVE  \E a, b \in Seat :
           /\ a = NextSeat(c) /\ b = NextSeat(a) /\ c = NextSeat(b)
           /\ a # b /\ a # c /\ b # c /\ Seat = {a, b, c}
           /\ 0 \notin Seat
  BY DEF NextSeat, Seat

(* The first and the last of one seat are that seat.                       *)
LEMMA Singles ==
  ASSUME NEW t \in Seat
  PROVE  FirstOf({t}) = t /\ LastOf({t}) = t
  BY DEF FirstOf, LastOf, Seat

(* After the first call, the seat that called has the others after it and  *)
(* the grabbing is in order.                                               *)
LEMMA CallStep ==
  ASSUME TableInv, AuctionInv, status = "jiaodizhu", NEW s \in Seat,
         curr_turn = s, NEW T, Call(s, T)
  PROVE  /\ jdz' \in [Seat -> {-1, 0, 1}]
         /\ bidder' = s /\ UNCHANGED <<qdz, jdz_liuju, beishu>>
         /\ \/ \E t \in Seat : ToQdz(t, T) /\ InAuction'
            \/ ToJiabei(bidder', T)
  <1>1. PICK a, b \in Seat :
           /\ a = NextSeat(s) /\ b = NextSeat(a) /\ s = NextSeat(b)
           /\ a # b /\ a # s /\ b # s /\ Seat = {a, b, s}
           /\ 0 \notin Seat
    BY Around
  <1>2. /\ jdz[s] = -1 /\ jdz[a] \in {-1, 0} /\ jdz[b] \in {-1, 0}
        /\ qdz[s] = -1 /\ qdz[a] = -1 /\ qdz[b] = -1
        /\ jdz \in [Seat -> {-1, 0, 1}] /\ qdz \in [Seat -> {-1, 0, 1}]
    BY DEF AuctionInv, AuctionOrder, AskedInTurn, All, TableInv, TypeOK
  <1>3. /\ jdz' = [jdz EXCEPT ![s] = 1] /\ bidder' = s
        /\ UNCHANGED <<qdz, jdz_liuju, beishu>>
    BY DEF Call
  <1>4. /\ jdz' \in [Seat -> {-1, 0, 1}]
        /\ jdz'[s] = 1 /\ jdz'[a] = jdz[a] /\ jdz'[b] = jdz[b]
        /\ qdz'[s] = -1 /\ qdz'[a] = -1 /\ qdz'[b] = -1
    BY <1>1, <1>2, <1>3
  <1> DEFINE t == FirstAfter(s, {u \in Seat : jdz[u] # 0})
  <1>5. \/ t = a /\ jdz[a] = -1
        \/ t = b /\ jdz[a] = 0 /\ jdz[b] = -1
        \/ t = 0
    BY <1>1, <1>2 DEF FirstAfter
  <1>6. IF t # 0 THEN ToQdz(t, T) ELSE ToJiabei(s, T)
    BY DEF Call
  <1> HIDE DEF t
  <1>7. CASE t # 0
    <2>1. ToQdz(t, T) /\ curr_turn' = t
      BY <1>6, <1>7 DEF ToQdz
    <2>2. GrabbedInTurn(s, a, b)'
      <3>1. /\ jdz'[s] = 1 /\ jdz'[a] # 1 /\ jdz'[b] # 1
            /\ \A u \in {a, b} : qdz'[u] = -1
            /\ bidder' = s
        BY <1>2, <1>3, <1>4
      <3>2. CASE t = a /\ jdz[a] = -1
        BY <2>1, <3>1, <3>2, <1>4 DEF GrabbedInTurn
      <3>3. CASE t = b /\ jdz[a] = 0 /\ jdz[b] = -1
        BY <2>1, <3>1, <3>3, <1>4 DEF GrabbedInTurn
      <3>4. QED
        BY <3>2, <3>3, <1>5, <1>7
    <2>3. InAuction'
      BY <2>2, <1>1 DEF InAuction
    <2>4. QED
      BY <2>1, <2>3, <1>1, <1>3, <1>4, <1>5, <1>7
  <1>8. CASE t = 0
    BY <1>3, <1>4, <1>6, <1>8
  <1>9. QED
    BY <1>7, <1>8

(* A grab keeps the grabbing in order, or makes the grabber the landlord.  *)
LEMMA GrabStep ==
  ASSUME TableInv, AuctionInv, status = "qiangdizhu", NEW s \in Seat,
         curr_turn = s, NEW T, Grab(s, T)
  PROVE  /\ qdz' \in [Seat -> {-1, 0, 1}]
         /\ bidder' = s /\ UNCHANGED <<jdz, jdz_liuju>>
         /\ \/ \E t \in Seat : ToQdz(t, T) /\ InAuction'
            \/ ToJiabei(bidder', T)
  <1>1. PICK c \in Seat : GrabbedInTurn(c, NextSeat(c), NextSeat(NextSeat(c)))
    BY DEF AuctionInv, AuctionOrder
  <1>2. PICK a, b \in Seat :
           /\ a = NextSeat(c) /\ b = NextSeat(a) /\ c = NextSeat(b)
           /\ a # b /\ a # c /\ b # c /\ Seat = {a, b, c}
           /\ 0 \notin Seat
    BY Around
  <1>3. /\ GrabbedInTurn(c, a, b)
        /\ jdz \in [Seat -> {-1, 0, 1}] /\ qdz \in [Seat -> {-1, 0, 1}]
    BY <1>1, <1>2 DEF TableInv, TypeOK
  <1>4. /\ qdz' = [qdz EXCEPT ![s] = 1] /\ bidder' = s
        /\ UNCHANGED <<jdz, jdz_liuju>>
    BY DEF Grab, ToQdz, ToJiabei
  <1>5. /\ qdz' \in [Seat -> {-1, 0, 1}] /\ qdz'[s] = 1
        /\ \A u \in Seat \ {s} : qdz'[u] = qdz[u]
    BY <1>3, <1>4
  <1>6. CASE jdz[s] = 1 \/ qdz[s] = 1
    BY <1>4, <1>5, <1>6 DEF Grab
  <1>7. CASE ~(jdz[s] = 1 \/ qdz[s] = 1)
    <2> DEFINE t == FirstAfter(s, {u \in Seat : qdz[u] # 0 /\ jdz[u] # 0})
    <2>1. ToQdz(t, T)
      BY <1>7 DEF Grab
    <2>2. \/ s = a /\ qdz[b] = -1 /\ qdz[c] = -1
          \/ s = b /\ qdz[c] = -1 /\ (jdz[a] = -1 => qdz[a] # -1)
      BY <1>2, <1>3, <1>7 DEF GrabbedInTurn
    <2>3. \/ t = b /\ s = a /\ jdz[b] # 0
          \/ t = c /\ s = a /\ jdz[b] = 0
          \/ t = c /\ s = b
      <3>1. /\ jdz[c] = 1 /\ qdz[c] = -1
            /\ s = a => qdz[b] = -1
        BY <1>2, <1>3, <2>2 DEF GrabbedInTurn
      <3>2. CASE s = a
        <4>1. t = IF qdz[b] # 0 /\ jdz[b] # 0 THEN b
                  ELSE IF qdz[c] # 0 /\ jdz[c] # 0 THEN c ELSE 0
          BY <1>2, <3>2 DEF FirstAfter
        <4>2. QED
          BY <3>1, <3>2, <4>1
      <3>3. CASE s = b
        <4>1. NextSeat(s) \in {u \in Seat : qdz[u] # 0 /\ jdz[u] # 0}
          BY <1>2, <3>1, <3>3
        <4>2. QED
          BY <1>2, <3>3, <4>1 DEF FirstAfter
      <3>4. QED
        BY <2>2, <3>2, <3>3
    <2> HIDE DEF t
    <2>4. curr_turn' = t
      BY <2>1 DEF ToQdz
    <2>5. GrabbedInTurn(c, a, b)'
      BY <1>2, <1>3, <1>4, <1>5, <2>2, <2>3, <2>4 DEF GrabbedInTurn
    <2>6. InAuction'
      BY <2>5, <1>2 DEF InAuction
    <2>7. QED
      BY <2>1, <2>3, <2>6, <1>4, <1>5
  <1>8. QED
    BY <1>6, <1>7

(* A refusal, or a timeout, of the seat asked: the next seat is asked, or  *)
(* the last bidder becomes the landlord.                                   *)
LEMMA DeclineStep ==
  ASSUME TableInv, AuctionInv, status = "qiangdizhu", NEW s \in Seat,
         curr_turn = s, NEW T, Decline(s, T)
  PROVE  /\ qdz' \in [Seat -> {-1, 0, 1}]
         /\ bidder \in Seat /\ UNCHANGED <<jdz, jdz_liuju, bidder, beishu>>
         /\ \/ \E t \in Seat : ToQdz(t, T) /\ InAuction'
            \/ ToJiabei(bidder', T)
  <1>1. PICK c \in Seat : GrabbedInTurn(c, NextSeat(c), NextSeat(NextSeat(c)))
    BY DEF AuctionInv, AuctionOrder
  <1>2. PICK a, b \in Seat :
           /\ a = NextSeat(c) /\ b = NextSeat(a) /\ c = NextSeat(b)
           /\ a # b /\ a # c /\ b # c /\ Seat = {a, b, c}
           /\ 0 \notin Seat
    BY Around
  <1>3. /\ GrabbedInTurn(c, a, b)
        /\ jdz \in [Seat -> {-1, 0, 1}] /\ qdz \in [Seat -> {-1, 0, 1}]
    BY <1>1, <1>2 DEF TableInv, TypeOK
  <1>4. /\ jdz[c] = 1 /\ jdz[a] \in {-1, 0} /\ jdz[b] \in {-1, 0}
        /\ jdz[a] = 0 => qdz[a] = -1
        /\ jdz[b] = 0 => qdz[b] = -1
        /\ bidder = IF qdz[b] = 1 THEN b ELSE IF qdz[a] = 1 THEN a ELSE c
        /\ bidder \in Seat
    BY <1>2, <1>3 DEF GrabbedInTurn
  <1>5. UNCHANGED <<jdz, jdz_liuju, bidder, beishu>>
    BY DEF Decline
  <1>6. \A t : ToQdz(t, T) => curr_turn' = t
    BY DEF ToQdz
  <1>7. GrabbedInTurn(c, a, b)' => InAuction'
    BY <1>2 DEF InAuction
  (* a, asked first, refuses. *)
  <1>a. CASE /\ s = a /\ jdz[a] = -1
             /\ qdz[a] = -1 /\ qdz[b] = -1 /\ qdz[c] = -1
    <2>1. OtherDeclines(s, T) /\ qdz' = [qdz EXCEPT ![s] = 0]
      BY <1>a DEF Decline, CallerDeclines, GrabberDeclines, OtherDeclines
    <2>2. /\ qdz' \in [Seat -> {-1, 0, 1}] /\ qdz'[a] = 0
          /\ qdz'[b] = -1 /\ qdz'[c] = -1
      BY <2>1, <1>a, <1>2, <1>3
    <2>3. CASE jdz[b] = -1
      <3>1. {u \in Seat \ {s} : jdz[u] = -1 /\ qdz[u] = -1} = {b}
        BY <2>3, <1>a, <1>2, <1>4
      <3>2. ToQdz(b, T)
        BY <2>1, <3>1, Singles DEF OtherDeclines
      <3>3. GrabbedInTurn(c, a, b)'
        BY <2>2, <2>3, <3>2, <1>a, <1>2, <1>4, <1>5, <1>6 DEF GrabbedInTurn
      <3>4. QED
        BY <2>2, <3>2, <3>3, <1>4, <1>5, <1>7
    <2>4. CASE jdz[b] = 0
      <3>1. /\ {u \in Seat \ {s} : jdz[u] = -1 /\ qdz[u] = -1} = {}
            /\ {u \in Seat \ {s} : jdz[u] = -1 /\ qdz[u] = 1} = {}
            /\ {u \in Seat : jdz[u] = 1} = {c}
        BY <2>4, <1>a, <1>2, <1>4
      <3>2. ToJiabei(c, T)
        BY <2>1, <3>1, Singles DEF OtherDeclines
      <3>3. QED
        BY <2>2, <3>2, <1>a, <1>4, <1>5
    <2>5. QED
      BY <2>3, <2>4, <1>4
  (* b, asked second, refuses. *)
  <1>b. CASE /\ s = b /\ jdz[b] = -1 /\ qdz[b] = -1 /\ qdz[c] = -1
             /\ jdz[a] = -1 => qdz[a] # -1
    <2>1. OtherDeclines(s, T) /\ qdz' = [qdz EXCEPT ![s] = 0]
      BY <1>b DEF Decline, CallerDeclines, GrabberDeclines, OtherDeclines
    <2>2. /\ qdz' \in [Seat -> {-1, 0, 1}] /\ qdz'[b] = 0
          /\ qdz'[a] = qdz[a] /\ qdz'[c] = -1
      BY <2>1, <1>b, <1>2, <1>3
    <2>3. {u \in Seat \ {s} : jdz[u] = -1 /\ qdz[u] = -1} = {}
      BY <1>b, <1>2, <1>4
    <2>4. CASE qdz[a] = 1
      <3>1. {u \in Seat \ {s} : jdz[u] = -1 /\ qdz[u] = 1} # {}
        BY <2>4, <1>b, <1>2, <1>4
      <3>2. ToQdz(c, T)
        BY <2>1, <2>3, <3>1, <1>b, <1>2 DEF OtherDeclines
      <3>3. GrabbedInTurn(c, a, b)'
        BY <2>2, <2>4, <3>2, <1>b, <1>2, <1>4, <1>5, <1>6 DEF GrabbedInTurn
      <3>4. QED
        BY <2>2, <3>2, <3>3, <1>4, <1>5, <1>7
    <2>5. CASE qdz[a] # 1
      <3>1. /\ {u \in Seat \ {s} : jdz[u] = -1 /\ qdz[u] = 1} = {}
            /\ {u \in Seat : jdz[u] = 1} = {c}
        BY <2>5, <1>b, <1>2, <1>4
      <3>2. ToJiabei(c, T)
        BY <2>1, <2>3, <3>1, Singles DEF OtherDeclines
      <3>3. QED
        BY <2>2, <2>5, <3>2, <1>b, <1>4, <1>5
    <2>6. QED
      BY <2>4, <2>5
  (* The caller refuses. *)
  <1>c. CASE s = c /\ qdz[c] = -1 /\ (qdz[a] = 1 \/ qdz[b] = 1)
    <2> DEFINE t == FirstAfter(s, Grabbed(s))
    <2>1. /\ qdz' = [qdz EXCEPT ![s] = 0]
          /\ IF Grabbed(s) = {t} THEN ToJiabei(t, T) ELSE ToQdz(t, T)
      BY <1>c, <1>4 DEF Decline, CallerDeclines, GrabberDeclines, OtherDeclines
    <2>2. /\ qdz' \in [Seat -> {-1, 0, 1}] /\ qdz'[c] = 0
          /\ qdz'[a] = qdz[a] /\ qdz'[b] = qdz[b]
      BY <2>1, <1>c, <1>2, <1>3
    <2>3. Grabbed(s) = {u \in {a, b} : qdz[u] = 1}
      BY <1>c, <1>2 DEF Grabbed
    <2>4. t = IF qdz[a] = 1 THEN a ELSE b
      BY <2>3, <1>c, <1>2 DEF FirstAfter
    <2> HIDE DEF t
    <2>5. CASE qdz[a] = 1 /\ qdz[b] = 1
      <3>1. Grabbed(s) # {t} /\ t = a
        BY <2>3, <2>4, <2>5, <1>2
      <3>2. ToQdz(a, T)
        BY <2>1, <3>1
      <3>3. GrabbedInTurn(c, a, b)'
        BY <2>2, <2>5, <3>2, <1>2, <1>4, <1>5, <1>6 DEF GrabbedInTurn
      <3>4. QED
        BY <2>2, <3>2, <3>3, <1>4, <1>5, <1>7
    <2>6. CASE ~(qdz[a] = 1 /\ qdz[b] = 1)
      <3>1. Grabbed(s) = {t} /\ t = bidder
        BY <2>3, <2>4, <2>6, <1>c, <1>2, <1>4
      <3>2. QED
        BY <2>1, <2>2, <3>1, <1>4, <1>5
    <2>7. QED
      BY <2>5, <2>6
  (* Both others grabbed, the caller refused, and now a refuses as well. *)
  <1>d. CASE s = a /\ qdz[a] = 1 /\ qdz[b] = 1 /\ qdz[c] = 0
    <2>1. UNCHANGED qdz /\ ToJiabei(FirstOf(Grabbed(s)), T)
      BY <1>d, <1>4 DEF Decline, CallerDeclines, GrabberDeclines, OtherDeclines
    <2>2. Grabbed(s) = {b}
      BY <1>d, <1>2 DEF Grabbed
    <2>3. QED
      BY <2>1, <2>2, <1>d, <1>3, <1>4, <1>5, Singles
  <1>8. QED
    BY <1>a, <1>b, <1>c, <1>d, <1>3 DEF GrabbedInTurn

(* A refusal in the calling asks the next seat that has not been asked.    *)
LEMMA AskStep ==
  ASSUME TableInv, AuctionInv, status = "jiaodizhu", NEW s \in Seat,
         curr_turn = s, NEW T \in SUBSET Timer, AskNextSeat(s, T),
         fired' \in Timer \cup {NoTimer}
  PROVE  TableInv' /\ AuctionInv'
  <1>1. PICK a, b \in Seat :
           /\ a = NextSeat(s) /\ b = NextSeat(a) /\ s = NextSeat(b)
           /\ a # b /\ a # s /\ b # s /\ Seat = {a, b, s}
           /\ 0 \notin Seat
    BY Around
  <1>2. /\ jdz[s] = -1 /\ jdz[a] = -1 /\ jdz[b] \in {-1, 0}
        /\ jdz \in [Seat -> {-1, 0, 1}] /\ qdz = All(-1) /\ bidder = 0
    BY <1>1 DEF AuctionInv, AuctionOrder, AskedInTurn, TableInv, TypeOK,
                AskNextSeat
  <1>3. /\ jdz' = [jdz EXCEPT ![s] = 0] /\ curr_turn' = a
        /\ waiting' = Only(a, {"jdz"}) /\ timers' = AddTimer(T, "jdz", a)
        /\ UNCHANGED <<status, table, qdz, jdz_liuju, dizhu_seat, bidder,
                       showing, cards, trick, jiabei, beishu>>
    BY <1>1 DEF AskNextSeat
  <1>4. /\ jdz' \in [Seat -> {-1, 0, 1}] /\ jdz' \in [Seat -> {-1, 0}]
        /\ jdz'[s] = 0 /\ jdz'[a] = -1 /\ jdz'[b] = jdz[b]
    BY <1>1, <1>2, <1>3
  <1>5. AskedInTurn'
    BY <1>1, <1>3, <1>4 DEF AskedInTurn
  <1>6. AuctionInv'
    BY <1>2, <1>3, <1>5 DEF AuctionInv, AuctionOrder, LandlordIsLastBidder,
       LandlordWhenAuctionOver, All
  <1>7. timers' \subseteq Timer
    BY <1>3, TimersKept DEF TableInv, TypeOK, Actions, Seat, AnySeat
  <1>8. TypeOK'
    BY <1>3, <1>4, <1>7
       DEF TableInv, TypeOK, table, showing, cards, trick, Only, Actions,
           Seat, AnySeat, Statuses, Turns
  <1>9. QED
    BY <1>1, <1>3, <1>6, <1>8, RoundTable DEF WaitsForTheRightSeats

-----------------------------------------------------------------------------
(* The inductive invariant.  Nobody has said whether to double the stake   *)
(* before the landlord is known.                                           *)
Unanswered == status \notin {"jiabei", "gaming"} => jiabei = All(-1)

(* While the stake is doubled the turn is already the landlord's.          *)
LandlordNext ==
  /\ status = "jiabei" => curr_turn = dizhu_seat
  /\ LandlordLeads

RoundInv == TableInv /\ AuctionInv /\ Unanswered /\ LandlordNext

(* A bid or a refusal that leads to the next seat or to the landlord.      *)
LEMMA BidInv ==
  ASSUME RoundInv, status \in {"jiaodizhu", "qiangdizhu"},
         NEW T \in SUBSET Timer,
         \/ \E t \in Seat : ToQdz(t, T) /\ InAuction'
         \/ ToJiabei(bidder', T),
         jdz' \in [Seat -> {-1, 0, 1}], qdz' \in [Seat -> {-1, 0, 1}],
         jdz_liuju' = jdz_liuju, bidder' \in Seat,
         beishu' \in 1..MaxBeishu, fired' \in Timer \cup {NoTimer}
  PROVE  RoundInv'
  <1>1. /\ TableInv /\ jiabei = All(-1) /\ dizhu_seat = 0
        /\ bidder' \in AnySeat /\ status # "not_gaming" /\ bidder' # 0
    BY DEF RoundInv, LandlordNext, LandlordLeads, Unanswered, AuctionInv,
       LandlordWhenAuctionOver, Seat,
           AnySeat
  <1>2. ASSUME NEW t \in Seat, ToQdz(t, T), InAuction'
        PROVE  RoundInv'
    <2>1. TableInv'
      BY <1>1, <1>2, ToQdzTable
    <2>2. status' = "qiangdizhu" /\ dizhu_seat' = 0 /\ jiabei' = jiabei
      BY <1>1, <1>2 DEF ToQdz
    <2>3. AuctionInv'
      BY <1>2, <2>2 DEF AuctionInv, AuctionOrder, InAuction,
         LandlordIsLastBidder, LandlordWhenAuctionOver
    <2>4. QED
      BY <1>1, <2>1, <2>2, <2>3 DEF RoundInv, LandlordNext, LandlordLeads,
         Unanswered, All
  <1>3. CASE ToJiabei(bidder', T)
    <2>1. TableInv'
      BY <1>1, <1>3, ToJiabeiTable
    <2>2. status' = "jiabei" /\ dizhu_seat' = bidder' /\ curr_turn' = bidder'
      BY <1>1, <1>3 DEF ToJiabei, Dizhu
    <2>3. AuctionInv'
      BY <1>1, <2>2 DEF AuctionInv, AuctionOrder, LandlordIsLastBidder,
         LandlordWhenAuctionOver
    <2>4. QED
      BY <2>1, <2>2, <2>3 DEF RoundInv, LandlordNext, LandlordLeads, Unanswered
  <1>4. QED
    BY <1>2, <1>3

(* A redeal happens only when nobody has bid, and keeps the invariant.     *)
LEMMA RedealInv ==
  ASSUME RoundInv, status # "not_gaming", NEW T \in SUBSET Timer, Redeal(T),
         jdz_liuju' \in 0..MaxRedeals, fired' \in Timer \cup {NoTimer}
  PROVE  RoundInv'
  <1>1. TableInv'
    BY RedealTable DEF RoundInv
  <1>2. /\ status' = "sendpokers" /\ dizhu_seat' = 0 /\ bidder' = 0
        /\ jdz' = All(-1) /\ qdz' = All(-1) /\ jiabei' = All(-1)
    BY DEF Redeal, Deal
  <1>3. AuctionInv'
    BY <1>2 DEF AuctionInv, AuctionOrder, LandlordIsLastBidder,
       LandlordWhenAuctionOver, All
  <1>4. QED
    BY <1>1, <1>2, <1>3 DEF RoundInv, LandlordNext, LandlordLeads, Unanswered,
       All

(* When the counted redeals are used up the landlord is forced, and the    *)
(* invariant is kept.                                                      *)
LEMMA ForcedInv ==
  ASSUME RoundInv, status = "jiaodizhu", NEW s \in Seat, curr_turn = s,
         RefusedByAll(s), jdz_liuju = MaxRedeals,
         NEW T \in SUBSET Timer, ForcedLandlord(s, T),
         fired' \in Timer \cup {NoTimer}
  PROVE  RoundInv'
  <1>1. PICK a, b \in Seat :
           /\ a = NextSeat(s) /\ b = NextSeat(a) /\ s = NextSeat(b)
           /\ a # b /\ a # s /\ b # s /\ Seat = {a, b, s}
           /\ 0 \notin Seat
    BY Around
  <1>2. /\ TableInv /\ jdz \in [Seat -> {-1, 0}] /\ jdz[a] = 0 /\ jdz[b] = 0
        /\ bidder = 0 /\ qdz = All(-1) /\ dizhu_seat = 0 /\ jiabei = All(-1)
        /\ qdz \in [Seat -> {-1, 0, 1}] /\ beishu \in 1..MaxBeishu
    BY <1>1 DEF RoundInv, AuctionInv, AuctionOrder, AskedInTurn, RefusedByAll,
       Unanswered, LandlordWhenAuctionOver, TableInv, TypeOK
  <1>3. /\ jdz' = [jdz EXCEPT ![s] = 0] /\ ToJiabei(a, T)
        /\ UNCHANGED <<qdz, jdz_liuju, bidder, beishu>>
    BY <1>1 DEF ForcedLandlord
  <1>4. /\ jdz' \in [Seat -> {-1, 0, 1}] /\ jdz' = All(0)
    BY <1>1, <1>2, <1>3 DEF All
  <1>5. TableInv'
    BY <1>1, <1>2, <1>3, <1>4, ToJiabeiTable DEF AnySeat
  <1>6. status' = "jiabei" /\ dizhu_seat' = a /\ curr_turn' = a
    BY <1>2, <1>3 DEF ToJiabei, Dizhu
  <1>7. AuctionInv'
    BY <1>1, <1>2, <1>3, <1>4, <1>6 DEF AuctionInv, AuctionOrder,
       LandlordIsLastBidder, LandlordWhenAuctionOver, All
  <1>8. QED
    BY <1>5, <1>6, <1>7 DEF RoundInv, LandlordNext, LandlordLeads, Unanswered

-----------------------------------------------------------------------------
(* One lemma per action.                                                   *)

(* The recorded multiplier keeps its bound.                                *)
LEMMA DoubledType ==
  ASSUME beishu \in 1..MaxBeishu
  PROVE  Doubled(beishu) \in 1..MaxBeishu
  BY RoundAssumption DEF Doubled

(* Steps of other phases than the auction leave the auction alone.         *)
LEMMA AuctionKept ==
  ASSUME RoundInv, UNCHANGED auction,
         \/ UNCHANGED <<status, curr_turn>>
         \/ status = "not_gaming" /\ status' = "sendpokers"
         \/ /\ status = "sendpokers" /\ status' = "jiaodizhu"
            /\ curr_turn' \in Seat
         \/ status \in {"jiabei", "gaming"} /\ status' \in {"jiabei", "gaming"}
  PROVE  AuctionInv'
  <1>1. CASE UNCHANGED <<status, curr_turn>>
    BY <1>1 DEF RoundInv, AuctionInv, AuctionOrder, AskedInTurn,
       LandlordIsLastBidder, LandlordWhenAuctionOver, auction, GrabbedInTurn
  <1>2. CASE status = "not_gaming" /\ status' = "sendpokers"
    BY <1>2 DEF RoundInv, AuctionInv, AuctionOrder, LandlordIsLastBidder,
       LandlordWhenAuctionOver, auction
  <1>3. CASE /\ status = "sendpokers" /\ status' = "jiaodizhu"
             /\ curr_turn' \in Seat
    <2>1. /\ jdz' = All(-1) /\ qdz' = All(-1) /\ bidder' = 0
          /\ dizhu_seat' = 0
      BY <1>3 DEF RoundInv, AuctionInv, AuctionOrder, LandlordWhenAuctionOver,
         auction
    <2>2. AskedInTurn'
      BY <2>1, <1>3, SeatFacts DEF AskedInTurn, All, Seat
    <2>3. QED
      BY <2>1, <2>2, <1>3 DEF AuctionInv, AuctionOrder, LandlordIsLastBidder,
         LandlordWhenAuctionOver
  <1>4. CASE /\ status \in {"jiabei", "gaming"}
             /\ status' \in {"jiabei", "gaming"}
    BY <1>4 DEF RoundInv, AuctionInv, AuctionOrder, LandlordIsLastBidder,
       LandlordWhenAuctionOver, auction
  <1>5. QED
    BY <1>1, <1>2, <1>3, <1>4

(* Enter keeps the inductive invariant.                                    *)
LEMMA EnterInv ==
  ASSUME RoundInv, NEW p \in Players, Enter(p)
  PROVE  RoundInv'
  <1>1. TableInv'
    BY EnterTable DEF RoundInv
  <1>2. UNCHANGED <<auction, status, curr_turn, jiabei, banker_seat>>
    BY DEF Enter, turn, trick
  <1>3. QED
    BY <1>1, <1>2, AuctionKept DEF RoundInv, LandlordNext, LandlordLeads,
       Unanswered, All,
       auction

(* Leave keeps the inductive invariant.                                    *)
LEMMA LeaveInv ==
  ASSUME RoundInv, NEW s \in Seat, Leave(s)
  PROVE  RoundInv'
  <1>1. TableInv'
    BY LeaveTable DEF RoundInv
  <1>2. UNCHANGED <<auction, status, curr_turn, jiabei, banker_seat>>
    BY DEF Leave, turn, trick
  <1>3. QED
    BY <1>1, <1>2, AuctionKept DEF RoundInv, LandlordNext, LandlordLeads,
       Unanswered, All,
       auction

(* Ready keeps the inductive invariant.                                    *)
LEMMA ReadyInv ==
  ASSUME RoundInv, NEW s \in Seat, NEW show \in BOOLEAN, Ready(s, show)
  PROVE  RoundInv'
  <1>1. TableInv'
    BY ReadyTable DEF RoundInv
  <1>2. /\ UNCHANGED <<auction, jiabei, banker_seat>> /\ status = "not_gaming"
        /\ \/ UNCHANGED <<status, curr_turn>>
           \/ status' = "sendpokers"
    BY DEF Ready, Deal, turn, trick
  <1>3. QED
    BY <1>1, <1>2, AuctionKept DEF RoundInv, LandlordNext, LandlordLeads,
       Unanswered, All,
       auction

(* Mingpai keeps the inductive invariant.                                  *)
LEMMA MingpaiInv ==
  ASSUME RoundInv, NEW s \in Seat, NEW reply \in {0, 1}, Mingpai(s, reply)
  PROVE  RoundInv'
  <1>1. TableInv' /\ TableInv
    BY MingpaiTable DEF RoundInv
  <1>2. /\ UNCHANGED <<auction, jiabei, banker_seat>>
        /\ \/ UNCHANGED <<status, curr_turn>>
           \/ status = "sendpokers" /\ status' = "jiaodizhu"
    BY DEF Mingpai, ToJdz, turn, trick
  <1>3. status' = "jiaodizhu" => curr_turn' \in Seat
    BY <1>1 DEF TableInv, TypeOK, WaitsForTheRightSeats, Seat, AnySeat
  <1>4. QED
    BY <1>1, <1>2, <1>3, AuctionKept DEF RoundInv, LandlordNext, LandlordLeads,
       Unanswered, All,
       auction

(* Jdz, with all its outcomes, keeps the inductive invariant.              *)
LEMMA JdzInv ==
  ASSUME RoundInv, NEW s \in Seat, NEW reply \in {0, 1}, Jdz(s, reply)
  PROVE  RoundInv'
  <1> DEFINE T == KillTimer("jdz", s)
  <1>1. /\ TableInv /\ AuctionInv /\ status = "jiaodizhu" /\ curr_turn = s
        /\ fired' \in Timer \cup {NoTimer} /\ T \in SUBSET Timer
        /\ qdz \in [Seat -> {-1, 0, 1}] /\ beishu \in 1..MaxBeishu
        /\ jdz_liuju \in 0..MaxRedeals /\ MaxRedeals \in Nat
    BY RoundAssumption DEF Jdz, RoundInv, TableInv, TypeOK, KillTimer
  <1>2. \/ Call(s, T) \/ AskNextSeat(s, T)
        \/ RefusedByAll(s) /\ MayRedeal /\ Redeal(T) /\ jdz_liuju' = jdz_liuju + 1
        \/ RefusedByAll(s) /\ ~MayRedeal /\ ForcedLandlord(s, T)
    BY DEF Jdz
  <1> HIDE DEF T
  <1>3. CASE Call(s, T)
    BY <1>1, <1>3, CallStep, BidInv
  <1>4. CASE AskNextSeat(s, T)
    <2>1. TableInv' /\ AuctionInv'
      BY <1>1, <1>4, AskStep
    <2>2. UNCHANGED <<status, jiabei>>
      BY <1>4 DEF AskNextSeat
    <2>3. QED
      BY <1>1, <2>1, <2>2
         DEF RoundInv, LandlordNext, LandlordLeads, Unanswered, All
  <1>5. CASE RefusedByAll(s) /\ MayRedeal /\ Redeal(T) /\ jdz_liuju' = jdz_liuju + 1
    <2>1. jdz_liuju' \in 0..MaxRedeals
      BY <1>1, <1>5 DEF MayRedeal
    <2>2. QED
      BY <1>1, <1>5, <2>1, RedealInv
  <1>6. CASE RefusedByAll(s) /\ ~MayRedeal /\ ForcedLandlord(s, T)
    <2>1. jdz_liuju = MaxRedeals
      BY <1>1, <1>6 DEF MayRedeal
    <2>2. QED
      BY <1>1, <1>6, <2>1, ForcedInv
  <1>7. QED
    BY <1>2, <1>3, <1>4, <1>5, <1>6

(* Qdz, a grab or a refusal, keeps the inductive invariant.                *)
LEMMA QdzInv ==
  ASSUME RoundInv, NEW s \in Seat, NEW reply \in {0, 1}, Qdz(s, reply)
  PROVE  RoundInv'
  <1> DEFINE T == KillTimer("qdz", s)
  <1>1. /\ TableInv /\ AuctionInv /\ status = "qiangdizhu" /\ curr_turn = s
        /\ fired' \in Timer \cup {NoTimer} /\ T \in SUBSET Timer
        /\ jdz \in [Seat -> {-1, 0, 1}] /\ beishu \in 1..MaxBeishu
    BY DEF Qdz, RoundInv, TableInv, TypeOK, KillTimer, WaitsForTheRightSeats,
           Only
  <1>2. Grab(s, T) \/ Decline(s, T)
    BY DEF Qdz
  <1> HIDE DEF T
  <1>3. CASE Grab(s, T)
    <2>1. beishu' \in 1..MaxBeishu
      BY <1>1, <1>3, DoubledType DEF Grab
    <2>2. QED
      BY <1>1, <1>3, <2>1, GrabStep, BidInv
  <1>4. CASE Decline(s, T)
    BY <1>1, <1>4, DeclineStep, BidInv
  <1>5. QED
    BY <1>2, <1>3, <1>4

(* A step of the playing phase that passes the turn on keeps the           *)
(* invariant.                                                              *)
LEMMA PlayInv ==
  ASSUME RoundInv, status \in {"jiabei", "gaming"}, NEW t \in Seat,
         NEW h \in [Seat -> Nat], NEW T \in SUBSET Timer, ToChupai(t, h, T),
         UNCHANGED <<table, auction, showing, bottom, broken>>,
         chued' \in [Seat -> Nat], jiabei' \in [Seat -> Nat \cup {-1}],
         banker_seat' \in AnySeat, last' \in Plays \cup {NoPlay},
         beishu' \in 1..MaxBeishu, fired' \in Timer \cup {NoTimer},
         banker_seat' = 0 => t = dizhu_seat
  PROVE  RoundInv'
  <1>1. TableInv'
    BY ToChupaiTable DEF RoundInv
  <1>2. status' = "gaming" /\ curr_turn' = t /\ dizhu_seat' = dizhu_seat
    BY DEF ToChupai, auction
  <1>3. AuctionInv'
    BY <1>2, AuctionKept
  <1>4. QED
    BY <1>1, <1>2, <1>3 DEF RoundInv, LandlordNext, LandlordLeads, Unanswered

(* The landlord's turn is a seat's turn.                                   *)
LEMMA LandlordIsSeat ==
  ASSUME RoundInv, status \in {"jiabei", "gaming"}
  PROVE  /\ dizhu_seat \in Seat /\ curr_turn \in Seat
         /\ status = "jiabei" => curr_turn = dizhu_seat
  BY DEF RoundInv, LandlordNext, AuctionInv, LandlordWhenAuctionOver, TableInv,
     TypeOK, WaitsForTheRightSeats, Seat, AnySeat

(* Jiabei keeps the inductive invariant; the last answer gives the         *)
(* landlord the lead.                                                      *)
LEMMA JiabeiInv ==
  ASSUME RoundInv, NEW s \in Seat, NEW reply \in JiabeiReplies,
         Jiabei(s, reply)
  PROVE  RoundInv'
  <1>1. /\ status = "jiabei" /\ jiabei' = [jiabei EXCEPT ![s] = reply]
        /\ chued' = chued /\ broken' = broken
        /\ UNCHANGED <<table, auction, showing, bottom, trick, beishu, fired>>
    BY DEF Jiabei
  <1>2. /\ TypeOK /\ TableInv /\ reply \in Nat
        /\ jiabei \in [Seat -> Nat \cup {-1}]
        /\ jiabei' \in [Seat -> Nat \cup {-1}]
    BY <1>1, RoundAssumption DEF RoundInv, TableInv, TypeOK
  <1>3. CASE \A t \in Seat : jiabei'[t] # -1
    <2>1. ToChupai(curr_turn, hand, KillTimer("jiabei", 0))
      BY <1>3 DEF Jiabei
    <2>2. /\ KillTimer("jiabei", 0) \in SUBSET Timer
          /\ hand \in [Seat -> Nat] /\ chued' \in [Seat -> Nat]
          /\ banker_seat' \in AnySeat /\ last' \in Plays \cup {NoPlay}
          /\ beishu' \in 1..MaxBeishu /\ fired' \in Timer \cup {NoTimer}
      BY <1>1, <1>2 DEF TypeOK, KillTimer, trick
    <2>3. curr_turn \in Seat /\ curr_turn = dizhu_seat
      BY <1>1, LandlordIsSeat
    <2>4. QED
      BY <1>1, <1>2, <2>1, <2>2, <2>3, PlayInv
  <1>4. CASE ~ \A t \in Seat : jiabei'[t] # -1
    <2>1. /\ waiting' = [waiting EXCEPT ![s] = {}]
          /\ UNCHANGED <<status, curr_turn, hand, timers>>
      BY <1>4 DEF Jiabei
    <2>2. TypeOK'
      BY <2>1, <1>1, <1>2 DEF TypeOK, table, auction, showing, trick
    <2>3. /\ waiting'[s] = {} /\ jiabei'[s] # -1
          /\ \A t \in Seat \ {s} : waiting'[t] = waiting[t]
                                /\ jiabei'[t] = jiabei[t]
      BY <2>1, <1>1, <1>2 DEF TypeOK
    <2>4. WaitsForTheRightSeats'
      BY <2>1, <2>3, <1>1, <1>2 DEF WaitsForTheRightSeats, TableInv
    <2>5. TableInv'
      BY <2>1, <2>2, <2>4, <1>1, <1>2, RoundTable
    <2>6. AuctionInv'
      BY <2>1, AuctionKept, <1>1
    <2>7. QED
      BY <2>1, <2>5, <2>6, <1>1
         DEF RoundInv, LandlordNext, LandlordLeads, Unanswered, auction
  <1>5. QED
    BY <1>3, <1>4

(* Only in the playing phase is anybody waited for to play.                *)
LEMMA ChupaiPhase ==
  ASSUME RoundInv, NEW s \in Seat, "chupai" \in waiting[s]
  PROVE  status = "gaming"
  BY DEF RoundInv, TableInv, TypeOK, Statuses, Turns, WaitsForTheRightSeats,
     Only, Empty, All

(* Pass keeps the inductive invariant.                                     *)
LEMMA PassInv ==
  ASSUME RoundInv, NEW s \in Seat, Pass(s)
  PROVE  RoundInv'
  <1>1. /\ status = "gaming" /\ TypeOK /\ NextSeat(s) \in Seat
        /\ banker_seat # 0
    BY ChupaiPhase, SeatFacts DEF Pass, MayPass, RoundInv, TableInv
  <1>2. /\ ToChupai(NextSeat(s), hand, timers) /\ chued' = chued
        /\ UNCHANGED <<table, auction, showing, bottom, broken, trick, jiabei,
                       beishu, fired>>
    BY DEF Pass
  <1>3. /\ hand \in [Seat -> Nat] /\ timers \in SUBSET Timer
        /\ chued' \in [Seat -> Nat] /\ jiabei' \in [Seat -> Nat \cup {-1}]
        /\ banker_seat' \in AnySeat /\ last' \in Plays \cup {NoPlay}
        /\ beishu' \in 1..MaxBeishu /\ fired' \in Timer \cup {NoTimer}
        /\ banker_seat' # 0
    BY <1>1, <1>2 DEF TypeOK, trick
  <1>4. QED
    BY <1>1, <1>2, <1>3, PlayInv

(* PlayCards keeps the inductive invariant.                                *)
LEMMA PlayCardsInv ==
  ASSUME RoundInv, NEW s \in Seat, NEW p \in Plays, PlayCards(s, p)
  PROVE  RoundInv'
  <1>1. /\ status = "gaming" /\ TypeOK /\ NextSeat(s) \in Seat /\ s # 0
        /\ p.n \in Nat
    BY ChupaiPhase, SeatFacts, CardsAssumption
       DEF PlayCards, RoundInv, TableInv, Seat
  <1> DEFINE h == [hand EXCEPT ![s] = @ - p.n]
  <1>2. /\ ToChupai(NextSeat(s), h, timers)
        /\ chued' = [chued EXCEPT ![s] = @ + p.n]
        /\ banker_seat' = s /\ last' = p /\ p.n < hand[s]
        /\ beishu' = IF p.bomb THEN Doubled(beishu) ELSE beishu
        /\ UNCHANGED <<table, auction, showing, bottom, broken, jiabei, fired>>
    BY DEF PlayCards
  <1>3. hand \in [Seat -> Nat] /\ chued \in [Seat -> Nat]
    BY <1>1 DEF TypeOK
  <1>4. h \in [Seat -> Nat]
    BY <1>1, <1>2, <1>3
  <1>5. chued' \in [Seat -> Nat]
    BY <1>1, <1>2, <1>3
  <1>6. /\ timers \in SUBSET Timer /\ jiabei' \in [Seat -> Nat \cup {-1}]
        /\ banker_seat' \in AnySeat /\ last' \in Plays \cup {NoPlay}
        /\ beishu' \in 1..MaxBeishu /\ fired' \in Timer \cup {NoTimer}
        /\ banker_seat' # 0
    BY <1>1, <1>2, DoubledType DEF TypeOK, Seat, AnySeat
  <1> HIDE DEF h
  <1>7. QED
    BY <1>1, <1>2, <1>4, <1>5, <1>6, PlayInv

(* The restart at the end of a round re-establishes the invariant.         *)
LEMMA RestartInv ==
  ASSUME RoundInv, RestartRoom, UNCHANGED <<seats, timers, fired>>,
         beishu' \in 1..MaxBeishu
  PROVE  RoundInv'
  <1>1. TypeOK'
    BY RoundAssumption DEF RoundInv, TableInv, TypeOK, RestartRoom, All, Empty,
       Statuses, AnySeat
  <1>2. TableInv'
    BY <1>1 DEF RestartRoom, TableInv, FullTable, WaitsForTheRightSeats
  <1>3. AuctionInv'
    BY DEF RestartRoom, AuctionInv, AuctionOrder, LandlordIsLastBidder,
       LandlordWhenAuctionOver
  <1>4. QED
    BY <1>2, <1>3 DEF RestartRoom, RoundInv, LandlordNext, LandlordLeads,
       Unanswered

(* The play of a last card keeps the inductive invariant.                  *)
LEMMA PlayLastCardsInv ==
  ASSUME RoundInv, NEW s \in Seat, NEW p \in Plays, PlayLastCards(s, p)
  PROVE  RoundInv'
  <1>1. beishu' \in 1..MaxBeishu
    BY DoubledType DEF PlayLastCards, RoundInv, TableInv, TypeOK
  <1>2. QED
    BY <1>1, RestartInv DEF PlayLastCards

(* A broken-off play takes fewer cards than the hand has, and changes      *)
(* nothing but the hand and what is recorded as played.                    *)
LEMMA BrokenCards ==
  ASSUME TypeOK, NEW s \in Seat, NEW p \in Plays, BreakOff(s, p)
  PROVE  \E k \in Nat :
           /\ k < hand[s]
           /\ hand'  = [hand EXCEPT ![s] = @ - k]
           /\ chued' = [chued EXCEPT ![s] = @ + k + 1]
  <1>1. p.n \in Nat /\ hand[s] \in Nat
    BY CardsAssumption DEF TypeOK
  <1>2. PICK k \in 1..(p.n - 1) :
          /\ hand'  = [hand EXCEPT ![s] = @ - k]
          /\ chued' = [chued EXCEPT ![s] = @ + k + 1]
    BY DEF BreakOff
  <1>3. k \in Nat /\ k < hand[s]
    BY <1>1, <1>2 DEF BreakOff
  <1>4. QED
    BY <1>2, <1>3

(* BreakOff keeps the inductive invariant.                                 *)
LEMMA BreakOffInv ==
  ASSUME RoundInv, NEW s \in Seat, NEW p \in Plays, BreakOff(s, p)
  PROVE  RoundInv'
  <1>1. TypeOK /\ hand \in [Seat -> Nat] /\ chued \in [Seat -> Nat]
        /\ broken \in Nat
    BY DEF RoundInv, TableInv, TypeOK
  <1>2. PICK k \in Nat : /\ k < hand[s]
                        /\ hand'  = [hand EXCEPT ![s] = @ - k]
                        /\ chued' = [chued EXCEPT ![s] = @ + k + 1]
    BY <1>1, BrokenCards
  <1>3. hand' \in [Seat -> Nat] /\ chued' \in [Seat -> Nat]
    BY <1>1, <1>2
  <1>4. /\ UNCHANGED <<table, turn, auction, showing, bottom, trick, jiabei,
                       beishu, timers, fired>>
        /\ broken' = broken + 1
    BY DEF BreakOff
  <1>5. TypeOK'
    BY <1>1, <1>3, <1>4 DEF TypeOK, table, turn, auction, showing, trick
  <1>6. TableInv'
    BY <1>4, <1>5 DEF RoundInv, TableInv, FullTable, WaitsForTheRightSeats,
       table, turn, showing
  <1>7. AuctionInv'
    BY <1>4, AuctionKept DEF turn
  <1>8. QED
    BY <1>4, <1>6, <1>7 DEF RoundInv, LandlordNext, LandlordLeads, Unanswered,
       turn, trick, auction, All

(* A timer that is picked up by the bucket changes nothing in the room.    *)
LEMMA TimerDueInv ==
  ASSUME RoundInv, NEW t \in timers, TimerDue(t)
  PROVE  RoundInv'
  <1>1. UNCHANGED <<table, turn, auction, showing, cards, trick, jiabei,
                    beishu, timers>> /\ fired' = t
    BY DEF TimerDue
  <1>2. TypeOK'
    BY <1>1 DEF RoundInv, TableInv, TypeOK, table, turn, auction, showing,
       cards, trick
  <1>3. TableInv'
    BY <1>1, <1>2 DEF RoundInv, TableInv, FullTable, WaitsForTheRightSeats,
       table, turn, showing
  <1>4. AuctionInv'
    BY <1>1, AuctionKept DEF turn
  <1>5. QED
    BY <1>1, <1>3, <1>4 DEF RoundInv, LandlordNext, LandlordLeads, Unanswered,
       turn, trick, auction, All

(* A timer whose guards fail changes nothing in the room.                  *)
LEMMA StaleInv ==
  ASSUME RoundInv, timers' \subseteq timers, fired' = NoTimer,
         UNCHANGED <<table, turn, auction, showing, cards, trick, jiabei,
                     beishu>>
  PROVE  RoundInv'
  <1>1. TypeOK'
    BY DEF RoundInv, TableInv, TypeOK, table, turn, auction, showing, cards,
       trick
  <1>2. TableInv'
    BY <1>1 DEF RoundInv, TableInv, FullTable, WaitsForTheRightSeats,
       table, turn, showing
  <1>3. AuctionInv'
    BY AuctionKept DEF turn
  <1>4. QED
    BY <1>2, <1>3 DEF RoundInv, LandlordNext, LandlordLeads, Unanswered,
       turn, trick, auction, All

(* The mingpai timeout, which answers for every seat, keeps the            *)
(* invariant.                                                              *)
LEMMA TimeoutMingpaiInv ==
  ASSUME RoundInv, status = "sendpokers", NEW T \in SUBSET Timer,
         TimeoutMingpai(T), fired' = NoTimer
  PROVE  RoundInv'
  <1>1. TypeOK /\ TableInv /\ play_seats = 3
    BY DEF RoundInv, TableInv, FullTable
  <1>2. PICK t \in Seat : /\ curr_turn' = t
                          /\ waiting' = Only(t, {"jdz"})
                          /\ timers' = AddTimer(T, "jdz", t)
                          /\ status' = "jiaodizhu"
    BY <1>1 DEF TimeoutMingpai, ToJdz, TypeOK, Seat, AnySeat
  <1>3. UNCHANGED <<table, auction, showing, cards, trick, jiabei, beishu>>
    BY DEF TimeoutMingpai
  <1>4. timers' \subseteq Timer
    BY <1>2 DEF AddTimer, Timer, Actions, Seat, Gone
  <1>5. TypeOK'
    BY <1>1, <1>2, <1>3, <1>4
       DEF TypeOK, table, auction, showing, cards, trick, Only, Actions, Seat,
           AnySeat, Statuses, Turns
  <1>6. WaitsForTheRightSeats'
    BY <1>2 DEF WaitsForTheRightSeats, Seat
  <1>7. TableInv'
    BY <1>1, <1>2, <1>3, <1>5, <1>6, RoundTable
  <1>8. AuctionInv'
    BY <1>2, <1>3, AuctionKept
  <1>9. QED
    BY <1>2, <1>3, <1>7, <1>8
       DEF RoundInv, LandlordNext, LandlordLeads, Unanswered, All

(* Every timeout, due or out of date, keeps the inductive invariant.       *)
LEMMA OnTimerInv ==
  ASSUME RoundInv, OnTimer
  PROVE  RoundInv'
  <1> DEFINE T == timers \ {fired}
  <1>1. /\ TypeOK /\ TableInv /\ AuctionInv /\ T \in SUBSET Timer
        /\ fired' = NoTimer /\ fired' \in Timer \cup {NoTimer}
    BY DEF RoundInv, TableInv, TypeOK, OnTimer
  <1>2. \/ fired[1] = "mingpai" /\ InTime(fired) /\ TimeoutMingpai(T)
        \/ fired[1] = "jdz"     /\ InTime(fired) /\ TimeoutJdz(fired[2], T)
        \/ fired[1] = "qdz"     /\ InTime(fired) /\ TimeoutQdz(fired[2], T)
        \/ fired[1] = "jiabei"  /\ InTime(fired) /\ TimeoutJiabei(T)
        \/ /\ ~InTime(fired)
           /\ timers' = T
           /\ UNCHANGED <<table, turn, auction, showing, cards, trick, jiabei,
                          beishu>>
    BY DEF OnTimer
  <1> HIDE DEF T
  <1>3. CASE fired[1] = "mingpai" /\ InTime(fired) /\ TimeoutMingpai(T)
    BY <1>1, <1>3, TimeoutMingpaiInv DEF InTime
  <1>4. CASE fired[1] = "jdz" /\ InTime(fired) /\ TimeoutJdz(fired[2], T)
    <2>1. /\ status = "jiaodizhu" /\ curr_turn = fired[2]
          /\ fired[2] \in Seat
      BY <1>1, <1>4 DEF InTime, TypeOK, TableInv, WaitsForTheRightSeats, Seat,
                        AnySeat
    <2>2. CASE AskNextSeat(fired[2], T)
      <3>1. TableInv' /\ AuctionInv'
        BY <1>1, <2>1, <2>2, AskStep
      <3>2. UNCHANGED <<status, jiabei>>
        BY <2>2 DEF AskNextSeat
      <3>3. QED
        BY <2>1, <3>1, <3>2
           DEF RoundInv, LandlordNext, LandlordLeads, Unanswered, All
    <2>3. CASE RefusedByAll(fired[2]) /\ Redeal(T) /\ UNCHANGED jdz_liuju
      BY <1>1, <2>1, <2>3, RedealInv DEF TypeOK
    <2>4. QED
      BY <1>4, <2>2, <2>3 DEF TimeoutJdz
  <1>5. CASE fired[1] = "qdz" /\ InTime(fired) /\ TimeoutQdz(fired[2], T)
    <2>1. /\ status = "qiangdizhu" /\ curr_turn = fired[2]
          /\ fired[2] \in Seat
      BY <1>1, <1>5 DEF InTime, TypeOK, TableInv, WaitsForTheRightSeats, Seat,
                        AnySeat
    <2>2. Decline(fired[2], T)
      BY <1>5 DEF TimeoutQdz
    <2>3. jdz \in [Seat -> {-1, 0, 1}] /\ beishu \in 1..MaxBeishu
      BY <1>1 DEF TypeOK
    <2>4. QED
      BY <1>1, <2>1, <2>2, <2>3, DeclineStep, BidInv
  <1>6. CASE fired[1] = "jiabei" /\ InTime(fired) /\ TimeoutJiabei(T)
    <2>1. /\ status = "jiabei" /\ curr_turn \in Seat /\ curr_turn = dizhu_seat
      BY <1>6, LandlordIsSeat DEF InTime
    <2>2. /\ jiabei' = [s \in Seat |-> IF jiabei[s] = -1 THEN 0 ELSE jiabei[s]]
          /\ chued' = chued /\ ToChupai(curr_turn, hand, T)
          /\ UNCHANGED <<table, auction, showing, bottom, broken, trick, beishu>>
      BY <1>6 DEF TimeoutJiabei
    <2>3. jiabei' \in [Seat -> Nat \cup {-1}]
      BY <1>1, <2>2 DEF TypeOK
    <2>4. /\ hand \in [Seat -> Nat] /\ chued' \in [Seat -> Nat]
          /\ banker_seat' \in AnySeat /\ last' \in Plays \cup {NoPlay}
          /\ beishu' \in 1..MaxBeishu
      BY <1>1, <2>2 DEF TypeOK, trick
    <2>5. QED
      BY <1>1, <2>1, <2>2, <2>3, <2>4, PlayInv
  <1>7. CASE /\ ~InTime(fired)
             /\ timers' = T
             /\ UNCHANGED <<table, turn, auction, showing, cards, trick, jiabei,
                            beishu>>
    BY <1>1, <1>7, StaleInv DEF T
  <1>8. QED
    BY <1>2, <1>3, <1>4, <1>5, <1>6, <1>7

(* The inductive invariant holds in an empty room.                         *)
LEMMA InitInv == Init => RoundInv
  BY InitTable DEF Init, RoundInv, AuctionInv, AuctionOrder,
     LandlordIsLastBidder, LandlordWhenAuctionOver, Unanswered, LandlordNext,
     LandlordLeads

(* A stuttering step keeps the inductive invariant.                        *)
LEMMA StutterInv ==
  ASSUME RoundInv, UNCHANGED vars
  PROVE  RoundInv'
  BY DEF vars, table, turn, auction, showing, cards, trick, RoundInv, TableInv,
     TypeOK, FullTable, WaitsForTheRightSeats, AuctionInv, AuctionOrder,
     AskedInTurn, GrabbedInTurn, LandlordIsLastBidder, LandlordWhenAuctionOver,
     Unanswered, LandlordNext, LandlordLeads, All

(* Every step of the table keeps the inductive invariant.                  *)
LEMMA NextInv ==
  ASSUME RoundInv, [Next]_vars
  PROVE  RoundInv'
  <1>1. CASE \E p \in Players : Enter(p)
    BY <1>1, EnterInv
  <1>2. ASSUME NEW s \in Seat, Packet(s)
        PROVE  RoundInv'
    <2>1. CASE Leave(s)
      BY <2>1, LeaveInv
    <2>2. CASE \E show \in BOOLEAN : Ready(s, show)
      BY <2>2, ReadyInv
    <2>3. CASE \E reply \in {0, 1} : Mingpai(s, reply) \/ Jdz(s, reply) \/ Qdz(s, reply)
      BY <2>3, MingpaiInv, JdzInv, QdzInv
    <2>4. CASE \E reply \in JiabeiReplies : Jiabei(s, reply)
      BY <2>4, JiabeiInv
    <2>5. CASE TakeTurn(s)
      BY <2>5, PassInv, PlayCardsInv, PlayLastCardsInv DEF TakeTurn
    <2>6. CASE \E p \in Plays : BreakOff(s, p)
      BY <2>6, BreakOffInv
    <2>7. QED
      BY <1>2, <2>1, <2>2, <2>3, <2>4, <2>5, <2>6 DEF Packet
  <1>3. CASE \E t \in timers : TimerDue(t)
    BY <1>3, TimerDueInv
  <1>4. CASE OnTimer
    BY <1>4, OnTimerInv
  <1>5. CASE UNCHANGED vars
    BY <1>5, StutterInv
  <1>6. QED
    BY <1>1, <1>2, <1>3, <1>4, <1>5 DEF Next

(* Every reachable state of a table satisfies the inductive invariant.     *)
THEOREM RoundInvariant == Spec => []RoundInv
  <1>1. Init => RoundInv
    BY InitInv
  <1>2. RoundInv /\ [Next]_vars => RoundInv'
    BY NextInv
  <1>3. QED
    BY <1>1, <1>2, PTL DEF Spec

(* No handler of game.lua reads or indexes a seat, a turn or a timer that  *)
(* does not exist; in a round all three seats are taken and play, between  *)
(* rounds nobody is marked as playing; the room waits for the seats of its *)
(* phase and for no other.                                                 *)
THEOREM TableIsSound == Spec => []TableInv
  <1>1. RoundInv => TableInv
    BY DEF RoundInv
  <1>2. QED
    BY <1>1, RoundInvariant, PTL

(* Seats are asked, and grab, in the order of the table; the landlord is   *)
(* the last seat that called or grabbed, or was forced after the counted   *)
(* redeals; there is one exactly when the auction is over.                 *)
THEOREM AuctionIsSound == Spec => []AuctionInv
  <1>1. RoundInv => AuctionInv
    BY DEF RoundInv
  <1>2. QED
    BY <1>1, RoundInvariant, PTL

(* The landlord makes the first play and cannot pass it on.                *)
THEOREM LandlordOpens == Spec => []LandlordLeads
  <1>1. RoundInv => LandlordLeads
    BY DEF RoundInv, LandlordNext
  <1>2. QED
    BY <1>1, RoundInvariant, PTL

-----------------------------------------------------------------------------
(* The refinement of LandlordAuction.                                      *)
AuctionStep == Auction!Next \/ UNCHANGED Auction!avars

(* A step that leaves phase, bidder, landlord and redeals alone is a       *)
(* stutter of the abstract auction.                                        *)
LEMMA KeptStep ==
  ASSUME UNCHANGED <<dizhu_seat, jdz_liuju, bidder>>,
         AuctionPhase' = AuctionPhase
  PROVE  AuctionStep
  BY DEF AuctionStep, Auction!avars

(* A call or a grab is a bid of the abstract auction.                      *)
LEMMA CallMaps ==
  ASSUME RoundInv, status \in {"jiaodizhu", "qiangdizhu"}, bidder' \in Seat,
         jdz_liuju' = jdz_liuju, NEW T,
         \/ \E t \in Seat : ToQdz(t, T) /\ InAuction'
         \/ ToJiabei(bidder', T)
  PROVE  AuctionStep
  <1>1. dizhu_seat = 0 /\ AuctionPhase = "bidding"
    BY DEF RoundInv, AuctionInv, LandlordWhenAuctionOver, AuctionPhase
  <1>2. CASE \E t \in Seat : ToQdz(t, T) /\ InAuction'
    <2>1. AuctionPhase' = "bidding" /\ dizhu_seat' = dizhu_seat
      BY <1>2 DEF ToQdz, AuctionPhase
    <2>2. Auction!Bid(bidder')
      BY <1>1, <2>1 DEF Auction!Bid
    <2>3. QED
      BY <2>2 DEF AuctionStep, Auction!Next, Auction!Bidders, Seat
  <1>3. CASE ToJiabei(bidder', T)
    <2>1. AuctionPhase' = "settled" /\ dizhu_seat' = bidder'
      BY <1>1, <1>3 DEF ToJiabei, AuctionPhase, Dizhu
    <2>2. Auction!Bid(bidder')
      BY <1>1, <2>1 DEF Auction!Bid
    <2>3. QED
      BY <2>2 DEF AuctionStep, Auction!Next, Auction!Bidders, Seat
  <1>4. QED
    BY <1>2, <1>3

(* A refusal in the grabbing is a stutter, or the settlement on the last   *)
(* bidder.                                                                 *)
LEMMA DeclineMaps ==
  ASSUME RoundInv, status = "qiangdizhu", NEW s \in Seat, curr_turn = s,
         NEW T, Decline(s, T)
  PROVE  AuctionStep
  <1>1. /\ dizhu_seat = 0 /\ AuctionPhase = "bidding"
        /\ bidder \in Seat /\ bidder # 0 /\ UNCHANGED <<jdz_liuju, bidder>>
        /\ \/ \E t \in Seat : ToQdz(t, T) /\ InAuction'
           \/ ToJiabei(bidder', T)
    BY DeclineStep DEF RoundInv, AuctionInv, LandlordWhenAuctionOver,
       AuctionPhase, Seat
  <1>2. CASE \E t \in Seat : ToQdz(t, T) /\ InAuction'
    <2>1. AuctionPhase' = "bidding" /\ dizhu_seat' = dizhu_seat
      BY <1>2 DEF ToQdz, AuctionPhase
    <2>2. QED
      BY <1>1, <2>1, KeptStep
  <1>3. CASE ToJiabei(bidder', T)
    <2>1. AuctionPhase' = "settled" /\ dizhu_seat' = bidder
      BY <1>1, <1>3 DEF ToJiabei, AuctionPhase, Dizhu
    <2>2. Auction!Settle
      BY <1>1, <2>1 DEF Auction!Settle, Auction!Nobody
    <2>3. QED
      BY <2>2 DEF AuctionStep, Auction!Next
  <1>4. QED
    BY <1>1, <1>2, <1>3

(* A counted redeal is a thrown deal.                                      *)
LEMMA RedealMaps ==
  ASSUME RoundInv, status = "jiaodizhu", NEW T, Redeal(T),
         \/ jdz_liuju' = jdz_liuju
         \/ jdz_liuju < MaxRedeals /\ jdz_liuju' = jdz_liuju + 1
  PROVE  AuctionStep
  <1>1. /\ AuctionPhase = "bidding" /\ AuctionPhase' = "bidding"
        /\ bidder = 0 /\ dizhu_seat = 0 /\ UNCHANGED <<bidder, dizhu_seat>>
    BY DEF RoundInv, AuctionInv, AuctionOrder, LandlordWhenAuctionOver,
       AuctionPhase, Redeal, Deal
  <1>2. CASE jdz_liuju' = jdz_liuju
    BY <1>1, <1>2, KeptStep
  <1>3. CASE jdz_liuju < MaxRedeals /\ jdz_liuju' = jdz_liuju + 1
    <2>1. Auction!Throw
      BY <1>1, <1>3 DEF Auction!Throw, Auction!Nobody
    <2>2. QED
      BY <2>1 DEF AuctionStep, Auction!Next
  <1>4. QED
    BY <1>2, <1>3

(* A refusal that only moves the turn is a stutter of the abstract         *)
(* auction.                                                                *)
LEMMA AskMaps ==
  ASSUME NEW s \in Seat, NEW T, AskNextSeat(s, T)
  PROVE  AuctionStep
  BY KeptStep DEF AskNextSeat, AuctionPhase

(* An answer in the calling is a bid, a thrown deal, a forced landlord or  *)
(* a stutter.                                                              *)
LEMMA JdzMaps ==
  ASSUME RoundInv, NEW s \in Seat, NEW reply \in {0, 1}, Jdz(s, reply)
  PROVE  AuctionStep
  <1> DEFINE T == KillTimer("jdz", s)
  <1>1. /\ TableInv /\ AuctionInv /\ status = "jiaodizhu" /\ curr_turn = s
        /\ jdz_liuju \in 0..MaxRedeals /\ MaxRedeals \in Nat
    BY RoundAssumption DEF Jdz, RoundInv, TableInv, TypeOK
  <1>2. \/ Call(s, T) \/ AskNextSeat(s, T)
        \/ RefusedByAll(s) /\ MayRedeal /\ Redeal(T) /\ jdz_liuju' = jdz_liuju + 1
        \/ RefusedByAll(s) /\ ~MayRedeal /\ ForcedLandlord(s, T)
    BY DEF Jdz
  <1> HIDE DEF T
  <1>3. CASE Call(s, T)
    BY <1>1, <1>3, CallStep, CallMaps
  <1>4. CASE AskNextSeat(s, T)
    BY <1>4, AskMaps
  <1>5. CASE RefusedByAll(s) /\ MayRedeal /\ Redeal(T) /\ jdz_liuju' = jdz_liuju + 1
    BY <1>1, <1>5, RedealMaps DEF MayRedeal
  <1>6. CASE RefusedByAll(s) /\ ~MayRedeal /\ ForcedLandlord(s, T)
    <2>1. /\ jdz_liuju = MaxRedeals /\ bidder = 0 /\ dizhu_seat = 0
          /\ AuctionPhase = "bidding"
      BY <1>1, <1>6 DEF MayRedeal, AuctionInv, AuctionOrder,
         LandlordWhenAuctionOver, AuctionPhase
    <2>2. /\ UNCHANGED <<jdz_liuju, bidder>> /\ dizhu_seat' = NextSeat(s)
          /\ AuctionPhase' = "settled"
      BY <1>6, <2>1 DEF ForcedLandlord, ToJiabei, Dizhu, AuctionPhase
    <2>3. Auction!Force(NextSeat(s))
      BY <2>1, <2>2 DEF Auction!Force, Auction!Nobody
    <2>4. NextSeat(s) \in Auction!Bidders
      BY SeatFacts DEF Auction!Bidders, Seat
    <2>5. QED
      BY <2>3, <2>4 DEF AuctionStep, Auction!Next
  <1>7. QED
    BY <1>2, <1>3, <1>4, <1>5, <1>6

(* Every handled packet is a step or a stutter of the abstract auction.    *)
LEMMA PacketMaps ==
  ASSUME RoundInv, NEW s \in Seat, Packet(s)
  PROVE  AuctionStep
  <1>1. CASE Leave(s)
    BY <1>1, KeptStep DEF Leave, turn, auction, AuctionPhase
  <1>2. ASSUME NEW show \in BOOLEAN, Ready(s, show)
        PROVE  AuctionStep
    <2>1. /\ UNCHANGED auction /\ status = "not_gaming" /\ dizhu_seat = 0
          /\ status' = status \/ status' = "sendpokers"
      BY <1>2 DEF Ready, Deal, turn, RoundInv, AuctionInv,
         LandlordWhenAuctionOver
    <2>2. CASE status' = status
      BY <2>1, <2>2, KeptStep DEF auction, AuctionPhase
    <2>3. CASE status' = "sendpokers"
      <3>1. Auction!Open
        BY <2>1, <2>3 DEF Auction!Open, AuctionPhase, auction
      <3>2. QED
        BY <3>1 DEF AuctionStep, Auction!Next
    <2>4. QED
      BY <2>1, <2>2, <2>3
  <1>3. ASSUME NEW reply \in {0, 1}, Mingpai(s, reply)
        PROVE  AuctionStep
    <2>1. /\ UNCHANGED auction
          /\ \/ status' = status
             \/ status = "sendpokers" /\ status' = "jiaodizhu"
      BY <1>3 DEF Mingpai, ToJdz, turn
    <2>2. QED
      BY <2>1, KeptStep DEF auction, AuctionPhase
  <1>4. ASSUME NEW reply \in {0, 1}, Qdz(s, reply)
        PROVE  AuctionStep
    <2> DEFINE T == KillTimer("qdz", s)
    <2>1. /\ TableInv /\ AuctionInv /\ status = "qiangdizhu" /\ curr_turn = s
          /\ Grab(s, T) \/ Decline(s, T)
      BY <1>4 DEF Qdz, RoundInv, TableInv, WaitsForTheRightSeats, Only
    <2> HIDE DEF T
    <2>2. CASE Grab(s, T)
      BY <2>1, <2>2, GrabStep, CallMaps
    <2>3. CASE Decline(s, T)
      BY <2>1, <2>3, DeclineMaps
    <2>4. QED
      BY <2>1, <2>2, <2>3
  <1>5. ASSUME NEW reply \in JiabeiReplies, Jiabei(s, reply)
        PROVE  AuctionStep
    <2>1. /\ UNCHANGED auction /\ status = "jiabei"
          /\ status' \in {"jiabei", "gaming"}
      BY <1>5 DEF Jiabei, ToChupai
    <2>2. QED
      BY <2>1, KeptStep DEF auction, AuctionPhase
  <1>6. ASSUME NEW p \in Plays, PlayCards(s, p)
        PROVE  AuctionStep
    <2>1. UNCHANGED auction /\ status = "gaming" /\ status' = "gaming"
      BY <1>6, ChupaiPhase DEF PlayCards, ToChupai
    <2>2. QED
      BY <2>1, KeptStep DEF auction, AuctionPhase
  <1>7. ASSUME Pass(s)
        PROVE  AuctionStep
    <2>1. UNCHANGED auction /\ status = "gaming" /\ status' = "gaming"
      BY <1>7, ChupaiPhase DEF Pass, ToChupai
    <2>2. QED
      BY <2>1, KeptStep DEF auction, AuctionPhase
  <1>8. ASSUME NEW p \in Plays, PlayLastCards(s, p)
        PROVE  AuctionStep
    <2>1. status = "gaming" /\ RestartRoom
      BY <1>8, ChupaiPhase DEF PlayLastCards
    <2>2. Auction!Close
      BY <2>1 DEF Auction!Close, Auction!Nobody, RestartRoom, AuctionPhase
    <2>3. QED
      BY <2>2 DEF AuctionStep, Auction!Next
  <1>9. CASE \E p \in Plays : BreakOff(s, p)
    BY <1>9, KeptStep DEF BreakOff, turn, auction, AuctionPhase
  <1>10. QED
    BY <1>1, <1>2, <1>3, <1>4, <1>5, <1>6, <1>7, <1>8, <1>9, JdzMaps
       DEF Packet, TakeTurn

(* Every delivered timer is a step or a stutter of the abstract auction.   *)
LEMMA OnTimerMaps ==
  ASSUME RoundInv, OnTimer
  PROVE  AuctionStep
  <1> DEFINE T == timers \ {fired}
  <1>1. /\ TableInv /\ AuctionInv /\ TypeOK
        /\ \/ fired[1] = "mingpai" /\ InTime(fired) /\ TimeoutMingpai(T)
           \/ fired[1] = "jdz"     /\ InTime(fired) /\ TimeoutJdz(fired[2], T)
           \/ fired[1] = "qdz"     /\ InTime(fired) /\ TimeoutQdz(fired[2], T)
           \/ fired[1] = "jiabei"  /\ InTime(fired) /\ TimeoutJiabei(T)
           \/ UNCHANGED <<turn, auction>>
    BY DEF OnTimer, RoundInv, TableInv
  <1> HIDE DEF T
  <1>2. CASE fired[1] = "mingpai" /\ InTime(fired) /\ TimeoutMingpai(T)
    BY <1>2, KeptStep DEF InTime, TimeoutMingpai, ToJdz, auction, AuctionPhase
  <1>3. CASE fired[1] = "jdz" /\ InTime(fired) /\ TimeoutJdz(fired[2], T)
    <2>1. status = "jiaodizhu" /\ fired[2] \in Seat
      BY <1>1, <1>3 DEF InTime, TypeOK, TableInv, WaitsForTheRightSeats, Seat,
                        AnySeat
    <2>2. QED
      BY <1>3, <2>1, AskMaps, RedealMaps DEF TimeoutJdz
  <1>4. CASE fired[1] = "qdz" /\ InTime(fired) /\ TimeoutQdz(fired[2], T)
    <2>1. /\ status = "qiangdizhu" /\ curr_turn = fired[2]
          /\ fired[2] \in Seat
      BY <1>1, <1>4 DEF InTime, TypeOK, TableInv, WaitsForTheRightSeats, Seat,
                        AnySeat
    <2>2. QED
      BY <1>4, <2>1, DeclineMaps DEF TimeoutQdz
  <1>5. CASE fired[1] = "jiabei" /\ InTime(fired) /\ TimeoutJiabei(T)
    BY <1>5, KeptStep DEF InTime, TimeoutJiabei, ToChupai, auction, AuctionPhase
  <1>6. CASE UNCHANGED <<turn, auction>>
    BY <1>6, KeptStep DEF turn, auction, AuctionPhase
  <1>7. QED
    BY <1>1, <1>2, <1>3, <1>4, <1>5, <1>6

(* Every step of the table is a step or a stutter of the abstract          *)
(* auction.                                                                *)
LEMMA NextMaps ==
  ASSUME RoundInv, [Next]_vars
  PROVE  AuctionStep
  <1>1. CASE \E p \in Players : Enter(p)
    BY <1>1, KeptStep DEF Enter, turn, auction, AuctionPhase
  <1>2. CASE \E s \in Seat : Packet(s)
    BY <1>2, PacketMaps
  <1>3. CASE \E t \in timers : TimerDue(t)
    BY <1>3, KeptStep DEF TimerDue, turn, auction, AuctionPhase
  <1>4. CASE OnTimer
    BY <1>4, OnTimerMaps
  <1>5. CASE UNCHANGED vars
    BY <1>5, KeptStep DEF vars, turn, auction, AuctionPhase
  <1>6. QED
    BY <1>1, <1>2, <1>3, <1>4, <1>5 DEF Next

(* The room implements the abstract auction: every step of the script is a *)
(* bid, a settlement, a thrown or forced deal, the opening or closing of a *)
(* round, or leaves the auction alone.                                     *)
THEOREM AuctionRefined == Spec => ImplementsAuction
  <1>1. Init => Auction!Init
    BY DEF Init, Auction!Init, AuctionPhase, Auction!Nobody
  <1>2. RoundInv /\ [Next]_vars => [Auction!Next]_(Auction!avars)
    BY NextMaps DEF AuctionStep
  <1>3. QED
    BY <1>1, <1>2, RoundInvariant, PTL
       DEF Spec, ImplementsAuction, Auction!AuctionSpec

(* Nobody gets up in the middle of a round, and only the play of a last    *)
(* card ends one.                                                          *)
THEOREM RoundEnds == Spec => RoundEndsByLastCard
  <1> DEFINE Ends ==
        /\ status # "not_gaming" => UNCHANGED seats
        /\ status # "not_gaming" /\ status' = "not_gaming" =>
             status = "gaming" /\ \E p \in Plays : hand[curr_turn] = p.n
  <1>1. RoundInv /\ Next => Ends
    <2> SUFFICES ASSUME RoundInv, Next PROVE Ends
      OBVIOUS
    <2>1. CASE \E p \in Players : Enter(p)
      BY <2>1 DEF Enter
    <2>2. ASSUME NEW s \in Seat, Packet(s)
          PROVE  Ends
      <3>1. CASE Leave(s)
        BY <3>1 DEF Leave, MayLeave
      <3>2. CASE \E show \in BOOLEAN : Ready(s, show)
        BY <3>2 DEF Ready
      <3>3. CASE \E reply \in {0, 1} : Mingpai(s, reply)
        BY <3>3 DEF Mingpai, ToJdz, turn, table
      <3>4. CASE \E reply \in {0, 1} : Jdz(s, reply)
        BY <3>4 DEF Jdz, Call, AskNextSeat, Redeal, Deal, ForcedLandlord, ToQdz,
           ToJiabei, table
      <3>5. CASE \E reply \in {0, 1} : Qdz(s, reply)
        BY <3>5 DEF Qdz, Grab, Decline, CallerDeclines, GrabberDeclines,
           OtherDeclines, ToQdz, ToJiabei
      <3>6. CASE \E reply \in JiabeiReplies : Jiabei(s, reply)
        BY <3>6 DEF Jiabei, ToChupai, table
      <3>7. CASE Pass(s) \/ \E p \in Plays : PlayCards(s, p)
        BY <3>7 DEF Pass, PlayCards, ToChupai, table
      <3>8. CASE \E p \in Plays : PlayLastCards(s, p)
        BY <3>8, ChupaiPhase DEF PlayLastCards
      <3>9. CASE \E p \in Plays : BreakOff(s, p)
        BY <3>9 DEF BreakOff, turn, table
      <3>10. QED
        BY <2>2, <3>1, <3>2, <3>3, <3>4, <3>5, <3>6, <3>7, <3>8, <3>9
           DEF Packet, TakeTurn
    <2>3. CASE \E t \in timers : TimerDue(t)
      BY <2>3 DEF TimerDue, turn, table
    <2>4. CASE OnTimer
      BY <2>4 DEF OnTimer, TimeoutMingpai, ToJdz, TimeoutJdz, AskNextSeat,
         Redeal, Deal, TimeoutQdz, Decline, CallerDeclines, GrabberDeclines,
         OtherDeclines, ToQdz, ToJiabei, TimeoutJiabei, ToChupai, turn, table
    <2>5. QED
      BY <2>1, <2>2, <2>3, <2>4 DEF Next
  <1>2. RoundInv /\ [Next]_vars => [Ends]_vars
    BY <1>1
  <1>3. QED
    BY <1>2, RoundInvariant, PTL DEF Spec, RoundEndsByLastCard

-----------------------------------------------------------------------------
(* The timers of the table.  A timer on its way keeps its tag until its    *)
(* seat is given up, and the timers of the two phases that wait for        *)
(* everybody carry no tag: the one picked up in its own phase is the one   *)
(* the bucket holds, whatever has happened in between.                     *)
TagFits == fired[1] \in {"mingpai", "jiabei"} => fired[2] = 0

TimerInv == TagFits /\ TimerFitsPhase

(* Taking the timer of the phase out of the bucket leaves it empty.        *)
LEMMA PhaseTimerKilled ==
  ASSUME TimerFitsPhase
  PROVE  /\ status = "sendpokers" => KillTimer("mingpai", 0) = {}
         /\ status = "jiaodizhu"  => KillTimer("jdz", curr_turn) = {}
         /\ status = "qiangdizhu" => KillTimer("qdz", curr_turn) = {}
         /\ status = "jiabei"     => KillTimer("jiabei", 0) = {}
         /\ status \in {"gaming", "not_gaming"} => timers = {}
  BY DEF TimerFitsPhase, PhaseTimer, KillTimer

(* A timer that meets the conditions of its handler is the only one the    *)
(* bucket holds, one that does not is no longer in the bucket.             *)
LEMMA FiredTimer ==
  ASSUME RoundInv, TimerInv, fired # NoTimer
  PROVE  /\ InTime(fired)  => timers \ {fired} = {}
         /\ ~InTime(fired) => timers \ {fired} = timers
  <1>1. /\ fired \in Timer /\ fired = <<fired[1], fired[2]>>
        /\ fired[1] \in {"mingpai", "jdz", "qdz", "jiabei"}
    BY DEF RoundInv, TableInv, TypeOK, Timer, Actions
  <1>2. TagFits /\ timers = PhaseTimer
    BY DEF TimerInv, TimerFitsPhase
  <1>3. CASE InTime(fired)
    <2>1. PhaseTimer = {fired}
      BY <1>1, <1>2, <1>3 DEF InTime, PhaseTimer, TagFits
    <2>2. QED
      BY <1>2, <1>3, <2>1
  <1>4. CASE ~InTime(fired)
    <2>1. /\ status = "jiaodizhu" => "jdz" \in waiting[curr_turn]
          /\ status = "qiangdizhu" => "qdz" \in waiting[curr_turn]
      BY DEF RoundInv, TableInv, TypeOK, WaitsForTheRightSeats, Only, Seat,
         AnySeat
    <2>2. /\ fired[1] = "mingpai" => status # "sendpokers"
          /\ fired[1] = "jiabei" => status # "jiabei"
          /\ fired[1] = "jdz" => status # "jiaodizhu" \/ fired[2] # curr_turn
          /\ fired[1] = "qdz" => status # "qiangdizhu" \/ fired[2] # curr_turn
      <3>1. fired[1] = "mingpai" => status # "sendpokers"
        BY <1>4 DEF InTime
      <3>2. fired[1] = "jiabei" => status # "jiabei"
        BY <1>4 DEF InTime
      <3>3. fired[1] = "jdz" => status # "jiaodizhu" \/ fired[2] # curr_turn
        BY <1>4, <2>1 DEF InTime
      <3>4. fired[1] = "qdz" => status # "qiangdizhu" \/ fired[2] # curr_turn
        BY <1>4, <2>1 DEF InTime
      <3>5. QED
        BY <3>1, <3>2, <3>3, <3>4
    <2>3. fired \notin PhaseTimer
      BY <1>1, <2>2 DEF PhaseTimer
    <2>4. QED
      BY <1>2, <1>4, <2>3
  <1>5. QED
    BY <1>3, <1>4

(* Every way into a phase arms the timer of that phase.                    *)
LEMMA PhaseTimerArmed ==
  /\ \A held, listed, onTable, shown :
       Deal(held, listed, onTable, shown, {}) => TimerFitsPhase'
  /\ Redeal({}) => TimerFitsPhase'
  /\ \A first : ToJdz(first, {}) => TimerFitsPhase'
  /\ \A t : ToQdz(t, {}) => TimerFitsPhase'
  /\ \A d : ToJiabei(d, {}) => TimerFitsPhase'
  /\ \A t, h : ToChupai(t, h, {}) => TimerFitsPhase'
  BY DEF TimerFitsPhase, PhaseTimer, AddTimer, Deal, Redeal, ToJdz, ToQdz,
     ToJiabei, ToChupai

(* A refusal in the calling hands the timer on to the next seat.           *)
LEMMA AskTimer ==
  ASSUME status = "jiaodizhu", NEW s \in Seat, AskNextSeat(s, {})
  PROVE  TimerFitsPhase'
  BY DEF AskNextSeat, TimerFitsPhase, PhaseTimer, AddTimer

(* A refusal in the grabbing leads to a phase, whose timer is armed.       *)
LEMMA DeclineTimer ==
  ASSUME NEW s \in Seat, Decline(s, {})
  PROVE  TimerFitsPhase'
  BY PhaseTimerArmed
     DEF Decline, CallerDeclines, GrabberDeclines, OtherDeclines

(* A step that leaves phase, turn and bucket alone keeps the timer's fit.  *)
LEMMA SameTimer ==
  ASSUME TimerFitsPhase, UNCHANGED <<status, curr_turn, timers>>
  PROVE  TimerFitsPhase'
  BY DEF TimerFitsPhase, PhaseTimer

(* No packet leaves a timer of an earlier phase running, or a phase        *)
(* without its own.                                                        *)
LEMMA PacketTimer ==
  ASSUME RoundInv, TimerInv, NEW s \in Seat, Packet(s)
  PROVE  TimerInv'
  <1>1. TagFits /\ TimerFitsPhase
    BY DEF TimerInv
  <1>2. CASE Leave(s)
    <2>1. TimerFitsPhase'
      BY <1>1, <1>2, SameTimer DEF Leave, turn
    <2>2. \/ fired' = fired
          \/ fired[2] = s /\ fired' = <<fired[1], Gone>>
      BY <1>2 DEF Leave
    <2>3. TagFits'
      BY <1>1, <2>2 DEF TagFits, Seat
    <2>4. QED
      BY <2>1, <2>3 DEF TimerInv
  <1>3. ASSUME NEW show \in BOOLEAN, Ready(s, show)
        PROVE  TimerFitsPhase' /\ UNCHANGED fired
    <2>1. timers = {} /\ UNCHANGED fired
      BY <1>1, <1>3, PhaseTimerKilled DEF Ready
    <2>2. \/ UNCHANGED <<turn, timers>>
          \/ \E listed, shown : Deal(hand, listed, bottom, shown, {})
      BY <1>3, <2>1 DEF Ready
    <2>3. QED
      BY <1>1, <2>1, <2>2, SameTimer, PhaseTimerArmed DEF turn
  <1>4. ASSUME NEW reply \in {0, 1}, Mingpai(s, reply)
        PROVE  TimerFitsPhase' /\ UNCHANGED fired
    <2>1. \/ UNCHANGED <<status, curr_turn, timers>>
          \/ /\ status = "sendpokers"
             /\ ToJdz(first_mingpai_seat', KillTimer("mingpai", 0))
      BY <1>4 DEF Mingpai, turn
    <2>2. UNCHANGED fired
      BY <1>4 DEF Mingpai
    <2>3. QED
      BY <1>1, <2>1, <2>2, SameTimer, PhaseTimerKilled, PhaseTimerArmed
  <1>5. ASSUME NEW reply \in {0, 1}, Jdz(s, reply)
        PROVE  TimerFitsPhase' /\ UNCHANGED fired
    <2>1. /\ status = "jiaodizhu" /\ UNCHANGED fired
          /\ KillTimer("jdz", s) = {}
      BY <1>1, <1>5, PhaseTimerKilled DEF Jdz
    <2>2. \/ Call(s, {}) \/ AskNextSeat(s, {})
          \/ Redeal({}) \/ ForcedLandlord(s, {})
      BY <1>5, <2>1 DEF Jdz
    <2>3. Call(s, {}) => TimerFitsPhase'
      BY PhaseTimerArmed DEF Call
    <2>4. ForcedLandlord(s, {}) => TimerFitsPhase'
      BY PhaseTimerArmed DEF ForcedLandlord
    <2>5. QED
      BY <2>1, <2>2, <2>3, <2>4, AskTimer, PhaseTimerArmed
  <1>6. ASSUME NEW reply \in {0, 1}, Qdz(s, reply)
        PROVE  TimerFitsPhase' /\ UNCHANGED fired
    <2>1. status = "qiangdizhu" /\ curr_turn = s /\ UNCHANGED fired
      BY <1>6 DEF Qdz, RoundInv, TableInv, TypeOK, WaitsForTheRightSeats, Only
    <2>2. KillTimer("qdz", s) = {}
      BY <1>1, <2>1, PhaseTimerKilled
    <2>3. Grab(s, {}) \/ Decline(s, {})
      BY <1>6, <2>2 DEF Qdz
    <2>4. Grab(s, {}) => TimerFitsPhase'
      BY PhaseTimerArmed DEF Grab
    <2>5. QED
      BY <2>1, <2>3, <2>4, DeclineTimer
  <1>7. ASSUME NEW reply \in JiabeiReplies, Jiabei(s, reply)
        PROVE  TimerFitsPhase' /\ UNCHANGED fired
    <2>1. /\ status = "jiabei" /\ UNCHANGED fired
          /\ KillTimer("jiabei", 0) = {}
      BY <1>1, <1>7, PhaseTimerKilled DEF Jiabei
    <2>2. \/ UNCHANGED <<status, curr_turn, timers>>
          \/ ToChupai(curr_turn, hand, {})
      BY <1>7, <2>1 DEF Jiabei
    <2>3. QED
      BY <1>1, <2>1, <2>2, SameTimer, PhaseTimerArmed
  <1>8. CASE TakeTurn(s)
    <2>1. "chupai" \in waiting[s] /\ UNCHANGED fired
      BY <1>8 DEF TakeTurn, Pass, PlayCards, PlayLastCards
    <2>2. timers = {}
      BY <1>1, <2>1, ChupaiPhase, PhaseTimerKilled
    <2>3. \/ \E t, h : ToChupai(t, h, {})
          \/ RestartRoom /\ UNCHANGED timers
      BY <1>8, <2>2 DEF TakeTurn, Pass, PlayCards, PlayLastCards
    <2>4. RestartRoom /\ UNCHANGED timers => TimerFitsPhase'
      BY <2>2 DEF RestartRoom, TimerFitsPhase, PhaseTimer
    <2>5. QED
      BY <1>1, <2>1, <2>3, <2>4, PhaseTimerArmed DEF TimerInv, TagFits
  <1>9. CASE \E p \in Plays : BreakOff(s, p)
    BY <1>1, <1>9, SameTimer DEF BreakOff, turn, TimerInv, TagFits
  <1>10. TimerFitsPhase' /\ UNCHANGED fired => TimerInv'
    BY <1>1 DEF TimerInv, TagFits
  <1>11. QED
    BY <1>2, <1>3, <1>4, <1>5, <1>6, <1>7, <1>8, <1>9, <1>10 DEF Packet

(* A delivered timer moves the table on when it is in time and changes     *)
(* nothing, the bucket included, when it is not.                           *)
LEMMA OnTimerTimer ==
  ASSUME RoundInv, TimerInv, OnTimer
  PROVE  TimerInv'
  <1>1. TimerFitsPhase /\ fired # NoTimer /\ fired' = NoTimer
    BY DEF TimerInv, OnTimer
  <1>2. TagFits'
    BY <1>1 DEF TagFits, NoTimer
  <1>3. CASE InTime(fired)
    <2>1. timers \ {fired} = {}
      BY <1>1, <1>3, FiredTimer
    <2>2. \/ fired[1] = "mingpai" /\ TimeoutMingpai({})
          \/ fired[1] = "jdz"     /\ TimeoutJdz(fired[2], {})
          \/ fired[1] = "qdz"     /\ TimeoutQdz(fired[2], {})
          \/ fired[1] = "jiabei"  /\ TimeoutJiabei({})
      BY <1>3, <2>1 DEF OnTimer
    <2>3. TimeoutMingpai({}) => TimerFitsPhase'
      BY PhaseTimerArmed DEF TimeoutMingpai
    <2>4. fired[1] = "jdz" /\ TimeoutJdz(fired[2], {}) => TimerFitsPhase'
      <3>1. fired[1] = "jdz" => status = "jiaodizhu" /\ fired[2] \in Seat
        BY <1>3 DEF InTime, RoundInv, TableInv, TypeOK, WaitsForTheRightSeats,
                    Seat, AnySeat
      <3>2. QED
        BY <3>1, AskTimer, PhaseTimerArmed DEF TimeoutJdz
    <2>5. fired[1] = "qdz" /\ TimeoutQdz(fired[2], {}) => TimerFitsPhase'
      <3>1. fired[1] = "qdz" => fired[2] \in Seat
        BY <1>3 DEF InTime, RoundInv, TableInv, TypeOK, WaitsForTheRightSeats,
                    Seat, AnySeat
      <3>2. QED
        BY <3>1, DeclineTimer DEF TimeoutQdz
    <2>6. TimeoutJiabei({}) => TimerFitsPhase'
      BY PhaseTimerArmed DEF TimeoutJiabei
    <2>7. QED
      BY <1>2, <2>2, <2>3, <2>4, <2>5, <2>6 DEF TimerInv
  <1>4. CASE ~InTime(fired)
    <2>1. UNCHANGED <<turn, timers>>
      BY <1>1, <1>4, FiredTimer DEF OnTimer
    <2>2. QED
      BY <1>1, <1>2, <2>1, SameTimer DEF TimerInv, turn
  <1>5. QED
    BY <1>3, <1>4

(* Every step keeps the timer of the phase, and no other, in the bucket.   *)
LEMMA NextTimer ==
  ASSUME RoundInv, TimerInv, [Next]_vars
  PROVE  TimerInv'
  <1>1. TagFits /\ TimerFitsPhase
    BY DEF TimerInv
  <1>2. CASE \E p \in Players : Enter(p)
    BY <1>1, <1>2, SameTimer DEF Enter, turn, TimerInv, TagFits
  <1>3. CASE \E s \in Seat : Packet(s)
    BY <1>3, PacketTimer
  <1>4. ASSUME NEW t \in timers, TimerDue(t)
        PROVE  TimerInv'
    <2>1. fired' = t /\ UNCHANGED <<turn, timers>>
      BY <1>4 DEF TimerDue
    <2>2. t[1] \in {"mingpai", "jiabei"} => t[2] = 0
      BY <1>1 DEF TimerFitsPhase, PhaseTimer
    <2>3. QED
      BY <1>1, <2>1, <2>2, SameTimer DEF TimerInv, TagFits, turn
  <1>5. CASE OnTimer
    BY <1>5, OnTimerTimer
  <1>6. CASE UNCHANGED vars
    BY <1>1, <1>6, SameTimer DEF vars, turn, TimerInv, TagFits
  <1>7. QED
    BY <1>2, <1>3, <1>4, <1>5, <1>6 DEF Next

(* start_timer and kill_timer go together: in every phase before the play  *)
(* the bucket holds the timer that ends it, tagged for the seat asked, and *)
(* nothing else, also when a timer of an earlier phase is delivered late.  *)
THEOREM TimersFit == Spec => []TimerFitsPhase
  <1>1. Init => TimerInv
    BY DEF Init, TimerInv, TagFits, TimerFitsPhase, PhaseTimer, NoTimer
  <1>2. RoundInv /\ TimerInv /\ [Next]_vars => TimerInv'
    BY NextTimer
  <1>3. TimerInv => TimerFitsPhase
    BY DEF TimerInv
  <1>4. QED
    BY <1>1, <1>2, <1>3, RoundInvariant, PTL DEF Spec

-----------------------------------------------------------------------------
(* The cards.  Nothing is played before the play begins, which a redeal    *)
(* relies on: reset_seats_status takes the hands back, not the plays.      *)
NotYetPlayed == status # "gaming" => chued = All(0) /\ broken = 0

CardsInv == NotYetPlayed /\ CardsConserved

(* Between rounds there are no cards at all.                               *)
LEMMA NoCards ==
  ASSUME TypeOK, CardsInv, status = "not_gaming"
  PROVE  hand = All(0) /\ bottom = 0 /\ chued = All(0) /\ broken = 0
  <1>1. chued = All(0) /\ broken = 0 /\ hand \in [Seat -> Nat] /\ bottom \in Nat
    BY DEF CardsInv, NotYetPlayed, TypeOK
  <1>2. chued[1] = 0 /\ chued[2] = 0 /\ chued[3] = 0
    BY <1>1 DEF All, Seat
  <1>3. /\ hand[1] \in Nat /\ hand[2] \in Nat /\ hand[3] \in Nat
        /\ bottom \in Nat
    BY <1>1 DEF Seat
  <1>4. hand[1] + hand[2] + hand[3] + bottom = 0
    BY <1>1, <1>2, <1>3 DEF CardsInv, CardsConserved
  <1>5. hand[1] = 0 /\ hand[2] = 0 /\ hand[3] = 0 /\ bottom = 0
    <2>1. PICK a \in Nat, b \in Nat, c \in Nat :
             a = hand[1] /\ b = hand[2] /\ c = hand[3]
      BY <1>3
    <2>2. a + b + c + bottom = 0
      BY <1>4, <2>1
    <2>3. a = 0 /\ b = 0 /\ c = 0 /\ bottom = 0
      BY <1>3, <2>2
    <2>4. QED
      BY <2>1, <2>3
  <1>6. QED
    BY <1>1, <1>5 DEF All, Seat

(* A deal to empty hands puts every card of the pack on the table.         *)
LEMMA DealCards ==
  ASSUME chued = All(0), broken = 0, dizhu_seat' = 0, NEW listed, NEW shown, NEW T,
         Deal(All(0), listed, 0, shown, T)
  PROVE  CardsInv'
  <1>1. /\ status' = "sendpokers" /\ chued' = All(0) /\ bottom' = BottomCards
        /\ hand' = [s \in Seat |-> HandCards]
        /\ broken' = 0
        /\ HandCards \in Nat \ {0} /\ BottomCards \in Nat
    BY CardsAssumption DEF Deal, All
  <1>2. /\ hand'[1] = HandCards /\ hand'[2] = HandCards
        /\ hand'[3] = HandCards
        /\ chued'[1] = 0 /\ chued'[2] = 0 /\ chued'[3] = 0
    BY <1>1 DEF All, Seat
  <1>3. CardsConserved'
    BY <1>1, <1>2 DEF CardsConserved, Seat
  <1>4. QED
    BY <1>1, <1>3 DEF CardsInv, NotYetPlayed

(* A step that touches no card and starts or ends no round keeps the       *)
(* cards; the play does not turn back into an auction.                     *)
LEMMA SameCards ==
  ASSUME CardsInv, UNCHANGED <<cards, dizhu_seat>>,
         \/ status' = status
         \/ status \notin {"not_gaming", "gaming"} /\ status' # "not_gaming"
  PROVE  CardsInv'
  <1>1. UNCHANGED <<hand, chued, bottom, broken, dizhu_seat>>
    BY DEF cards
  <1>2. CASE status' = status
    BY <1>1, <1>2 DEF CardsInv, NotYetPlayed, CardsConserved
  <1>3. CASE status \notin {"not_gaming", "gaming"} /\ status' # "not_gaming"
    BY <1>1, <1>3 DEF CardsInv, NotYetPlayed, CardsConserved
  <1>4. QED
    BY <1>2, <1>3

(* The extra cards go from the table to the landlord's hand.               *)
LEMMA LandlordCards ==
  ASSUME RoundInv, CardsInv, status \in {"jiaodizhu", "qiangdizhu"},
         NEW d \in Seat, NEW T, ToJiabei(d, T)
  PROVE  CardsInv'
  <1>1. /\ dizhu_seat = 0 /\ hand \in [Seat -> Nat] /\ bottom \in Nat
    BY DEF RoundInv, AuctionInv, LandlordWhenAuctionOver, TableInv, TypeOK
  <1>2. /\ status' = "jiabei" /\ dizhu_seat' = d /\ d # 0
        /\ UNCHANGED <<chued, bottom, broken>>
        /\ hand' = [s \in Seat |-> IF s = d THEN hand[s] + bottom ELSE hand[s]]
    BY <1>1 DEF ToJiabei, Dizhu, Seat
  <1>3. /\ chued = All(0) /\ broken = 0
        /\ hand[1] + hand[2] + hand[3] + (chued[1] + chued[2] + chued[3])
             + bottom = 3 * HandCards + BottomCards + broken
        /\ \A s \in Seat : hand[s] > 0
    BY <1>1 DEF CardsInv, NotYetPlayed, CardsConserved
  <1>4. /\ hand[1] \in Nat /\ hand[2] \in Nat /\ hand[3] \in Nat
        /\ chued[1] = 0 /\ chued[2] = 0 /\ chued[3] = 0
    BY <1>1, <1>3 DEF All, Seat
  <1>5. hand'[1] + hand'[2] + hand'[3] = hand[1] + hand[2] + hand[3] + bottom
    BY <1>1, <1>2, <1>4 DEF Seat
  <1>6. \A s \in Seat : hand'[s] > 0
    BY <1>1, <1>2, <1>3
  <1>7. hand'[1] + hand'[2] + hand'[3] + (chued'[1] + chued'[2] + chued'[3]) + 0
          = 3 * HandCards + BottomCards + broken
    BY <1>1, <1>2, <1>3, <1>4, <1>5
  <1>8. CardsConserved'
    BY <1>2, <1>6, <1>7 DEF CardsConserved
  <1>9. QED
    BY <1>2, <1>3, <1>8 DEF CardsInv, NotYetPlayed

(* The outcomes of a bid and of a refusal: the next seat is asked, or the  *)
(* landlord takes the extra cards.                                         *)
LEMMA BidCards ==
  ASSUME RoundInv, CardsInv, status \in {"jiaodizhu", "qiangdizhu"},
         bidder' \in Seat, NEW T,
         \/ \E t \in Seat : ToQdz(t, T) /\ InAuction'
         \/ ToJiabei(bidder', T)
  PROVE  CardsInv'
  <1>1. CASE \E t \in Seat : ToQdz(t, T) /\ InAuction'
    BY <1>1, SameCards DEF ToQdz
  <1>2. QED
    BY <1>1, LandlordCards

(* A redeal takes all cards back before it deals them again.               *)
LEMMA RedealCards ==
  ASSUME RoundInv, CardsInv, status = "jiaodizhu", NEW T, Redeal(T)
  PROVE  CardsInv'
  <1>1. chued = All(0) /\ broken = 0
    BY DEF CardsInv, NotYetPlayed
  <1>2. dizhu_seat' = 0 /\ Deal(All(0), 0, 0, All(-1), T)
    BY DEF Redeal, HeldAfterReset, ListedAfterReset, BottomAfterReset
  <1>3. QED
    BY <1>1, <1>2, DealCards

(* A refusal in the calling moves no cards.                                *)
LEMMA AskCards ==
  ASSUME CardsInv, NEW s \in Seat, NEW T, AskNextSeat(s, T)
  PROVE  CardsInv'
  BY SameCards DEF AskNextSeat

(* An answer in the calling, with all its outcomes.                        *)
LEMMA JdzCards ==
  ASSUME RoundInv, CardsInv, NEW s \in Seat, NEW reply \in {0, 1},
         Jdz(s, reply)
  PROVE  CardsInv'
  <1> DEFINE T == KillTimer("jdz", s)
  <1>1. /\ TableInv /\ AuctionInv /\ status = "jiaodizhu" /\ curr_turn = s
        /\ Call(s, T) \/ AskNextSeat(s, T) \/ Redeal(T) \/ ForcedLandlord(s, T)
    BY DEF Jdz, RoundInv
  <1> HIDE DEF T
  <1>2. CASE Call(s, T)
    BY <1>1, <1>2, CallStep, BidCards
  <1>3. CASE ForcedLandlord(s, T)
    BY <1>1, <1>3, SeatFacts, LandlordCards DEF ForcedLandlord
  <1>4. QED
    BY <1>1, <1>2, <1>3, AskCards, RedealCards

(* A play takes its cards out of the hand, and leaves at least one.        *)
LEMMA PlayCardsCards ==
  ASSUME RoundInv, CardsInv, NEW s \in Seat, NEW p \in Plays, PlayCards(s, p)
  PROVE  CardsInv'
  <1>1. /\ status = "gaming" /\ dizhu_seat # 0 /\ p.n \in Nat
        /\ hand \in [Seat -> Nat] /\ chued \in [Seat -> Nat] /\ broken \in Nat
    BY ChupaiPhase, CardsAssumption DEF PlayCards, RoundInv, AuctionInv,
       LandlordWhenAuctionOver, TableInv, TypeOK
  <1>2. /\ status' = "gaming" /\ dizhu_seat' = dizhu_seat /\ broken' = broken
        /\ chued' = [chued EXCEPT ![s] = @ + p.n]
        /\ hand' = [hand EXCEPT ![s] = @ - p.n]
        /\ p.n < hand[s]
    BY DEF PlayCards, ToChupai, auction
  <1>3. /\ hand[1] + hand[2] + hand[3] + (chued[1] + chued[2] + chued[3]) + 0
             = 3 * HandCards + BottomCards + broken
        /\ \A t \in Seat : hand[t] > 0
    BY <1>1 DEF CardsInv, CardsConserved
  <1>4. /\ hand[1] \in Nat /\ hand[2] \in Nat /\ hand[3] \in Nat
        /\ chued[1] \in Nat /\ chued[2] \in Nat /\ chued[3] \in Nat
    BY <1>1 DEF Seat
  <1>5. hand'[1] + hand'[2] + hand'[3] = hand[1] + hand[2] + hand[3] - p.n
    BY <1>1, <1>2, <1>4 DEF Seat
  <1>6. chued'[1] + chued'[2] + chued'[3] = chued[1] + chued[2] + chued[3] + p.n
    BY <1>1, <1>2, <1>4 DEF Seat
  <1>7. \A t \in Seat : hand'[t] > 0
    BY <1>1, <1>2, <1>3
  <1>8. hand'[1] + hand'[2] + hand'[3] + (chued'[1] + chued'[2] + chued'[3]) + 0
          = 3 * HandCards + BottomCards + broken
    BY <1>1, <1>3, <1>4, <1>5, <1>6
  <1>9. CardsConserved'
    BY <1>1, <1>2, <1>7, <1>8 DEF CardsConserved
  <1>10. QED
    BY <1>2, <1>9 DEF CardsInv, NotYetPlayed

(* A broken-off play records one card more than it takes.                  *)
LEMMA BreakOffCards ==
  ASSUME RoundInv, CardsInv, NEW s \in Seat, NEW p \in Plays, BreakOff(s, p)
  PROVE  CardsInv'
  <1>1. /\ status = "gaming" /\ dizhu_seat # 0 /\ TypeOK
        /\ hand \in [Seat -> Nat] /\ chued \in [Seat -> Nat] /\ broken \in Nat
    BY ChupaiPhase DEF BreakOff, RoundInv, AuctionInv,
       LandlordWhenAuctionOver, TableInv, TypeOK
  <1>2. PICK k \in Nat : /\ k < hand[s]
                        /\ hand'  = [hand EXCEPT ![s] = @ - k]
                        /\ chued' = [chued EXCEPT ![s] = @ + k + 1]
    BY <1>1, BrokenCards
  <1>3. /\ status' = "gaming" /\ dizhu_seat' = dizhu_seat
        /\ broken' = broken + 1
    BY <1>1 DEF BreakOff, turn, auction
  <1>4. /\ hand[1] + hand[2] + hand[3] + (chued[1] + chued[2] + chued[3]) + 0
             = 3 * HandCards + BottomCards + broken
        /\ \A t \in Seat : hand[t] > 0
    BY <1>1 DEF CardsInv, CardsConserved
  <1>5. /\ hand[1] \in Nat /\ hand[2] \in Nat /\ hand[3] \in Nat
        /\ chued[1] \in Nat /\ chued[2] \in Nat /\ chued[3] \in Nat
        /\ 3 * HandCards + BottomCards \in Nat
    BY <1>1, CardsAssumption DEF Seat
  <1>6. hand'[1] + hand'[2] + hand'[3] = hand[1] + hand[2] + hand[3] - k
    BY <1>1, <1>2, <1>5 DEF Seat
  <1>7. chued'[1] + chued'[2] + chued'[3] = chued[1] + chued[2] + chued[3] + k + 1
    BY <1>1, <1>2, <1>5 DEF Seat
  <1>8. \A t \in Seat : hand'[t] > 0
    BY <1>1, <1>2, <1>4
  <1>9. hand'[1] + hand'[2] + hand'[3] + (chued'[1] + chued'[2] + chued'[3]) + 0
          = 3 * HandCards + BottomCards + broken'
    <2>1. PICK held \in Int, out \in Int :
             /\ held = hand[1] + hand[2] + hand[3]
             /\ out  = chued[1] + chued[2] + chued[3]
      BY <1>5
    <2>2. held + out = 3 * HandCards + BottomCards + broken
      BY <1>4, <2>1
    <2>3. /\ held - k + (out + k + 1) + 0 = 3 * HandCards + BottomCards + (broken + 1)
          /\ out + k + 1 = chued'[1] + chued'[2] + chued'[3]
          /\ held - k = hand'[1] + hand'[2] + hand'[3]
      BY <1>1, <1>2, <1>5, <1>6, <1>7, <2>1, <2>2
    <2>4. QED
      BY <1>3, <2>3
  <1>10. CardsConserved'
    BY <1>1, <1>3, <1>8, <1>9 DEF CardsConserved
  <1>11. QED
    BY <1>3, <1>10 DEF CardsInv, NotYetPlayed

(* No packet but a broken-off play loses or duplicates a card.             *)
LEMMA PacketCards ==
  ASSUME RoundInv, CardsInv, NEW s \in Seat, Packet(s)
  PROVE  CardsInv'
  <1>1. TypeOK /\ TableInv /\ AuctionInv
    BY DEF RoundInv, TableInv
  <1>2. CASE Leave(s)
    BY <1>2, SameCards DEF Leave, turn, auction
  <1>3. ASSUME NEW show \in BOOLEAN, Ready(s, show)
        PROVE  CardsInv'
    <2>1. /\ hand = All(0) /\ bottom = 0 /\ chued = All(0) /\ broken = 0
          /\ dizhu_seat = 0 /\ dizhu_seat' = dizhu_seat
      BY <1>1, <1>3, NoCards
         DEF Ready, AuctionInv, LandlordWhenAuctionOver, auction
    <2>2. \/ \E shown : Deal(All(0), play_seats, 0, shown, timers)
          \/ UNCHANGED <<turn, cards>>
      BY <1>3, <2>1 DEF Ready
    <2>3. QED
      BY <2>1, <2>2, DealCards, SameCards DEF turn
  <1>4. ASSUME NEW reply \in {0, 1}, Mingpai(s, reply)
        PROVE  CardsInv'
    <2>1. /\ UNCHANGED <<cards, dizhu_seat>>
          /\ \/ status' = status
             \/ status = "sendpokers" /\ status' = "jiaodizhu"
      BY <1>4 DEF Mingpai, ToJdz, turn, auction
    <2>2. QED
      BY <2>1, SameCards
  <1>5. ASSUME NEW reply \in {0, 1}, Qdz(s, reply)
        PROVE  CardsInv'
    <2> DEFINE T == KillTimer("qdz", s)
    <2>1. /\ status = "qiangdizhu" /\ curr_turn = s
          /\ Grab(s, T) \/ Decline(s, T)
      BY <1>1, <1>5 DEF Qdz, TableInv, TypeOK, WaitsForTheRightSeats, Only
    <2> HIDE DEF T
    <2>2. QED
      BY <1>1, <2>1, GrabStep, DeclineStep, BidCards
  <1>6. ASSUME NEW reply \in JiabeiReplies, Jiabei(s, reply)
        PROVE  CardsInv'
    <2>1. /\ UNCHANGED <<cards, dizhu_seat>> /\ status = "jiabei"
          /\ status' \in {"jiabei", "gaming"}
      BY <1>6 DEF Jiabei, ToChupai, auction, cards
    <2>2. QED
      BY <2>1, SameCards
  <1>7. CASE Pass(s)
    <2>1. /\ UNCHANGED <<cards, dizhu_seat>>
          /\ status = "gaming" /\ status' = "gaming"
      BY <1>7, ChupaiPhase DEF Pass, ToChupai, auction, cards
    <2>2. QED
      BY <2>1, SameCards
  <1>8. ASSUME NEW p \in Plays, PlayLastCards(s, p)
        PROVE  CardsInv'
    <2>1. /\ status' = "not_gaming" /\ hand' = All(0) /\ chued' = All(0)
          /\ bottom' = 0 /\ broken' = 0
      BY <1>8 DEF PlayLastCards, RestartRoom
    <2>2. QED
      BY <2>1 DEF CardsInv, NotYetPlayed, CardsConserved, All, Seat
  <1>9. QED
    BY <1>2, <1>3, <1>4, <1>5, <1>6, <1>7, <1>8, JdzCards, PlayCardsCards,
       BreakOffCards
       DEF Packet, TakeTurn

(* No timeout loses or duplicates a card.                                  *)
LEMMA OnTimerCards ==
  ASSUME RoundInv, CardsInv, OnTimer
  PROVE  CardsInv'
  <1> DEFINE T == timers \ {fired}
  <1>1. /\ TableInv /\ AuctionInv /\ TypeOK
        /\ \/ fired[1] = "mingpai" /\ InTime(fired) /\ TimeoutMingpai(T)
           \/ fired[1] = "jdz"     /\ InTime(fired) /\ TimeoutJdz(fired[2], T)
           \/ fired[1] = "qdz"     /\ InTime(fired) /\ TimeoutQdz(fired[2], T)
           \/ fired[1] = "jiabei"  /\ InTime(fired) /\ TimeoutJiabei(T)
           \/ UNCHANGED <<turn, auction, cards>>
    BY DEF OnTimer, RoundInv, TableInv
  <1> HIDE DEF T
  <1>2. CASE fired[1] = "mingpai" /\ InTime(fired) /\ TimeoutMingpai(T)
    BY <1>2, SameCards DEF InTime, TimeoutMingpai, ToJdz, auction
  <1>3. CASE fired[1] = "jdz" /\ InTime(fired) /\ TimeoutJdz(fired[2], T)
    <2>1. status = "jiaodizhu" /\ fired[2] \in Seat
      BY <1>1, <1>3 DEF InTime, TypeOK, TableInv, WaitsForTheRightSeats, Seat,
                        AnySeat
    <2>2. QED
      BY <1>3, <2>1, AskCards, RedealCards DEF TimeoutJdz
  <1>4. CASE fired[1] = "qdz" /\ InTime(fired) /\ TimeoutQdz(fired[2], T)
    <2>1. /\ status = "qiangdizhu" /\ curr_turn = fired[2]
          /\ fired[2] \in Seat
      BY <1>1, <1>4 DEF InTime, TypeOK, TableInv, WaitsForTheRightSeats, Seat,
                        AnySeat
    <2>2. QED
      BY <1>1, <1>4, <2>1, DeclineStep, BidCards DEF TimeoutQdz
  <1>5. CASE fired[1] = "jiabei" /\ InTime(fired) /\ TimeoutJiabei(T)
    <2>1. /\ UNCHANGED <<cards, dizhu_seat>>
          /\ status = "jiabei" /\ status' = "gaming"
      BY <1>5 DEF InTime, TimeoutJiabei, ToChupai, auction, cards
    <2>2. QED
      BY <2>1, SameCards
  <1>6. CASE UNCHANGED <<turn, auction, cards>>
    BY <1>6, SameCards DEF turn, auction
  <1>7. QED
    BY <1>1, <1>2, <1>3, <1>4, <1>5, <1>6

(* Every step of the table keeps the account of the cards.                 *)
LEMMA NextCards ==
  ASSUME RoundInv, CardsInv, [Next]_vars
  PROVE  CardsInv'
  <1>1. CASE \E p \in Players : Enter(p)
    BY <1>1, SameCards DEF Enter, turn, auction
  <1>2. CASE \E t \in timers : TimerDue(t)
    BY <1>2, SameCards DEF TimerDue, turn, auction
  <1>3. CASE UNCHANGED vars
    BY <1>3, SameCards DEF vars, turn, auction
  <1>4. QED
    BY <1>1, <1>2, <1>3, PacketCards, OnTimerCards DEF Next

(* Dealing, redealing any number of times, by answer or by timeout, giving *)
(* the extra cards to the landlord and playing neither lose nor duplicate  *)
(* a card, whatever the size of the pack.  What is recorded beyond the     *)
(* pack is one card for each play broken off because its packet named a    *)
(* card twice (game.lua:1743-1755), which the code does not rule out; a    *)
(* seat without cards ends the round at once even then.                    *)
THEOREM CardsAreConserved == Spec => []CardsConserved
  <1>1. Init => CardsInv
    BY DEF Init, CardsInv, NotYetPlayed, CardsConserved, All, Seat
  <1>2. RoundInv /\ CardsInv /\ [Next]_vars => CardsInv'
    BY NextCards
  <1>3. CardsInv => CardsConserved
    BY DEF CardsInv
  <1>4. QED
    BY <1>1, <1>2, <1>3, RoundInvariant, PTL DEF Spec
=============================================================================
