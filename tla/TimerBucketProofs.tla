-------------------------- MODULE TimerBucketProofs --------------------------
(***************************************************************************)
(* The bucket of game timers, for any cycle of phases.                     *)
(*                                                                         *)
(* A timer that is not taken away stays able to fire, whatever the two     *)
(* goroutines do and however slow they are (Kept).  What takes the timer   *)
(* of the phase away is always a late poller: while no two phases pass     *)
(* while it is busy with one timer, RoomIsAt and PollerIsAt say what       *)
(* commands the room's goroutine and the poller still have, Stored which   *)
(* keys these leave in the bucket, and Fires which of the timers there can *)
(* still fire.                                                             *)
(***************************************************************************)
EXTENDS TimerBucket, FiniteSetTheorems, SequenceTheorems, TLAPS

(* A round has three phases at least, and room, id and tag tell their      *)
(* timers apart (timer.go:22).                                             *)
KeysDiffer == \A i, j \in DOMAIN Cycle : Cycle[i] = Cycle[j] /\ Cycle[i] # NoKey => i = j
CycleDiffers == KeysDiffer /\ Len(Cycle) > 2

Before(i) == IF i = 1 THEN Len(Cycle) ELSE i - 1
Cmd(op, k) == [op |-> op, key |-> k]

(* The room's goroutine starts the timer of the phase, after it has killed *)
(* that of the phase before.                                               *)
KillCmds(op, i) == IF Key(i) = NoKey THEN <<Cmd(op, Key(Before(i)))>>
                   ELSE <<Cmd(op, Key(Before(i))), Cmd("start", Key(i))>>
Kills(op, i) == Key(Before(i)) # NoKey /\ cmds["room"] = KillCmds(op, i)
Killing == Kills("kill", phase) \/ Kills("delete", phase)
Starting(w) == Key(phase) # NoKey /\ cmds[w] = <<Cmd("start", Key(phase))>>

RoomIsAt == cmds["room"] = <<>> \/ Starting("room") \/ Killing

(* The poller has ended the phase before, and its timer's key is still     *)
(* to be removed.                                                          *)
Fired == /\ at = [do |-> "apply", key |-> Key(Before(phase))]
         /\ lead = 1 /\ cmds["room"] = <<>>

(* The timer in the poller's hands is of the phase, of the one before, or, *)
(* when a phase has passed since, of the one before that.                  *)
PollerIsAt ==
  /\ at.do = "walk" => at = Walking /\ lead = 0
  /\ lead \in {0, 1}
  /\ at.do # "walk" =>
       /\ at.key \in Keys
       /\ \/ at.key = Key(Before(phase))
          \/ at.key = Key(phase) /\ lead = 0 /\ cmds["room"] = <<>> /\ at.do # "apply"
          \/ at.key = Key(Before(Before(phase))) /\ lead = 1
  /\ cmds["poller"] = <<>> \/ (Starting("poller") /\ Fired)

(* The bucket has the timer of the phase, unless it is still to be         *)
(* started, and that of the phase before, until it is removed.             *)
ToStart == Starting("poller") \/ Starting("room") \/ Killing
Stored ==
  /\ Key(phase) # NoKey => (bucket[Key(phase)] = None <=> ToStart)
  /\ \A k \in Keys : bucket[k] # None =>
       \/ k = Key(phase)
       \/ k = Key(Before(phase)) /\ (Killing \/ Fired)

(* A timer has one place.  One in the bucket is running or due, unless it  *)
(* has been stopped or its value has been taken.                           *)
Fires ==
  /\ \A k, l \in Keys : bucket[k] = bucket[l] /\ bucket[k] # None => k = l
  /\ \A k \in Keys : bucket[k] # None /\ bucket[k] = held => k = at.key
  /\ \A k \in Keys : bucket[k] # None /\ state[bucket[k]] = "idle" =>
       \/ Kills("delete", phase) /\ k = Key(Before(phase))
       \/ at.do \in {"call", "apply"} /\ at.key = k

Order == RoomIsAt /\ PollerIsAt /\ Stored /\ Fires /\ ~robbed
Inv   == TypeOK /\ Order

(* The timer of the phase, unless it was taken away, is still to be        *)
(* started, or it is in the bucket and can fire, or the poller is about to *)
(* call the script with it.  No timer is under two keys.                   *)
Pending == \E w \in Workers : \E n \in DOMAIN cmds[w] : cmds[w][n] = Cmd("start", Key(phase))
Usable  ==
  /\ bucket[Key(phase)] # None
  /\ \/ state[bucket[Key(phase)]] # "idle"
     \/ at.do = "call" /\ at.key = Key(phase) /\ held = bucket[Key(phase)]

OnePlace == /\ \A k, l \in Keys : bucket[k] = bucket[l] /\ bucket[k] # None => k = l
            /\ \A k \in Keys : bucket[k] # None /\ bucket[k] = held => k = at.key
Kept     == Key(phase) # NoKey /\ ~robbed => Pending \/ Usable

BucketIInv == TypeOK /\ OnePlace /\ Kept /\ (outrun \/ Order)

USE DEF history

-----------------------------------------------------------------------------
(* The phases and their keys.                                              *)
LEMMA CycleFacts ==
  /\ Len(Cycle) \in Nat /\ Len(Cycle) > 0 /\ DOMAIN Cycle = 1..Len(Cycle)
  /\ \A i \in DOMAIN Cycle :
       /\ Next1(i) \in DOMAIN Cycle /\ Before(i) \in DOMAIN Cycle
       /\ Before(Next1(i)) = i
       /\ Key(i) # NoKey => Key(i) \in Keys
<1>1. Len(Cycle) \in Nat /\ Len(Cycle) > 0 /\ DOMAIN Cycle = 1..Len(Cycle)
  BY CycleAssumption
<1> QED
  BY <1>1 DEF Next1, Before, Key, Keys

(* Three phases in a row have three keys.                                  *)
LEMMA PhaseFacts ==
  ASSUME CycleDiffers, NEW i \in DOMAIN Cycle
  PROVE  /\ Key(i) # NoKey => Key(i) # Key(Before(i)) /\ Key(i) # Key(Before(Before(i)))
         /\ Key(i) # NoKey => Key(Next1(i)) # Key(i)
         /\ Key(Before(i)) # NoKey => Key(Next1(i)) # Key(Before(i))
<1>1. /\ Len(Cycle) \in Nat /\ Len(Cycle) > 2
      /\ i \in 1..Len(Cycle) /\ DOMAIN Cycle = 1..Len(Cycle)
  BY CycleFacts DEF CycleDiffers
<1>2. /\ Before(i) # i /\ Before(Before(i)) # i /\ Next1(i) # i /\ Next1(i) # Before(i)
      /\ Before(i) \in 1..Len(Cycle) /\ Before(Before(i)) \in 1..Len(Cycle)
      /\ Next1(i) \in 1..Len(Cycle)
  BY <1>1 DEF Before, Next1
<1> QED
  BY <1>1, <1>2 DEF CycleDiffers, KeysDiffer, Key

(* There are finitely many keys.                                           *)
LEMMA KeysFinite == IsFiniteSet(Keys) /\ Cardinality(Keys) \in Nat
<1> DEFINE S == {Cycle[i] : i \in DOMAIN Cycle}
           f == [i \in DOMAIN Cycle |-> Cycle[i]]
<1>1. f \in Surjection(DOMAIN Cycle, S)
  BY DEF Surjection
<1>2. IsFiniteSet(DOMAIN Cycle)
  BY CycleFacts, FS_Interval
<1>3. IsFiniteSet(S)
  BY <1>1, <1>2, FS_Surjection
<1>4. Keys \in SUBSET S
  BY DEF Keys
<1> QED
  BY <1>3, <1>4, FS_Subset, FS_CardinalityType

(* There is always a timer object that is not in use.                      *)
LEMMA FreshFacts ==
  ASSUME TypeOK
  PROVE  /\ Fresh \in Timers /\ Fresh # held
         /\ \A k \in Keys : bucket[k] # Fresh
<1> DEFINE B == {bucket[k] : k \in Keys}
           f == [k \in Keys |-> bucket[k]]
<1>1. f \in Surjection(Keys, B)
  BY DEF Surjection
<1>2. IsFiniteSet(B) /\ Cardinality(B) <= Cardinality(Keys)
  BY <1>1, KeysFinite, FS_Surjection
<1>3. /\ IsFiniteSet(B \cup {held}) /\ Cardinality(B) \in Nat
      /\ Cardinality(B \cup {held}) <= Cardinality(B) + 1
  BY <1>2, FS_AddElement, FS_CardinalityType
<1>4. Cardinality(B \cup {held}) \in Nat
  BY <1>3, FS_CardinalityType
<1>5. Cardinality(Timers) = Cardinality(Keys) + 2 /\ IsFiniteSet(Timers)
  BY KeysFinite, FS_Interval DEF Timers
<1>6. ~ Timers \subseteq B \cup {held}
  <2>1. SUFFICES ASSUME Timers \subseteq B \cup {held} PROVE FALSE
    OBVIOUS
  <2>2. Cardinality(Timers) <= Cardinality(B \cup {held})
    BY <1>3, <2>1, FS_Subset
  <2> QED
    BY <1>2, <1>3, <1>4, <1>5, <2>2, KeysFinite
<1>7. InUse(bucket, held) = B \cup {held}
  BY DEF InUse
<1>8. Fresh \in Timers /\ Fresh \notin InUse(bucket, held)
  BY <1>6, <1>7 DEF Fresh
<1> QED
  BY <1>8 DEF InUse

-----------------------------------------------------------------------------
(* The commands that kill.                                                 *)
LEMMA KillsFacts ==
  ASSUME NEW op, NEW i
  PROVE  /\ KillCmds(op, i) # <<>> /\ Head(KillCmds(op, i)) = Cmd(op, Key(Before(i)))
         /\ Head(KillCmds(op, i)).op = op
         /\ Tail(KillCmds(op, i)) = IF Key(i) = NoKey THEN <<>> ELSE <<Cmd("start", Key(i))>>
BY DEF KillCmds, Cmd

(* A start alone is not one of them.                                       *)
LEMMA StartFacts ==
  ASSUME NEW op \in {"kill", "delete"}, NEW i, NEW k
  PROVE  <<Cmd("start", k)>> # KillCmds(op, i)
<1>1. Head(<<Cmd("start", k)>>) = Cmd("start", k) /\ Cmd("start", k).op = "start"
  BY DEF Cmd
<1> QED
  BY <1>1, KillsFacts

(* A worker with commands starts the timer of the phase, or, the room's,   *)
(* kills that of the phase before.                                         *)
LEMMA Commanded ==
  ASSUME RoomIsAt, PollerIsAt, NEW w \in Workers, cmds[w] # <<>>
  PROVE  \/ /\ Starting(w) /\ Head(cmds[w]) = Cmd("start", Key(phase)) /\ Tail(cmds[w]) = <<>>
            /\ w = "room" => cmds["poller"] = <<>> /\ ~Killing
            /\ w = "poller" => cmds["room"] = <<>> /\ Fired
         \/ /\ w = "room" /\ cmds["poller"] = <<>>
            /\ \E op \in {"kill", "delete"} :
                 /\ Kills(op, phase) /\ Head(cmds[w]) = Cmd(op, Key(Before(phase)))
                 /\ Tail(cmds[w]) = IF Key(phase) = NoKey THEN <<>>
                                    ELSE <<Cmd("start", Key(phase))>>
<1>1. w = "room" \/ w = "poller"
  BY DEF Workers
<1>2. CASE w = "poller"
  <2>1. Starting(w) /\ Fired
    BY <1>2 DEF PollerIsAt
  <2>2. cmds[w] = <<Cmd("start", Key(phase))>>
    BY <2>1 DEF Starting
  <2>3. Head(cmds[w]) = Cmd("start", Key(phase)) /\ Tail(cmds[w]) = <<>>
    BY <2>2
  <2>4. cmds["room"] = <<>>
    BY <2>1 DEF Fired
  <2> QED
    BY <1>2, <2>1, <2>3, <2>4
<1>3. CASE w = "room" /\ Starting("room")
  <2>1. cmds[w] = <<Cmd("start", Key(phase))>>
    BY <1>3 DEF Starting
  <2>2. Head(cmds[w]) = Cmd("start", Key(phase)) /\ Tail(cmds[w]) = <<>>
    BY <2>1
  <2>3. cmds["poller"] = <<>>
    BY <1>3 DEF PollerIsAt, Fired
  <2>4. ~Kills("kill", phase) /\ ~Kills("delete", phase)
    BY <1>3, <2>2 DEF Kills, KillCmds, Cmd
  <2> QED
    BY <1>3, <2>2, <2>3, <2>4 DEF Killing
<1>4. CASE w = "room" /\ Killing
  <2>1. cmds["poller"] = <<>>
    BY <1>4 DEF PollerIsAt, Fired
  <2>2. PICK op \in {"kill", "delete"} : Kills(op, phase)
    BY <1>4 DEF Killing
  <2>3. /\ Head(cmds[w]) = Cmd(op, Key(Before(phase)))
        /\ Tail(cmds[w]) = IF Key(phase) = NoKey THEN <<>> ELSE <<Cmd("start", Key(phase))>>
    BY <1>4, <2>2 DEF Kills, KillCmds
  <2> QED
    BY <1>4, <2>1, <2>2, <2>3
<1> QED
  BY <1>1, <1>2, <1>3, <1>4 DEF RoomIsAt

(* Short sequences.                                                        *)
LEMMA ShortSeqs ==
  /\ \A S : <<>> \in Seq(S)
  /\ \A S : \A x \in S : <<x>> \in Seq(S)
  /\ \A S : \A x, y \in S : <<x, y>> \in Seq(S)
  /\ \A x, y : <<x>> \o <<y>> = <<x, y>>
  /\ \A x : <<x>> \o <<>> = <<x>> /\ <<>> \o <<x>> = <<x>>
  /\ <<>> \o <<>> = <<>>
<1>1. \A S : <<>> \in Seq(S)
  OBVIOUS
<1>2. \A S : \A x \in S : <<x>> \in Seq(S)
  OBVIOUS
<1>3. \A S : \A x, y \in S : <<x, y>> \in Seq(S)
  OBVIOUS
<1>4. ASSUME NEW x, NEW y PROVE <<x>> \o <<y>> = <<x, y>>
  <2>1. <<x>> \in Seq({x, y}) /\ y \in {x, y}
    OBVIOUS
  <2>2. <<x>> \o <<y>> = Append(<<x>>, y)
    BY <2>1, AppendIsConcat
  <2>3. /\ Append(<<x>>, y) \in Seq({x, y}) /\ Len(Append(<<x>>, y)) = 2
        /\ Append(<<x>>, y)[1] = x /\ Append(<<x>>, y)[2] = y
    BY <2>1, AppendProperties
  <2>4. /\ <<x, y>> \in Seq({x, y}) /\ Len(<<x, y>>) = 2
        /\ <<x, y>>[1] = x /\ <<x, y>>[2] = y
    OBVIOUS
  <2>5. Append(<<x>>, y) = <<x, y>>
    <3>1. \A i \in 1..2 : Append(<<x>>, y)[i] = <<x, y>>[i]
      BY <2>3
    <3> QED
      BY <2>3, <2>4, <3>1, SeqEqual
  <2> QED
    BY <2>2, <2>5
<1>5. ASSUME NEW x PROVE <<x>> \o <<>> = <<x>> /\ <<>> \o <<x>> = <<x>>
  OBVIOUS
<1>6. <<>> \o <<>> = <<>>
  OBVIOUS
<1> QED
  BY <1>1, <1>2, <1>3, <1>4, <1>5, <1>6

(* Commands about keys, and what is left of them.                          *)
LEMMA CmdTypes ==
  ASSUME TypeOK
  PROVE  /\ \A i \in DOMAIN Cycle : Start(i) \in Seq(Commands) /\ Kill(i) \in Seq(Commands)
         /\ \A i, j \in DOMAIN Cycle : Kill(i) \o Start(j) \in Seq(Commands)
         /\ \A w \in Workers : cmds[w] # <<>> =>
              /\ Tail(cmds[w]) \in Seq(Commands) /\ Head(cmds[w]).key \in Keys
              /\ [cmds[w] EXCEPT ![1].op = "delete"] \in Seq(Commands)
<1>1. \A i \in DOMAIN Cycle : Start(i) \in Seq(Commands) /\ Kill(i) \in Seq(Commands)
  <2>1. ASSUME NEW i \in DOMAIN Cycle, Key(i) # NoKey
        PROVE  [op |-> "start", key |-> Key(i)] \in Commands
               /\ [op |-> "kill", key |-> Key(i)] \in Commands
    BY <2>1, CycleFacts DEF Commands
  <2> QED
    BY <2>1, ShortSeqs DEF Start, Kill
<1>2. \A i, j \in DOMAIN Cycle : Kill(i) \o Start(j) \in Seq(Commands)
  BY <1>1
<1>3. ASSUME NEW w \in Workers, cmds[w] # <<>>
      PROVE  /\ Tail(cmds[w]) \in Seq(Commands) /\ Head(cmds[w]).key \in Keys
             /\ [cmds[w] EXCEPT ![1].op = "delete"] \in Seq(Commands)
  <2>1. cmds[w] \in Seq(Commands)
    BY DEF TypeOK
  <2>2. Tail(cmds[w]) \in Seq(Commands) /\ Head(cmds[w]) \in Commands /\ cmds[w][1] \in Commands
    BY <1>3, <2>1
  <2>3. [cmds[w][1] EXCEPT !.op = "delete"] \in Commands
    BY <2>2 DEF Commands
  <2>4. [cmds[w] EXCEPT ![1] = [cmds[w][1] EXCEPT !.op = "delete"]] \in Seq(Commands)
    BY <1>3, <2>1, <2>3
  <2> QED
    BY <2>2, <2>4 DEF Commands
<1> QED
  BY <1>1, <1>2, <1>3

(* A key is deleted from the bucket: the rest of it stays as it is.        *)
LEMMA DeleteFacts ==
  ASSUME TypeOK, NEW k, Delete(k), held' = held \/ held' = None
  PROVE  /\ bucket' \in [Keys -> Timers \cup {None}] /\ (k \in Keys => bucket'[k] = None)
         /\ \A l \in Keys : l # k => bucket'[l] = bucket[l]
         /\ state' \in [Timers -> {"idle", "running", "due"}]
         /\ \A l \in Keys : l # k /\ bucket[l] # None => state'[bucket[l]] = state[bucket[l]]
<1>1. /\ bucket' = [bucket EXCEPT ![k] = None]
      /\ state' = Collect(state, bucket', held')
  BY DEF Delete
<1>2. /\ bucket' \in [Keys -> Timers \cup {None}] /\ (k \in Keys => bucket'[k] = None)
      /\ \A l \in Keys : l # k => bucket'[l] = bucket[l]
  BY <1>1 DEF TypeOK
<1> QED
  BY <1>1, <1>2 DEF Collect, InUse, TypeOK

(* A timer is started under a key: the others stay as they are.            *)
LEMMA AddFacts ==
  ASSUME TypeOK, NEW w \in Workers, Add(w), NEW k, k = Head(cmds[w]).key
  PROVE  /\ k \in Keys /\ Fresh \in Timers /\ Fresh # held /\ Fresh # None
         /\ \A l \in Keys : bucket[l] # Fresh
         /\ bucket' \in [Keys -> Timers \cup {None}] /\ bucket'[k] = Fresh
         /\ \A l \in Keys : l # k => bucket'[l] = bucket[l]
         /\ state' \in [Timers -> {"idle", "running", "due"}] /\ state'[Fresh] = "running"
         /\ \A l \in Keys : l # k /\ bucket[l] # None => state'[bucket[l]] = state[bucket[l]]
<1>1. /\ bucket' = [bucket EXCEPT ![k] = Fresh]
      /\ state' = [Collect(state, bucket', held) EXCEPT ![Fresh] = "running"]
      /\ cmds[w] # <<>>
  BY DEF Add
<1>2. /\ k \in Keys /\ Fresh \in Timers /\ Fresh # held /\ (\A l \in Keys : bucket[l] # Fresh)
      /\ Fresh # None
  <2>1. k \in Keys /\ Fresh \in Timers /\ Fresh # held /\ (\A l \in Keys : bucket[l] # Fresh)
    BY <1>1, CmdTypes, FreshFacts
  <2>2. 0 \notin Timers
    BY KeysFinite DEF Timers
  <2> QED
    BY <2>1, <2>2 DEF None
<1>3. /\ bucket' \in [Keys -> Timers \cup {None}] /\ bucket'[k] = Fresh
      /\ \A l \in Keys : l # k => bucket'[l] = bucket[l]
  BY <1>1, <1>2 DEF TypeOK
<1>4. /\ Collect(state, bucket', held) \in [Timers -> {"idle", "running", "due"}]
      /\ \A l \in Keys : l # k /\ bucket[l] # None =>
           Collect(state, bucket', held)[bucket[l]] = state[bucket[l]]
  BY <1>3 DEF Collect, InUse, TypeOK
<1> QED
  BY <1>1, <1>2, <1>3, <1>4 DEF TypeOK

(* The next phase, by a packet or a timer.                                 *)
LEMMA AdvanceFacts ==
  ASSUME TypeOK, Advance
  PROVE  /\ phase' \in DOMAIN Cycle /\ phase' = Next1(phase)
         /\ lead' \in 0..2 /\ outrun' \in BOOLEAN /\ robbed' = FALSE
BY CycleFacts DEF Advance, TypeOK

(* Types are kept by every step.                                           *)
LEMMA TypeStep ==
  ASSUME TypeOK, [Next]_vars
  PROVE  TypeOK'
<1>1. CASE Packet
  <2>1. cmds' = [cmds EXCEPT !["room"] = Kill(phase) \o Start(Next1(phase))]
        /\ Advance /\ UNCHANGED <<bucket, state, todo, held, at>>
    BY <1>1 DEF Packet
  <2>2. Kill(phase) \o Start(Next1(phase)) \in Seq(Commands)
    BY CmdTypes, CycleFacts DEF TypeOK
  <2> QED
    BY <2>1, <2>2, AdvanceFacts DEF TypeOK
<1>2. ASSUME NEW w \in Workers, Add(w) PROVE TypeOK'
  <2>1. /\ cmds' = [cmds EXCEPT ![w] = Tail(cmds[w])] /\ cmds[w] # <<>>
        /\ robbed' \in BOOLEAN /\ UNCHANGED <<phase, todo, held, at, lead, outrun>>
    BY <1>2 DEF Add
  <2>2. cmds' \in [Workers -> Seq(Commands)]
    BY <2>1, CmdTypes DEF TypeOK
  <2>3. /\ bucket' \in [Keys -> Timers \cup {None}]
        /\ state' \in [Timers -> {"idle", "running", "due"}]
    BY <1>2, AddFacts
  <2> QED
    BY <2>1, <2>2, <2>3 DEF TypeOK
<1>3. ASSUME NEW w \in Workers, KillStop(w) PROVE TypeOK'
  <2>1. /\ cmds[w] # <<>>
        /\ \/ cmds' = [cmds EXCEPT ![w] = Tail(cmds[w])] /\ UNCHANGED state
           \/ /\ cmds' = [cmds EXCEPT ![w] = [cmds[w] EXCEPT ![1].op = "delete"]]
              /\ \E t, v : /\ state' = [state EXCEPT ![t] = v]
                           /\ v = "idle" \/ v = state[t]
        /\ robbed' = (robbed \/ Robs(Head(cmds[w]).key))
        /\ UNCHANGED <<phase, bucket, todo, held, at, lead, outrun>>
    BY <1>3 DEF KillStop
  <2>2. cmds' \in [Workers -> Seq(Commands)]
    BY <2>1, CmdTypes DEF TypeOK
  <2>3. state' \in [Timers -> {"idle", "running", "due"}]
    BY <2>1 DEF TypeOK
  <2>4. robbed' \in BOOLEAN
    BY <2>1, Zenon DEF TypeOK
  <2> QED
    BY <2>1, <2>2, <2>3, <2>4 DEF TypeOK
<1>4. ASSUME NEW w \in Workers, KillDelete(w) PROVE TypeOK'
  <2>1. /\ cmds' = [cmds EXCEPT ![w] = Tail(cmds[w])] /\ cmds[w] # <<>>
        /\ Delete(Head(cmds[w]).key) /\ UNCHANGED <<phase, todo, held, at, lead, outrun>>
    BY <1>4 DEF KillDelete
  <2>2. cmds' \in [Workers -> Seq(Commands)]
    BY <2>1, CmdTypes DEF TypeOK
  <2>3. /\ bucket' \in [Keys -> Timers \cup {None}]
        /\ state' \in [Timers -> {"idle", "running", "due"}]
    BY <2>1, DeleteFacts
  <2>4. robbed' \in BOOLEAN
    BY <2>1, Zenon DEF Delete, TypeOK
  <2> QED
    BY <2>1, <2>2, <2>3, <2>4 DEF TypeOK
<1>5. CASE StartWalk
  BY <1>5 DEF StartWalk, TypeOK, history
<1>6. ASSUME NEW k \in Keys, Visit(k) PROVE TypeOK'
  <2>1. todo' \subseteq Keys /\ UNCHANGED <<phase, bucket, state, cmds, history>>
    BY <1>6 DEF Visit, TypeOK
  <2>2. CASE bucket[k] = None
    BY <1>6, <2>1, <2>2 DEF Visit, TypeOK, history
  <2>3. CASE bucket[k] # None
    <3>1. held' = bucket[k] /\ at' = [do |-> "look", key |-> k]
      BY <1>6, <2>3 DEF Visit
    <3>2. at' # Walking
      BY <3>1 DEF Walking
    <3> QED
      BY <2>1, <2>3, <3>1, <3>2 DEF TypeOK, history, None, Timers
  <2> QED
    BY <2>2, <2>3
<1>7. CASE Look
  <2>1. at.do = "look" /\ UNCHANGED <<phase, bucket, todo, cmds, outrun, robbed>>
    BY <1>7 DEF Look
  <2>2. CASE state[held] = "due"
    <3>1. /\ at' = [at EXCEPT !.do = "call"] /\ state' = [state EXCEPT ![held] = "idle"]
          /\ held' = held /\ lead' = lead
      BY <1>7, <2>2 DEF Look
    <3>2. at # Walking /\ at' # Walking
      BY <2>1, <3>1 DEF Walking, TypeOK
    <3> QED
      BY <2>1, <3>1, <3>2 DEF TypeOK
  <2>3. CASE state[held] # "due"
    <3>1. /\ at' = Walking /\ held' = None /\ lead' = 0
          /\ state' = Collect(state, bucket, None)
      BY <1>7, <2>3 DEF Look
    <3>2. state' \in [Timers -> {"idle", "running", "due"}]
      BY <3>1 DEF Collect, TypeOK
    <3> QED
      BY <2>1, <3>1, <3>2 DEF TypeOK, Walking
  <2> QED
    BY <2>2, <2>3
<1>8. CASE OnTimer
  <2>1. /\ at.do = "call" /\ at' = [at EXCEPT !.do = "apply"]
        /\ UNCHANGED <<bucket, state, todo, held>>
    BY <1>8 DEF OnTimer
  <2>2. at # Walking /\ at' # Walking
    BY <2>1 DEF Walking, TypeOK
  <2>3. CASE Key(phase) = at.key
    <3>1. cmds' = [cmds EXCEPT !["poller"] = Start(Next1(phase))] /\ Advance
      BY <1>8, <2>3 DEF OnTimer
    <3>2. Start(Next1(phase)) \in Seq(Commands)
      BY CmdTypes, CycleFacts DEF TypeOK
    <3> QED
      BY <2>1, <2>2, <3>1, <3>2, AdvanceFacts DEF TypeOK
  <2>4. CASE Key(phase) # at.key
    BY <1>8, <2>1, <2>2, <2>4 DEF OnTimer, TypeOK, history
  <2> QED
    BY <2>3, <2>4
<1>9. CASE Remove
  <2>1. /\ held' = None /\ at' = Walking /\ lead' = 0 /\ Delete(at.key)
        /\ UNCHANGED <<phase, todo, cmds, outrun>>
    BY <1>9 DEF Remove
  <2>2. /\ bucket' \in [Keys -> Timers \cup {None}]
        /\ state' \in [Timers -> {"idle", "running", "due"}]
    BY <2>1, DeleteFacts
  <2>3. robbed' \in BOOLEAN
    BY <2>1, Zenon DEF Delete, TypeOK
  <2> QED
    BY <2>1, <2>2, <2>3 DEF TypeOK, Walking
<1>10. ASSUME NEW t \in Timers, Expire(t) PROVE TypeOK'
  BY <1>10 DEF Expire, TypeOK, history
<1>11. CASE UNCHANGED vars
  BY <1>11 DEF vars, history, TypeOK
<1> QED
  BY <1>1, <1>2, <1>3, <1>4, <1>5, <1>6, <1>7, <1>8, <1>9, <1>10, <1>11
     DEF Next, Poller, Apply, Workers

(* A running timer fires.                                                  *)
LEMMA ExpireStep ==
  ASSUME Inv, NEW t \in Timers, Expire(t)
  PROVE  Order'
<1> USE DEF Inv, Order, Expire
<1>2. RoomIsAt' /\ PollerIsAt' /\ Stored'
  BY DEF RoomIsAt, PollerIsAt, Stored, Starting, Killing, Kills, KillCmds, Fired, ToStart
<1>3. Fires'
  BY DEF TypeOK, Fires, Kills, KillCmds
<1>4. ~robbed'
  BY DEF TypeOK
<1> QED
  BY <1>2, <1>3, <1>4

(* The room's script ends a phase.                                         *)
LEMMA PacketStep ==
  ASSUME CycleDiffers, Inv, Packet, ~outrun'
  PROVE  Order'
<1> USE DEF Inv, Order
<1>1. /\ phase \in DOMAIN Cycle /\ phase' \in DOMAIN Cycle
      /\ phase' = Next1(phase) /\ Before(phase') = phase
      /\ Key(phase') # NoKey => Key(phase') \in Keys
      /\ Key(phase) # NoKey => Key(phase) \in Keys /\ Key(phase') # Key(phase)
  BY CycleFacts, PhaseFacts DEF Packet, Advance, TypeOK
<1>2. cmds["room"] = <<>> /\ lead = 0 /\ ~Fired /\ cmds["poller"] = <<>>
  BY DEF Packet, Advance, PollerIsAt, Fired, TypeOK
<1>3. cmds' = [cmds EXCEPT !["room"] = Kill(phase) \o Start(phase')]
  BY <1>1 DEF Packet
<1>4. /\ cmds'["room"] = Kill(phase) \o Start(phase') /\ cmds'["poller"] = <<>>
  BY <1>2, <1>3 DEF TypeOK, Workers
<1>5. /\ Key(phase) = NoKey /\ Key(phase') = NoKey => cmds'["room"] = <<>>
      /\ Key(phase) = NoKey /\ Key(phase') # NoKey =>
           cmds'["room"] = <<Cmd("start", Key(phase'))>>
      /\ Key(phase) # NoKey /\ Key(phase') = NoKey =>
           cmds'["room"] = <<Cmd("kill", Key(phase))>>
      /\ Key(phase) # NoKey /\ Key(phase') # NoKey =>
           cmds'["room"] = <<Cmd("kill", Key(phase)), Cmd("start", Key(phase'))>>
  BY <1>4, ShortSeqs DEF Kill, Start, Cmd
<1>6. /\ Key(phase) = NoKey /\ Key(phase') = NoKey => cmds'["room"] = <<>>
      /\ Key(phase) = NoKey /\ Key(phase') # NoKey => Starting("room")'
      /\ Key(phase) # NoKey => Kills("kill", phase)'
  BY <1>1, <1>5 DEF Starting, Kills, KillCmds
<1>7. RoomIsAt'
  BY <1>6 DEF RoomIsAt, Killing
<1>8. PollerIsAt'
  <2>1. at' = at /\ lead' = (IF at.do = "walk" THEN 0 ELSE 1)
    BY <1>2 DEF Packet, Advance
  <2>2. at.do # "walk" =>
          at.key \in Keys /\ at.key \in {Key(Before(phase)), Key(phase)}
    BY <1>2 DEF PollerIsAt
  <2> QED
    BY <1>1, <1>2, <1>4, <2>1, <2>2 DEF PollerIsAt, Key
<1>10. ~ToStart /\ ~Killing
  BY <1>2 DEF ToStart, Starting, Killing, Kills, KillCmds
<1>11. \A k \in Keys : bucket[k] # None => k = Key(phase)
  BY <1>2, <1>10 DEF Stored
<1>12. Stored'
  <2>1. Key(phase') # NoKey => bucket[Key(phase')] = None /\ ToStart'
    BY <1>1, <1>6, <1>11 DEF ToStart, Killing
  <2>2. \A k \in Keys : bucket[k] # None => k = Key(Before(phase')) /\ Killing'
    BY <1>1, <1>6, <1>11 DEF Killing, Keys
  <2> QED
    BY <2>1, <2>2 DEF Stored, Packet
<1>13. Fires'
  <2>1. ~Kills("delete", phase)
    BY <1>10 DEF Killing
  <2> QED
    BY <2>1 DEF Fires, Packet
<1>14. ~robbed'
  BY DEF Packet, Advance
<1> QED
  BY <1>7, <1>8, <1>12, <1>13, <1>14

(* A timer is started, with an object that nobody else has.                *)
LEMMA AddStep ==
  ASSUME CycleDiffers, Inv, NEW w \in Workers, Add(w)
  PROVE  Order'
<1> USE DEF Inv, Order
<1>1. /\ Starting(w) /\ Head(cmds[w]) = Cmd("start", Key(phase)) /\ Tail(cmds[w]) = <<>>
      /\ w = "room" => cmds["poller"] = <<>> /\ ~Killing
      /\ w = "poller" => cmds["room"] = <<>> /\ Fired
  BY Commanded DEF Add, Cmd
<1>2. PICK k \in Keys : k = Key(phase) /\ k # NoKey /\ Head(cmds[w]).key = k
  BY <1>1, CycleFacts DEF Starting, TypeOK, Cmd
<1>3. /\ bucket' = [bucket EXCEPT ![k] = Fresh]
      /\ state' = [Collect(state, bucket', held) EXCEPT ![Fresh] = "running"]
      /\ cmds' = [cmds EXCEPT ![w] = <<>>]
      /\ UNCHANGED <<phase, todo, held, at, lead>>
  BY <1>1, <1>2 DEF Add
<1>4. cmds'["room"] = <<>> /\ cmds'["poller"] = <<>>
  BY <1>1, <1>3 DEF TypeOK, Workers, RoomIsAt, Starting
<1>5. RoomIsAt' /\ PollerIsAt'
  BY <1>3, <1>4 DEF RoomIsAt, PollerIsAt
<1>6. bucket[k] = None /\ ~Killing
  BY <1>1, <1>2 DEF Stored, ToStart, Workers, Killing, Kills, KillCmds
<1>7. Fresh # held /\ Fresh # None /\ (\A l \in Keys : bucket[l] # Fresh)
  BY <1>2, AddFacts
<1>8. bucket'[k] = Fresh /\ \A l \in Keys : l # k => bucket'[l] = bucket[l]
  BY <1>2, AddFacts
<1>9. /\ state'[Fresh] = "running"
      /\ \A l \in Keys : l # k /\ bucket[l] # None => state'[bucket[l]] = state[bucket[l]]
  BY <1>2, AddFacts
<1>11. Stored'
  <2>1. ~ToStart'
    BY <1>4 DEF ToStart, Starting, Killing, Kills, KillCmds
  <2>2. Fired => Fired'
    BY <1>3, <1>4 DEF Fired
  <2> QED
    BY <1>2, <1>3, <1>6, <1>7, <1>8, <2>1, <2>2 DEF Stored
<1>12. Fires'
  <2>1. ~Kills("delete", phase)
    BY <1>6 DEF Killing
  <2>2. \A l, m \in Keys : bucket'[l] = bucket'[m] /\ bucket'[l] # None => l = m
    BY <1>7, <1>8 DEF Fires
  <2>3. \A l \in Keys : bucket'[l] # None /\ bucket'[l] = held => l = at.key
    BY <1>7, <1>8 DEF Fires
  <2>4. ASSUME NEW l \in Keys, bucket'[l] # None, state'[bucket'[l]] = "idle"
        PROVE  at.do \in {"call", "apply"} /\ at.key = l
    <3>1. l # k
      BY <1>8, <1>9, <2>4
    <3>2. bucket[l] # None /\ state[bucket[l]] = "idle"
      BY <1>8, <1>9, <2>4, <3>1
    <3> QED
      BY <2>1, <3>2 DEF Fires
  <2> QED
    BY <1>3, <2>2, <2>3, <2>4 DEF Fires
<1>13. ~robbed'
  BY DEF Add
<1> QED
  BY <1>5, <1>11, <1>12, <1>13

(* A command that kills is the room's, for the phase before.               *)
LEMMA KillFacts ==
  ASSUME CycleDiffers, Inv, NEW w \in Workers, cmds[w] # <<>>, Head(cmds[w]).op # "start"
  PROVE  /\ w = "room" /\ cmds["poller"] = <<>> /\ ~Fired
         /\ Kills(Head(cmds[w]).op, phase) /\ Killing
         /\ Head(cmds[w]).op \in {"kill", "delete"}
         /\ Head(cmds[w]).key = Key(Before(phase)) /\ Key(Before(phase)) \in Keys
         /\ Key(phase) # NoKey => Key(phase) \in Keys /\ Key(phase) # Key(Before(phase))
         /\ Tail(cmds[w]) = IF Key(phase) = NoKey THEN <<>> ELSE <<Cmd("start", Key(phase))>>
<1>1. PICK op \in {"kill", "delete"} :
        /\ w = "room" /\ cmds["poller"] = <<>>
        /\ Kills(op, phase) /\ Head(cmds[w]) = Cmd(op, Key(Before(phase)))
        /\ Tail(cmds[w]) = IF Key(phase) = NoKey THEN <<>> ELSE <<Cmd("start", Key(phase))>>
  BY Commanded DEF Cmd, Inv, Order
<1>2. Head(cmds[w]).op = op /\ Head(cmds[w]).key = Key(Before(phase))
  BY <1>1 DEF Cmd
<1>3. Killing /\ ~Fired
  BY <1>1 DEF Killing, Fired
<1>4. Key(Before(phase)) # NoKey /\ phase \in DOMAIN Cycle
  BY <1>1 DEF Kills, KillCmds, Inv, Order, TypeOK
<1> QED
  BY <1>1, <1>2, <1>3, <1>4, CycleFacts, PhaseFacts

(* When nothing is killed any more, the start is all that is left.         *)
LEMMA AfterKill ==
  ASSUME CycleDiffers, Inv, NEW w \in Workers, cmds[w] # <<>>, Head(cmds[w]).op # "start",
         cmds' = [cmds EXCEPT ![w] = Tail(cmds[w])], UNCHANGED <<phase, at, lead>>
  PROVE  /\ RoomIsAt' /\ PollerIsAt' /\ ~Killing'
         /\ Key(phase) # NoKey => ToStart'
<1>1. cmds'["poller"] = <<>> /\ Key(phase)' = Key(phase)
  BY KillFacts DEF Inv, Order, TypeOK, Workers, Key
<1>2. cmds'["room"] = IF Key(phase) = NoKey THEN <<>> ELSE <<Cmd("start", Key(phase))>>
  BY KillFacts DEF Inv, Order, TypeOK, Workers
<1>3. CASE Key(phase) = NoKey
  <2>1. cmds'["room"] = <<>>
    BY <1>2, <1>3
  <2>2. RoomIsAt' /\ ~Killing'
    BY <2>1, KillsFacts DEF RoomIsAt, Killing, Kills
  <2>3. PollerIsAt'
    BY <1>1, <1>3, <2>1, KillFacts DEF PollerIsAt, Inv, Order
  <2> QED
    BY <1>3, <2>2, <2>3
<1>4. CASE Key(phase) # NoKey
  <2>1. cmds'["room"] = <<Cmd("start", Key(phase))>>
    BY <1>2, <1>4
  <2>2. Starting("room")'
    BY <1>1, <1>4, <2>1 DEF Starting
  <2>3. ~Killing'
    BY <2>1, StartFacts DEF Killing, Kills
  <2>4. PollerIsAt'
    BY <1>1, KillFacts DEF PollerIsAt, Inv, Order
  <2> QED
    BY <2>2, <2>3, <2>4 DEF RoomIsAt, ToStart
<1> QED
  BY <1>3, <1>4

(* The timer of the phase before is stopped, if it is there.               *)
LEMMA KillStopStep ==
  ASSUME CycleDiffers, Inv, NEW w \in Workers, KillStop(w)
  PROVE  Order'
<1> USE DEF Inv, Order
<1>1. PICK k \in Keys : k = Key(Before(phase)) /\ Head(cmds[w]).key = k
  BY KillFacts DEF KillStop
<1>2. /\ w = "room" /\ cmds["poller"] = <<>> /\ ~Fired /\ Kills("kill", phase)
      /\ Key(phase) # k /\ Killing /\ cmds[w] # <<>> /\ Head(cmds[w]).op # "start"
      /\ UNCHANGED <<phase, bucket, todo, held, at, lead>>
  <2>1. /\ cmds[w] # <<>> /\ Head(cmds[w]).op = "kill"
        /\ UNCHANGED <<phase, bucket, todo, held, at, lead>>
    BY DEF KillStop
  <2> QED
    BY <1>1, <2>1, KillFacts DEF Keys
<1>3. ~robbed'
  BY <1>1, <1>2 DEF KillStop, Robs, Keys
<1>4. CASE bucket[k] = None
  <2>1. cmds' = [cmds EXCEPT ![w] = Tail(cmds[w])] /\ state' = state
    BY <1>1, <1>4 DEF KillStop
  <2>2. /\ RoomIsAt' /\ PollerIsAt' /\ ~Killing'
        /\ Key(phase) # NoKey => ToStart'
    BY <1>2, <2>1, AfterKill
  <2>4. Stored'
    BY <1>1, <1>2, <1>4, <2>1, <2>2 DEF Stored, ToStart, Key
  <2>5. Fires'
    BY <1>1, <1>2, <1>4, <2>1 DEF Fires
  <2> QED
    BY <1>3, <2>2, <2>4, <2>5
<1>5. CASE bucket[k] # None
  <2>1. /\ cmds' = [cmds EXCEPT ![w] = [cmds[w] EXCEPT ![1] =
                                          [cmds[w][1] EXCEPT !.op = "delete"]]]
        /\ state' = [state EXCEPT ![bucket[k]] = IF state[bucket[k]] = "due"
                                                 THEN "due" ELSE "idle"]
    BY <1>1, <1>5 DEF KillStop
  <2>2. cmds'["poller"] = <<>> /\ cmds'["room"] # <<>> /\ Kills("delete", phase)'
    <3>1. /\ cmds'["poller"] = <<>>
          /\ cmds'["room"] = [cmds["room"] EXCEPT ![1] =
                                 [cmds["room"][1] EXCEPT !.op = "delete"]]
      BY <1>2, <2>1 DEF TypeOK, Workers
    <3>2. CASE Key(phase) = NoKey
      <4>1. cmds["room"] = <<Cmd("kill", k)>>
        BY <1>1, <1>2, <3>2 DEF Kills, KillCmds
      <4>2. cmds'["room"] = <<Cmd("delete", k)>>
        BY <3>1, <4>1 DEF Cmd
      <4> QED
        BY <1>1, <1>2, <3>1, <3>2, <4>2 DEF Kills, KillCmds, Key
    <3>3. CASE Key(phase) # NoKey
      <4>1. cmds["room"] = <<Cmd("kill", k), Cmd("start", Key(phase))>>
        BY <1>1, <1>2, <3>3 DEF Kills, KillCmds
      <4>2. cmds'["room"] = <<Cmd("delete", k), Cmd("start", Key(phase))>>
        BY <3>1, <4>1 DEF Cmd
      <4> QED
        BY <1>1, <1>2, <3>1, <3>3, <4>2 DEF Kills, KillCmds, Key
    <3> QED
      BY <3>2, <3>3
  <2>3. Killing' /\ RoomIsAt' /\ ToStart' /\ ToStart
    BY <1>2, <2>2 DEF Killing, RoomIsAt, ToStart
  <2>4. PollerIsAt'
    <3>1. cmds["room"] # <<>>
      BY <1>2
    <3> QED
      BY <1>2, <2>2, <3>1 DEF PollerIsAt, Key
  <2>6. Stored'
    BY <1>2, <2>3 DEF Stored, Key
  <2>7. Fires'
    <3>1. \A l \in Keys : bucket[l] # None /\ l # k => state'[bucket[l]] = state[bucket[l]]
      BY <1>5, <2>1 DEF Fires, TypeOK
    <3>2. ~Kills("delete", phase)
      BY <1>2 DEF Kills, KillCmds, Cmd
    <3> QED
      BY <1>1, <1>2, <2>2, <3>1, <3>2 DEF Fires, Key
  <2> QED
    BY <1>3, <2>3, <2>4, <2>6, <2>7
<1> QED
  BY <1>3, <1>4, <1>5

(* The key of the phase before is deleted.                                 *)
LEMMA KillDeleteStep ==
  ASSUME CycleDiffers, Inv, NEW w \in Workers, KillDelete(w)
  PROVE  Order'
<1> USE DEF Inv, Order
<1>1. PICK k \in Keys : k = Key(Before(phase)) /\ Head(cmds[w]).key = k
  BY KillFacts DEF KillDelete
<1>2. /\ w = "room" /\ cmds["poller"] = <<>> /\ ~Fired
      /\ Key(phase) # k /\ cmds[w] # <<>> /\ Head(cmds[w]).op # "start" /\ Killing
      /\ UNCHANGED <<phase, todo, at, lead>> /\ held' = held
      /\ cmds' = [cmds EXCEPT ![w] = Tail(cmds[w])] /\ Delete(k)
  <2>1. /\ cmds[w] # <<>> /\ Head(cmds[w]).op = "delete"
        /\ UNCHANGED <<phase, todo, at, lead>> /\ held' = held
        /\ cmds' = [cmds EXCEPT ![w] = Tail(cmds[w])] /\ Delete(k)
    BY <1>1 DEF KillDelete
  <2> QED
    BY <1>1, <2>1, KillFacts DEF Keys
<1>3. /\ RoomIsAt' /\ PollerIsAt' /\ ~Killing'
      /\ Key(phase) # NoKey => ToStart'
  BY <1>2, AfterKill
<1>4. /\ bucket' \in [Keys -> Timers \cup {None}] /\ bucket'[k] = None
      /\ \A l \in Keys : l # k => bucket'[l] = bucket[l]
      /\ state' \in [Timers -> {"idle", "running", "due"}]
      /\ \A l \in Keys : l # k /\ bucket[l] # None => state'[bucket[l]] = state[bucket[l]]
  BY <1>2, DeleteFacts
<1>6. Stored'
  <2>1. Key(phase) # NoKey => bucket[Key(phase)] = None /\ Key(phase) \in Keys
    BY <1>2, KillFacts DEF Stored, ToStart
  <2> QED
    BY <1>1, <1>2, <1>3, <1>4, <2>1 DEF Stored, Key
<1>7. Fires'
  <2>1. \A l, m \in Keys : bucket'[l] = bucket'[m] /\ bucket'[l] # None => l = m
    BY <1>4 DEF Fires
  <2>2. \A l \in Keys : bucket'[l] # None /\ bucket'[l] = held => l = at.key
    BY <1>4 DEF Fires
  <2>3. ASSUME NEW l \in Keys, bucket'[l] # None, state'[bucket'[l]] = "idle"
        PROVE  at.do \in {"call", "apply"} /\ at.key = l
    <3>1. l # k /\ bucket[l] # None /\ state[bucket[l]] = "idle"
      BY <1>4, <2>3
    <3> QED
      BY <1>1, <3>1 DEF Fires
  <2> QED
    BY <1>2, <2>1, <2>2, <2>3 DEF Fires
<1>8. ~robbed'
  BY <1>1, <1>2 DEF KillDelete, Delete, Robs
<1> QED
  BY <1>3, <1>6, <1>7, <1>8

-----------------------------------------------------------------------------
(* A walk of the poller begins.                                            *)
LEMMA StartWalkStep ==
  ASSUME Inv, StartWalk
  PROVE  Order'
<1> USE DEF Inv, Order, StartWalk
<1>2. RoomIsAt' /\ PollerIsAt' /\ Stored' /\ Fires'
  BY DEF RoomIsAt, PollerIsAt, Stored, Fires, Starting, Killing, Kills, Fired, ToStart
<1>3. ~robbed'
  BY DEF StartWalk
<1> QED
  BY <1>2, <1>3

(* The poller takes a timer from the bucket.                               *)
LEMMA VisitStep ==
  ASSUME Inv, NEW k \in Keys, Visit(k)
  PROVE  Order'
<1> USE DEF Inv, Order
<1>1. at = Walking /\ at.do = "walk" /\ lead = 0 /\ ~Fired /\ cmds["poller"] = <<>>
  BY DEF Visit, Walking, PollerIsAt, Fired
<1>2. UNCHANGED <<phase, bucket, state, cmds, lead>> /\ todo' \subseteq todo
  BY DEF Visit
<1>3. ~robbed'
  BY DEF Visit
<1>4. CASE bucket[k] = None
  <2>1. held' = held /\ at' = at
    BY <1>4 DEF Visit
  <2>3. RoomIsAt' /\ PollerIsAt' /\ Stored' /\ Fires'
    BY <1>2, <2>1
       DEF RoomIsAt, PollerIsAt, Stored, Fires, Starting, Killing, Kills, Fired, ToStart
  <2> QED
    BY <1>3, <2>3
<1>5. CASE bucket[k] # None
  <2>1. held' = bucket[k] /\ at' = [do |-> "look", key |-> k]
    BY <1>5 DEF Visit
  <2>2. at'.do = "look" /\ at'.key = k /\ at' # Walking
    BY <2>1 DEF Walking
  <2>4. RoomIsAt'
    BY <1>2 DEF RoomIsAt, Starting, Killing, Kills
  <2>5. k = Key(phase) => cmds["room"] = <<>>
    BY <1>5 DEF Keys, Stored, ToStart, RoomIsAt
  <2>6. k = Key(phase) \/ k = Key(Before(phase))
    BY <1>5 DEF Stored
  <2>7. PollerIsAt'
    BY <1>1, <1>2, <2>2, <2>5, <2>6 DEF PollerIsAt, Key
  <2>8. Stored'
    BY <1>1, <1>2 DEF Stored, ToStart, Starting, Killing, Kills, Key
  <2>9. Fires'
    BY <1>1, <1>2, <1>5, <2>1, <2>2 DEF Fires, Kills, Key
  <2> QED
    BY <1>3, <2>4, <2>7, <2>8, <2>9
<1> QED
  BY <1>3, <1>4, <1>5

(* The poller takes the timer's value, or goes on.                         *)
LEMMA LookStep ==
  ASSUME Inv, Look
  PROVE  Order'
<1> USE DEF Inv, Order
<1>1. /\ at.do = "look" /\ ~Fired /\ cmds["poller"] = <<>> /\ at.key \in Keys
      /\ UNCHANGED <<phase, bucket, todo, cmds>>
      /\ held \in Timers
      /\ at \in [do : {"walk", "look", "call", "apply"}, key : Keys \cup {NoKey}]
  BY DEF Look, PollerIsAt, Fired, TypeOK, Walking
<1>2. RoomIsAt'
  BY <1>1 DEF RoomIsAt, Starting, Killing, Kills
<1>3. ~robbed'
  BY DEF Look
<1>4. CASE state[held] = "due"
  <2>1. /\ at' = [at EXCEPT !.do = "call"] /\ state' = [state EXCEPT ![held] = "idle"]
        /\ held' = held /\ lead' = lead
    BY <1>4 DEF Look
  <2>2. at'.do = "call" /\ at'.key = at.key /\ at' # Walking /\ at # Walking
    BY <1>1, <2>1 DEF Walking
  <2>4. PollerIsAt'
    BY <1>1, <2>1, <2>2 DEF PollerIsAt, Key
  <2>5. Stored'
    BY <1>1 DEF Stored, ToStart, Starting, Killing, Kills, Key
  <2>6. Fires'
    <3>1. ASSUME NEW l \in Keys, bucket[l] # None, state'[bucket[l]] = "idle"
          PROVE  \/ Kills("delete", phase) /\ l = Key(Before(phase))
                 \/ at.key = l
      <4>1. CASE bucket[l] = held
        BY <3>1, <4>1 DEF Fires
      <4>2. CASE bucket[l] # held
        <5>1. state[bucket[l]] = "idle"
          BY <2>1, <3>1, <4>2 DEF TypeOK
        <5> QED
          BY <3>1, <5>1 DEF Fires
      <4> QED
        BY <4>1, <4>2
    <3> QED
      BY <1>1, <2>1, <2>2, <3>1 DEF Fires, Kills, Key
  <2> QED
    BY <1>3, <1>2, <2>4, <2>5, <2>6
<1>5. CASE state[held] # "due"
  <2>1. /\ at' = Walking /\ held' = None /\ lead' = 0
        /\ state' = Collect(state, bucket, None)
    BY <1>5 DEF Look
  <2>2. /\ state' \in [Timers -> {"idle", "running", "due"}]
        /\ \A l \in Keys : bucket[l] # None => state'[bucket[l]] = state[bucket[l]]
    BY <2>1 DEF Collect, InUse, TypeOK
  <2>4. PollerIsAt'
    BY <1>1, <2>1 DEF PollerIsAt, Walking
  <2>5. Stored'
    BY <1>1 DEF Stored, ToStart, Starting, Killing, Kills, Key
  <2>6. Fires'
    <3>1. ASSUME NEW l \in Keys, bucket[l] # None, state'[bucket[l]] = "idle"
          PROVE  Kills("delete", phase) /\ l = Key(Before(phase))
      BY <1>1, <2>2, <3>1 DEF Fires
    <3> QED
      BY <1>1, <2>1, <3>1 DEF Fires, Kills, Key
  <2> QED
    BY <1>3, <1>2, <2>4, <2>5, <2>6
<1> QED
  BY <1>3, <1>4, <1>5

(* The poller calls the script with a timer.                               *)
LEMMA OnTimerStep ==
  ASSUME CycleDiffers, Inv, OnTimer, ~outrun'
  PROVE  Order'
<1> USE DEF Inv, Order
<1>1. /\ at.do = "call" /\ ~Fired /\ cmds["poller"] = <<>> /\ at.key \in Keys
      /\ UNCHANGED <<bucket, state, todo, held>> /\ at # Walking
      /\ at' = [do |-> "apply", key |-> at.key] /\ phase \in DOMAIN Cycle
  BY DEF OnTimer, PollerIsAt, Fired, TypeOK, Walking
<1>2. at'.do = "apply" /\ at'.key = at.key /\ at' # Walking
  BY <1>1 DEF Walking
<1>3. ~robbed'
  BY DEF OnTimer, Advance
<1>4. CASE Key(phase) = at.key
  <2>1. /\ phase' = Next1(phase) /\ lead' = (IF lead = 0 THEN 1 ELSE 2) /\ lead' # 2
        /\ cmds' = [cmds EXCEPT !["poller"] = Start(Next1(phase))]
    BY <1>1, <1>4 DEF OnTimer, Advance
  <2>2. /\ Before(phase') = phase /\ phase' \in DOMAIN Cycle
        /\ Key(phase) \in Keys /\ Key(phase) # NoKey /\ Key(phase') # Key(phase)
        /\ Key(phase') # NoKey => Key(phase') \in Keys
        /\ Key(phase) # Key(Before(phase)) /\ Key(phase) # Key(Before(Before(phase)))
    BY <1>1, <1>4, <2>1, CycleFacts, PhaseFacts DEF Keys
  <2>3. lead = 0 /\ lead' = 1 /\ cmds["room"] = <<>>
    BY <1>1, <1>4, <2>1, <2>2 DEF PollerIsAt
  <2>4. cmds'["room"] = <<>> /\ cmds'["poller"] = Start(phase')
    BY <2>1, <2>3 DEF TypeOK, Workers
  <2>5. Fired'
    BY <1>1, <1>4, <2>2, <2>3, <2>4 DEF Fired, Key
  <2>6. /\ Key(phase') = NoKey => cmds'["poller"] = <<>>
        /\ Key(phase') # NoKey => Starting("poller")'
    BY <2>4 DEF Start, Starting, Cmd, Key
  <2>7. RoomIsAt'
    BY <2>4 DEF RoomIsAt
  <2>8. PollerIsAt'
    BY <1>1, <1>2, <1>4, <2>2, <2>3, <2>5, <2>6 DEF PollerIsAt, Key
  <2>10. ~Killing /\ ~ToStart
    BY <1>1, <2>3, KillsFacts DEF Killing, Kills, ToStart, Starting
  <2>11. \A k \in Keys : bucket[k] # None => k = Key(phase)
    BY <1>1, <2>10 DEF Stored
  <2>12. Stored'
    <3>1. Key(phase') # NoKey => bucket[Key(phase')] = None /\ ToStart'
      BY <2>2, <2>6, <2>11 DEF ToStart
    <3> QED
      BY <1>1, <2>2, <2>5, <2>11, <3>1 DEF Stored, Key
  <2>13. Fires'
    BY <1>1, <1>2, <2>10 DEF Fires, Killing
  <2> QED
    BY <1>3, <2>7, <2>8, <2>12, <2>13
<1>5. CASE Key(phase) # at.key
  <2>1. UNCHANGED <<phase, lead, cmds>>
    BY <1>5 DEF OnTimer
  <2>3. RoomIsAt'
    BY <2>1 DEF RoomIsAt, Starting, Killing, Kills
  <2>4. PollerIsAt'
    BY <1>1, <1>2, <1>5, <2>1 DEF PollerIsAt, Key
  <2>5. Stored'
    BY <1>1, <2>1 DEF Stored, ToStart, Starting, Killing, Kills, Key
  <2>6. Fires'
    BY <1>1, <1>2, <2>1 DEF Fires, Kills, Key
  <2> QED
    BY <1>3, <2>3, <2>4, <2>5, <2>6
<1> QED
  BY <1>3, <1>4, <1>5

(* The poller removes the key of the timer it called the script with; by   *)
(* now this is never the key of the phase.                                 *)
LEMMA RemoveStep ==
  ASSUME CycleDiffers, Inv, Remove
  PROVE  Order'
<1> USE DEF Inv, Order
<1>1. /\ at.do = "apply" /\ cmds["poller"] = <<>> /\ at.key \in Keys /\ phase \in DOMAIN Cycle
      /\ held' = None /\ at' = Walking /\ lead' = 0
      /\ UNCHANGED <<phase, todo, cmds>> /\ Delete(at.key)
  BY DEF Remove, PollerIsAt, TypeOK
<1>2. Key(phase) # at.key
  BY <1>1, PhaseFacts DEF PollerIsAt, Keys
<1>3. Fired => at.key = Key(Before(phase))
  BY DEF Fired
<1> DEFINE k == at.key
<1>4. /\ bucket' \in [Keys -> Timers \cup {None}] /\ bucket'[k] = None
      /\ \A l \in Keys : l # k => bucket'[l] = bucket[l]
      /\ state' \in [Timers -> {"idle", "running", "due"}]
      /\ \A l \in Keys : l # k /\ bucket[l] # None => state'[bucket[l]] = state[bucket[l]]
  BY <1>1, DeleteFacts
<1>6. RoomIsAt'
  BY <1>1 DEF RoomIsAt, Starting, Killing, Kills
<1>7. PollerIsAt'
  BY <1>1 DEF PollerIsAt, Walking
<1>8. Stored'
  <2>1. Key(phase) # NoKey => Key(phase) \in Keys
    BY <1>1, CycleFacts
  <2>2. Key(phase) # NoKey => (bucket'[Key(phase)] = None <=> ToStart)
    BY <1>2, <1>4, <2>1 DEF Stored
  <2>3. ToStart' = ToStart /\ Killing' = Killing
    BY <1>1 DEF ToStart, Starting, Killing, Kills, Key
  <2>4. ASSUME NEW l \in Keys, bucket'[l] # None
        PROVE  l = Key(phase) \/ (l = Key(Before(phase)) /\ Killing)
    BY <1>3, <1>4, <2>4 DEF Stored
  <2> QED
    BY <1>1, <2>2, <2>3, <2>4 DEF Stored, Key
<1>9. Fires'
  <2>1. \A l, m \in Keys : bucket'[l] = bucket'[m] /\ bucket'[l] # None => l = m
    BY <1>4 DEF Fires
  <2>2. ASSUME NEW l \in Keys, bucket'[l] # None, state'[bucket'[l]] = "idle"
        PROVE  Kills("delete", phase) /\ l = Key(Before(phase))
    <3>1. l # k /\ bucket[l] # None /\ state[bucket[l]] = "idle"
      BY <1>4, <2>2
    <3> QED
      BY <3>1 DEF Fires
  <2> QED
    BY <1>1, <2>1, <2>2 DEF Fires, Kills, Key
<1>10. ~robbed'
  BY <1>1, <1>2 DEF Delete, Robs
<1> QED
  BY <1>6, <1>7, <1>8, <1>9, <1>10

-----------------------------------------------------------------------------
(* No timer comes under two keys, and the poller's is of its key.          *)
LEMMA OnePlaceStep ==
  ASSUME TypeOK, OnePlace, [Next]_vars
  PROVE  OnePlace'
<1>1. ASSUME NEW w \in Workers, Add(w) PROVE OnePlace'
  <2>1. UNCHANGED <<held, at>>
    BY <1>1 DEF Add
  <2> QED
    BY <1>1, <2>1, AddFacts DEF OnePlace
<1>2. ASSUME NEW w \in Workers, KillDelete(w) PROVE OnePlace'
  <2>1. UNCHANGED <<held, at>> /\ Delete(Head(cmds[w]).key) /\ Head(cmds[w]).key \in Keys
    BY <1>2, CmdTypes DEF KillDelete
  <2> QED
    BY <2>1, DeleteFacts DEF OnePlace
<1>3. CASE Remove
  <2>1. held' = None /\ Delete(at.key)
    BY <1>3 DEF Remove
  <2>2. \A l \in Keys : bucket'[l] # None => bucket'[l] = bucket[l]
    BY <2>1, DeleteFacts DEF Delete, TypeOK
  <2> QED
    BY <2>1, <2>2 DEF OnePlace
<1>4. ASSUME NEW k \in Keys, Visit(k) PROVE OnePlace'
  BY <1>4 DEF Visit, OnePlace
<1>5. CASE Look
  <2>1. bucket' = bucket /\ (held' = None \/ (held' = held /\ at'.key = at.key))
    BY <1>5 DEF Look, TypeOK
  <2> QED
    BY <2>1 DEF OnePlace
<1>6. CASE OnTimer
  <2>1. bucket' = bucket /\ held' = held /\ at'.key = at.key
    BY <1>6 DEF OnTimer, TypeOK
  <2> QED
    BY <2>1 DEF OnePlace
<1>7. CASE UNCHANGED <<bucket, held, at>>
  BY <1>7 DEF OnePlace
<1> QED
  BY <1>1, <1>2, <1>3, <1>4, <1>5, <1>6, <1>7
     DEF Next, Poller, Apply, Workers, Packet, KillStop, StartWalk, Expire, vars

(* A start that is not the first command is not lost with it.              *)
LEMMA PendingTail ==
  ASSUME TypeOK, NEW w \in Workers, cmds[w] # <<>>, Head(cmds[w]) # Cmd("start", Key(phase)),
         phase' = phase, Pending,
         \/ cmds' = [cmds EXCEPT ![w] = Tail(cmds[w])]
         \/ cmds' = [cmds EXCEPT ![w] = [cmds[w] EXCEPT ![1].op = "delete"]]
  PROVE  Pending'
<1>0. PICK v \in Workers : \E n \in DOMAIN cmds[v] : cmds[v][n] = Cmd("start", Key(phase))
  BY DEF Pending
<1>1. PICK n \in DOMAIN cmds[v] : cmds[v][n] = Cmd("start", Key(phase))
  BY <1>0
<1>2. /\ cmds[w] \in Seq(Commands) /\ Head(cmds[w]) = cmds[w][1]
      /\ Len(cmds[w]) \in Nat /\ DOMAIN cmds[w] = 1..Len(cmds[w])
  BY DEF TypeOK
<1>3. CASE v # w
  <2>1. cmds'[v] = cmds[v]
    BY <1>3 DEF TypeOK
  <2> QED
    BY <1>1, <2>1 DEF Pending, Key
<1>4. CASE v = w
  <2>1. n # 1 /\ n \in 2..Len(cmds[w])
    BY <1>1, <1>2, <1>4
  <2>2. CASE cmds' = [cmds EXCEPT ![w] = Tail(cmds[w])]
    <3>1. cmds'[w] = Tail(cmds[w])
      BY <2>2 DEF TypeOK
    <3>2. n - 1 \in DOMAIN Tail(cmds[w]) /\ Tail(cmds[w])[n - 1] = cmds[w][n]
      BY <1>2, <2>1
    <3> QED
      BY <1>1, <1>4, <3>1, <3>2 DEF Pending, Key
  <2>3. CASE cmds' = [cmds EXCEPT ![w] = [cmds[w] EXCEPT ![1].op = "delete"]]
    <3>1. cmds'[w] = [cmds[w] EXCEPT ![1].op = "delete"]
      BY <2>3 DEF TypeOK
    <3>2. n \in DOMAIN cmds'[w] /\ cmds'[w][n] = cmds[w][n]
      BY <1>2, <2>1, <3>1
    <3> QED
      BY <1>1, <1>4, <3>2 DEF Pending, Key
  <2> QED
    BY <2>2, <2>3
<1> QED
  BY <1>3, <1>4

(* A timer that stays under its key, and does not stop, stays usable.      *)
LEMMA UsableStays ==
  ASSUME Usable, phase' = phase, bucket'[Key(phase)] = bucket[Key(phase)],
         state[bucket[Key(phase)]] # "idle" => state'[bucket[Key(phase)]] # "idle",
         at.do = "call" => UNCHANGED <<at, held>>
  PROVE  Usable'
BY DEF Usable, Key

(* The script's new phase has its timer still to be started.               *)
LEMMA StartIsPending ==
  ASSUME TypeOK, NEW w \in Workers, Advance, Key(phase') # NoKey,
         \/ cmds' = [cmds EXCEPT ![w] = Start(Next1(phase))]
         \/ cmds' = [cmds EXCEPT ![w] = Kill(phase) \o Start(Next1(phase))]
  PROVE  Pending'
<1>1. phase' = Next1(phase) /\ Start(phase') = <<Cmd("start", Key(phase'))>>
  BY AdvanceFacts DEF Start, Cmd
<1>2. \E n \in DOMAIN cmds'[w] : cmds'[w][n] = Cmd("start", Key(phase'))
  <2>1. CASE cmds' = [cmds EXCEPT ![w] = Start(Next1(phase))]
    <3>1. cmds'[w] = <<Cmd("start", Key(phase'))>>
      BY <1>1, <2>1 DEF TypeOK
    <3>2. 1 \in DOMAIN cmds'[w] /\ cmds'[w][1] = Cmd("start", Key(phase'))
      BY <3>1
    <3> QED
      BY <3>2
  <2>2. CASE cmds' = [cmds EXCEPT ![w] = Kill(phase) \o Start(Next1(phase))]
    <3>1. cmds'[w] = Kill(phase) \o Start(phase')
      BY <1>1, <2>2 DEF TypeOK
    <3>2. CASE Key(phase) = NoKey
      <4>1. cmds'[w] = <<Cmd("start", Key(phase'))>>
        BY <1>1, <3>1, <3>2, ShortSeqs DEF Kill
      <4>2. 1 \in DOMAIN cmds'[w] /\ cmds'[w][1] = Cmd("start", Key(phase'))
        BY <4>1
      <4> QED
        BY <4>2
    <3>3. CASE Key(phase) # NoKey
      <4>1. cmds'[w] = <<Cmd("kill", Key(phase)), Cmd("start", Key(phase'))>>
        BY <1>1, <3>1, <3>3, ShortSeqs DEF Kill, Cmd
      <4>2. 2 \in DOMAIN cmds'[w] /\ cmds'[w][2] = Cmd("start", Key(phase'))
        BY <4>1
      <4> QED
        BY <4>2
    <3> QED
      BY <3>2, <3>3
  <2> QED
    BY <2>1, <2>2
<1> QED
  BY <1>2 DEF Pending, Key

(* Whatever the goroutines do, the timer of the phase stays able to fire,  *)
(* or it was taken away.                                                   *)
LEMMA KeptStep ==
  ASSUME TypeOK, OnePlace, Kept, [Next]_vars
  PROVE  Kept'
<1> SUFFICES ASSUME Key(phase') # NoKey, ~robbed' PROVE Pending' \/ Usable'
  BY DEF Kept, Key
<1> DEFINE k == Key(phase)
<1>1. CASE Packet
  BY <1>1, StartIsPending DEF Packet, Workers
<1>2. CASE OnTimer /\ k = at.key
  BY <1>2, StartIsPending DEF OnTimer, Workers
<1>3. ASSUME phase' = phase, ~robbed
      PROVE  k \in Keys /\ (Pending \/ Usable)
  BY <1>3, CycleFacts DEF Kept, Key, TypeOK
<1>4. CASE OnTimer /\ k # at.key
  <2>1. UNCHANGED <<phase, history, cmds, bucket, state>>
    BY <1>4 DEF OnTimer
  <2> QED
    BY <1>3, <1>4, <2>1 DEF Pending, Usable, Key
<1>5. ASSUME NEW w \in Workers, Add(w) PROVE Pending' \/ Usable'
  <2> DEFINE h == Head(cmds[w]).key
  <2>1. /\ phase' = phase /\ cmds[w] # <<>> /\ cmds' = [cmds EXCEPT ![w] = Tail(cmds[w])]
        /\ UNCHANGED <<held, at>> /\ robbed' = (robbed /\ h # k)
    BY <1>5 DEF Add
  <2>2. CASE h = k
    <3>1. bucket'[k] = Fresh /\ Fresh # None /\ state'[Fresh] = "running"
      BY <1>5, <2>2, AddFacts
    <3> QED
      BY <2>1, <3>1 DEF Usable, Key
  <2>3. CASE h # k
    <3>1. k \in Keys /\ (Pending \/ Usable)
      BY <1>3, <2>1, <2>3
    <3>2. Head(cmds[w]) # Cmd("start", k)
      BY <2>3 DEF Cmd
    <3>3. Pending => Pending'
      BY <2>1, <3>2, PendingTail
    <3>4. Usable => Usable'
      <4>1. bucket[k] # None => bucket'[k] = bucket[k] /\ state'[bucket[k]] = state[bucket[k]]
        BY <1>5, <2>3, <3>1, AddFacts
      <4> QED
        BY <2>1, <4>1, UsableStays DEF Usable
    <3> QED
      BY <3>1, <3>3, <3>4
  <2> QED
    BY <2>2, <2>3
<1>6. ASSUME NEW w \in Workers, KillStop(w) PROVE Pending' \/ Usable'
  <2> DEFINE h == Head(cmds[w]).key
  <2>1. /\ phase' = phase /\ cmds[w] # <<>> /\ Head(cmds[w]).op = "kill"
        /\ UNCHANGED <<bucket, held, at>> /\ robbed' = (robbed \/ Robs(h)) /\ h \in Keys
    BY <1>6, CmdTypes DEF KillStop
  <2>2. /\ \/ cmds' = [cmds EXCEPT ![w] = Tail(cmds[w])]
           \/ cmds' = [cmds EXCEPT ![w] = [cmds[w] EXCEPT ![1].op = "delete"]]
        /\ bucket[h] = None => state' = state
        /\ \A t \in Timers : t # bucket[h] => state'[t] = state[t]
    BY <1>6 DEF KillStop, TypeOK
  <2>3. k \in Keys /\ (Pending \/ Usable) /\ ~robbed
    BY <1>3, <2>1
  <2>4. Head(cmds[w]) # Cmd("start", k)
    BY <2>1 DEF Cmd
  <2>5. Pending => Pending'
    BY <2>1, <2>2, <2>4, PendingTail
  <2>6. Usable => Usable'
    <3>1. bucket[k] # None => bucket[h] # bucket[k]
      BY <2>1, <2>3 DEF Robs, OnePlace
    <3>2. bucket[k] # None => state'[bucket[k]] = state[bucket[k]]
      BY <2>2, <2>3, <3>1 DEF TypeOK
    <3> QED
      BY <2>1, <3>2, UsableStays DEF Usable
  <2> QED
    BY <2>3, <2>5, <2>6
<1>7. ASSUME NEW h, Delete(h), held' = held \/ held' = None, phase' = phase,
             Pending => Pending', at.do = "call" => UNCHANGED <<at, held>>
      PROVE  Pending' \/ Usable'
  <2>1. robbed' = (robbed \/ Robs(h))
    BY <1>7 DEF Delete
  <2>2. k \in Keys /\ (Pending \/ Usable)
    BY <1>3, <1>7, <2>1
  <2>3. bucket[k] # None => bucket'[k] = bucket[k] /\ state'[bucket[k]] = state[bucket[k]]
    <3>1. bucket[k] # None => h # k
      BY <2>1 DEF Robs
    <3> QED
      BY <1>7, <2>2, <3>1, DeleteFacts
  <2> QED
    BY <1>7, <2>2, <2>3, UsableStays DEF Usable
<1>8. ASSUME NEW w \in Workers, KillDelete(w) PROVE Pending' \/ Usable'
  <2>1. /\ phase' = phase /\ UNCHANGED <<held, at>> /\ Delete(Head(cmds[w]).key)
        /\ cmds[w] # <<>> /\ cmds' = [cmds EXCEPT ![w] = Tail(cmds[w])]
        /\ Head(cmds[w]).op = "delete"
    BY <1>8 DEF KillDelete
  <2>2. Head(cmds[w]) # Cmd("start", Key(phase))
    BY <2>1 DEF Cmd
  <2>3. Pending => Pending'
    BY <2>1, <2>2, PendingTail
  <2> QED
    BY <1>7, <2>1, <2>3
<1>9. CASE Remove
  <2>1. /\ phase' = phase /\ held' = None /\ Delete(at.key) /\ cmds' = cmds
        /\ at.do = "apply"
    BY <1>9 DEF Remove
  <2>2. Pending => Pending'
    BY <2>1 DEF Pending, Key
  <2> QED
    BY <1>7, <2>1, <2>2
<1>10. CASE Look
  <2>1. /\ UNCHANGED <<phase, bucket, cmds, robbed>> /\ at.do = "look"
    BY <1>10 DEF Look
  <2>2. k \in Keys /\ (Pending \/ Usable)
    BY <1>3, <2>1
  <2>3. Pending => Pending'
    BY <2>1 DEF Pending, Key
  <2>4. ASSUME bucket[k] # None, state[bucket[k]] # "idle" PROVE Usable'
    <3>1. CASE state[held] = "due" /\ bucket[k] = held
      <4>1. at' = [at EXCEPT !.do = "call"] /\ held' = held /\ at.key = k
        BY <1>10, <2>2, <2>4, <3>1 DEF Look, OnePlace
      <4>2. at'.do = "call" /\ at'.key = k
        BY <4>1 DEF TypeOK
      <4> QED
        BY <2>1, <2>4, <3>1, <4>1, <4>2 DEF Usable, Key
    <3>2. CASE state[held] = "due" /\ bucket[k] # held
      <4>1. state'[bucket[k]] = state[bucket[k]]
        BY <1>10, <2>2, <2>4, <3>2 DEF Look, TypeOK
      <4> QED
        BY <2>1, <2>4, <4>1 DEF Usable, Key
    <3>3. CASE state[held] # "due"
      <4>1. state' = Collect(state, bucket, None)
        BY <1>10, <3>3 DEF Look
      <4>2. bucket[k] \in Timers /\ bucket[k] \in InUse(bucket, None)
        BY <2>2, <2>4 DEF TypeOK, InUse
      <4>3. state'[bucket[k]] = state[bucket[k]]
        BY <4>1, <4>2 DEF Collect
      <4> QED
        BY <2>1, <2>4, <4>3 DEF Usable, Key
    <3> QED
      BY <3>1, <3>2, <3>3
  <2> QED
    BY <2>1, <2>2, <2>3, <2>4 DEF Usable
<1>11. ASSUME NEW t \in Timers, Expire(t) PROVE Pending' \/ Usable'
  <2>1. /\ UNCHANGED <<phase, bucket, held, at, cmds, robbed>>
        /\ \A u \in Timers : state[u] # "idle" => state'[u] # "idle"
    BY <1>11 DEF Expire, TypeOK
  <2>2. k \in Keys /\ (Pending \/ Usable)
    BY <1>3, <2>1
  <2>3. Pending => Pending'
    BY <2>1 DEF Pending, Key
  <2>4. Usable => Usable'
    BY <2>1, <2>2, UsableStays DEF Usable, TypeOK
  <2> QED
    BY <2>2, <2>3, <2>4
<1>12. ASSUME UNCHANGED <<phase, bucket, state, cmds, robbed>>,
              at.do = "call" => UNCHANGED <<at, held>>
       PROVE  Pending' \/ Usable'
  BY <1>3, <1>12, UsableStays DEF Pending, Key
<1>13. ASSUME NEW j \in Keys, Visit(j) PROVE Pending' \/ Usable'
  <2>1. UNCHANGED <<phase, bucket, state, cmds, robbed>> /\ at.do # "call"
    BY <1>13 DEF Visit, Walking
  <2> QED
    BY <1>12, <2>1
<1>14. CASE StartWalk
  BY <1>12, <1>14 DEF StartWalk
<1>15. CASE UNCHANGED vars
  BY <1>12, <1>15 DEF vars
<1> QED
  BY <1>1, <1>2, <1>4, <1>5, <1>6, <1>8, <1>9, <1>10, <1>11, <1>13, <1>14, <1>15
     DEF Next, Poller, Apply, Workers

-----------------------------------------------------------------------------
(* The program starts in a state of the type, with the first start to do.  *)
LEMMA TypeInit ==
  ASSUME Init
  PROVE  TypeOK /\ (Key(phase) # NoKey => Pending)
<1>1. phase = 1 /\ 1 \in DOMAIN Cycle /\ (Key(1) # NoKey => Key(1) \in Keys)
  BY CycleFacts DEF Init
<1>2. cmds["room"] = Start(1)
  BY DEF Init, Workers
<1>3. cmds \in [Workers -> Seq(Commands)]
  <2>1. Key(1) # NoKey => [op |-> "start", key |-> Key(1)] \in Commands
    BY <1>1 DEF Commands
  <2>2. Start(1) \in Seq(Commands)
    BY <2>1, ShortSeqs DEF Start
  <2> QED
    BY <2>2, ShortSeqs DEF Init
<1>4. ASSUME Key(phase) # NoKey PROVE Pending
  <2>1. cmds["room"] = <<Cmd("start", Key(phase))>>
    BY <1>1, <1>2, <1>4 DEF Start, Cmd
  <2>2. 1 \in DOMAIN cmds["room"] /\ cmds["room"][1] = Cmd("start", Key(phase))
    BY <2>1
  <2> QED
    BY <2>2 DEF Pending, Workers
<1>5. TypeOK
  <2>1. at = Walking /\ held = None /\ todo = {} /\ bucket = [k \in Keys |-> None]
    BY DEF Init
  <2>2. /\ at \in [do : {"walk", "look", "call", "apply"}, key : Keys \cup {NoKey}]
        /\ bucket \in [Keys -> Timers \cup {None}]
    BY <2>1 DEF Walking
  <2>3. state \in [Timers -> {"idle", "running", "due"}]
    BY DEF Init
  <2>4. lead \in 0..2
    BY DEF Init
  <2>5. outrun \in BOOLEAN /\ robbed \in BOOLEAN
    BY Zenon DEF Init
  <2> QED
    BY <1>1, <1>3, <2>1, <2>2, <2>3, <2>4, <2>5 DEF TypeOK
<1> QED
  BY <1>4, <1>5

(* At the start the first phase's timer is still to be started.            *)
LEMMA OrderInit ==
  ASSUME CycleDiffers, Init
  PROVE  Order
<1>1. /\ phase = 1 /\ phase \in DOMAIN Cycle
      /\ Key(1) # NoKey => Key(1) \in Keys
      /\ cmds = [w \in Workers |-> IF w = "room" THEN Start(1) ELSE <<>>]
      /\ at = Walking /\ lead = 0 /\ held = None
      /\ bucket = [k \in Keys |-> None] /\ state = [t \in Timers |-> "idle"] /\ todo = {}
  BY CycleFacts DEF Init
<1>2. cmds["room"] = Start(1) /\ cmds["poller"] = <<>>
  BY <1>1 DEF Workers
<1>3. /\ Key(1) = NoKey => cmds["room"] = <<>>
      /\ Key(1) # NoKey => Starting("room")
  BY <1>1, <1>2 DEF Start, Starting, Cmd
<1>4. RoomIsAt /\ PollerIsAt
  BY <1>1, <1>2, <1>3 DEF RoomIsAt, PollerIsAt, Walking
<1>6. Stored /\ Fires /\ ~robbed
  BY <1>1, <1>3 DEF Init, Stored, Fires, ToStart
<1> QED
  BY <1>4, <1>6 DEF Order

(* While the poller is not outrun, every step of either goroutine, and of  *)
(* the runtime, keeps the order between them.                              *)
LEMMA OrderStep ==
  ASSUME CycleDiffers, Inv, [Next]_vars, ~outrun'
  PROVE  Order'
<1>1. CASE Packet
  BY <1>1, PacketStep
<1>2. ASSUME NEW w \in Workers, Apply(w)
      PROVE  Order'
  BY <1>2, AddStep, KillStopStep, KillDeleteStep DEF Apply
<1>3. CASE StartWalk
  BY <1>3, StartWalkStep
<1>4. ASSUME NEW k \in Keys, Visit(k)
      PROVE  Order'
  BY <1>4, VisitStep
<1>5. CASE Look
  BY <1>5, LookStep
<1>6. CASE OnTimer
  BY <1>6, OnTimerStep
<1>7. CASE Remove
  BY <1>7, RemoveStep
<1>8. ASSUME NEW t \in Timers, Expire(t)
      PROVE  Order'
  BY <1>8, ExpireStep
<1>9. CASE UNCHANGED vars
  <2>1. RoomIsAt' /\ PollerIsAt'
    BY <1>9 DEF Inv, Order, vars, RoomIsAt, PollerIsAt, Starting, Killing, Kills, Fired
  <2>2. Stored' /\ Fires' /\ ~robbed'
    BY <1>9 DEF Inv, Order, vars, Stored, Fires, ToStart, Starting, Killing, Kills, Fired
  <2> QED
    BY <2>1, <2>2 DEF Order
<1> QED
  BY <1>1, <1>2, <1>3, <1>4, <1>5, <1>6, <1>7, <1>8, <1>9 DEF Next, Poller, Workers

(* Once outrun, always outrun.                                             *)
LEMMA OutrunStays ==
  ASSUME TypeOK, [Next]_vars, outrun
  PROVE  outrun'
<1>1. outrun = TRUE
  BY DEF TypeOK
<1>2. Advance => outrun'
  BY <1>1, Zenon DEF Advance
<1> QED
  BY <1>1, <1>2 DEF Next, Poller, Apply, Packet, Add, KillStop, KillDelete, StartWalk, Visit,
     Look, OnTimer, Remove, Expire, vars

(* The timer of the phase is kept while nobody takes it away: the part of  *)
(* the invariant that needs nothing of the cycle.                          *)
LEMMA KeptAlways == Spec => [](TypeOK /\ OnePlace /\ Kept)
<1>1. Init => TypeOK /\ OnePlace /\ Kept
  BY TypeInit DEF OnePlace, Kept, Init
<1>2. TypeOK /\ OnePlace /\ Kept /\ [Next]_vars => TypeOK' /\ OnePlace' /\ Kept'
  BY TypeStep, OnePlaceStep, KeptStep
<1> QED
  BY <1>1, <1>2, PTL DEF Spec

(* With the commands applied and the poller on its walk, the timer of the  *)
(* phase is there and can fire, or was taken away.                         *)
LEMMA ArmedByInv ==
  ASSUME Kept
  PROVE  PhaseTimerArmed
<1> SUFFICES ASSUME \A w \in Workers : cmds[w] = <<>>, at.do = "walk", Key(phase) # NoKey,
                    ~robbed
             PROVE  bucket[Key(phase)] # None /\ state[bucket[Key(phase)]] # "idle"
  BY DEF PhaseTimerArmed
<1>1. ~Pending
  BY DEF Pending
<1> QED
  BY <1>1 DEF Kept, Usable

(* In a round of three phases or more whose keys differ, however slow the  *)
(* poller is, the bucket is sound, and the players' silence cannot stop    *)
(* the round unless two phases passed while the poller was busy with one   *)
(* timer: nothing else takes the timer of a phase away (timer.go:63,       *)
(* cmd.go:192).                                                            *)
THEOREM RoundKeepsItsTimer ==
  ASSUME CycleDiffers
  PROVE  Spec => []BucketInv
<1>1. Init => BucketIInv
  BY TypeInit, OrderInit DEF BucketIInv, OnePlace, Kept, Init
<1>2. BucketIInv /\ [Next]_vars => BucketIInv'
  <2>1. ASSUME BucketIInv, [Next]_vars PROVE BucketIInv'
    <3>1. TypeOK' /\ OnePlace' /\ Kept'
      BY <2>1, TypeStep, OnePlaceStep, KeptStep DEF BucketIInv
    <3>2. outrun' \/ Order'
      BY <2>1, OutrunStays, OrderStep DEF BucketIInv, Inv
    <3> QED
      BY <3>1, <3>2 DEF BucketIInv
  <2> QED
    BY <2>1
<1>3. BucketIInv => BucketInv
  BY ArmedByInv DEF BucketIInv, BucketInv, Order, RobbedByTheLate
<1> QED
  BY <1>1, <1>2, <1>3, PTL DEF Spec
=============================================================================
