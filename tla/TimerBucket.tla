----------------------------- MODULE TimerBucket -----------------------------
(***************************************************************************)
(* The bucket of game timers (bean/timer.go) and the commands start_timer  *)
(* and kill_timer that change it (bean/cmd.go).  Two goroutines apply      *)
(* commands, each those that its own call into the virtual machine has     *)
(* returned: the goroutine of the room, for packets, and the poller, for   *)
(* timers.  The poller walks over the bucket, calls on_timer for a timer   *)
(* that is due, applies the commands of the call and only then removes the *)
(* timer's key.                                                            *)
(*                                                                         *)
(* The script is reduced to the phases of a round: each has a timer, under *)
(* a key, or none (the play).  A packet that ends a phase kills its timer  *)
(* and starts the next one; so does on_timer, when its phase is still on,  *)
(* without the kill.  After the last phase comes the first again: another  *)
(* deal of the same room uses the same keys.                               *)
(***************************************************************************)
EXTENDS Integers, FiniteSets, Sequences

CONSTANTS Cycle,   (* the keys of the phases in turn, NoKey for no timer     *)
          NoKey

ASSUME CycleAssumption == Cycle # <<>> /\ Cycle \in Seq({Cycle[i] : i \in DOMAIN Cycle})

Keys   == {Cycle[i] : i \in DOMAIN Cycle} \ {NoKey}
Timers == 1..(Cardinality(Keys) + 2)   (* GameTimer objects, used again *)
None   == 0
Workers == {"room", "poller"}

VARIABLES
  phase,  (* the script: position in Cycle                                  *)
  bucket, (* key -> the timer stored under it, or None                      *)
  state,  (* timer -> "idle", "running" or "due": fired, and not yet read   *)
  todo,   (* keys that are still ahead in the poller's walk                 *)
  held,   (* the timer in the poller's hands, or None                       *)
  at,     (* the poller: "walk", "look", "call", "apply" and the key        *)
  cmds,   (* worker -> commands it has still to apply                       *)
  lead,   (* HISTORY: phases passed while the poller is busy, 2 for more    *)
  outrun, (* HISTORY: have two phases ever passed so                        *)
  robbed  (* HISTORY: was the timer of the phase stopped or its key removed *)

history == <<lead, outrun, robbed>>
vars == <<phase, bucket, state, todo, held, at, cmds, history>>

Next1(i) == IF i = Len(Cycle) THEN 1 ELSE i + 1

(* Room, id and tag make the key.  MUTANT: the tag is left out, so that    *)
(* the seats of the auction share one.                                     *)
KeyUntagged(i) == IF Cycle[i] = NoKey THEN NoKey ELSE Cycle[1]
Key(i)         == Cycle[i]

Start(i) == IF Key(i) = NoKey THEN <<>> ELSE <<[op |-> "start", key |-> Key(i)]>>
Kill(i)  == IF Key(i) = NoKey THEN <<>> ELSE <<[op |-> "kill", key |-> Key(i)]>>

InUse(b, h) == {b[k] : k \in Keys} \cup {h}

(* A timer object that nothing points to any more cannot be seen to fire.  *)
Collect(s, b, h) == [t \in Timers |-> IF t \in InUse(b, h) THEN s[t] ELSE "idle"]

(* The script goes on to its next phase.  A phase counts as passed for the *)
(* poller from its look at a timer on.                                     *)
Advance ==
  /\ phase' = Next1(phase)
  /\ lead' = IF at.do = "walk" THEN 0 ELSE IF lead = 0 THEN 1 ELSE 2
  /\ outrun' = (outrun \/ lead' = 2)
  /\ robbed' = FALSE

(* A timer that the bucket has under the key of the phase is taken away.   *)
Robs(k) == k = Key(phase) /\ bucket[k] # None

-----------------------------------------------------------------------------
(* The runtime: a running timer puts its value into its channel.           *)
Expire(t) ==
  /\ state[t] = "running"
  /\ state' = [state EXCEPT ![t] = "due"]
  /\ UNCHANGED <<phase, bucket, todo, held, at, cmds, history>>

(* The room's goroutine calls the script with a packet that ends a phase.  *)
Packet ==
  /\ cmds["room"] = <<>>
  /\ Advance
  /\ cmds' = [cmds EXCEPT !["room"] = Kill(phase) \o Start(Next1(phase))]
  /\ UNCHANGED <<bucket, state, todo, held, at>>

-----------------------------------------------------------------------------
(* TimerBucket.Add, by doTimerCommand.                                     *)
Fresh == CHOOSE t \in Timers : t \notin InUse(bucket, held)

Add(w) ==
  LET k == Head(cmds[w]).key IN
  /\ cmds[w] # <<>> /\ Head(cmds[w]).op = "start"
  /\ bucket' = [bucket EXCEPT ![k] = Fresh]
  /\ state' = [Collect(state, bucket', held) EXCEPT ![Fresh] = "running"]
  /\ cmds' = [cmds EXCEPT ![w] = Tail(@)]
  /\ robbed' = (robbed /\ k # Key(phase))
  /\ UNCHANGED <<phase, todo, held, at, lead, outrun>>

(* TimerBucket.Kill: it loads the timer and stops it (a value that is in   *)
(* its channel stays there), then it deletes the key.                      *)
KillStop(w) ==
  LET k == Head(cmds[w]).key IN
  /\ cmds[w] # <<>> /\ Head(cmds[w]).op = "kill"
  /\ IF bucket[k] = None
     THEN cmds' = [cmds EXCEPT ![w] = Tail(@)] /\ UNCHANGED state
     ELSE /\ cmds' = [cmds EXCEPT ![w][1].op = "delete"]
          /\ state' = [state EXCEPT ![bucket[k]] = IF @ = "due" THEN @ ELSE "idle"]
  /\ robbed' = (robbed \/ Robs(k))
  /\ UNCHANGED <<phase, bucket, todo, held, at, lead, outrun>>

Delete(k) ==
  /\ bucket' = [bucket EXCEPT ![k] = None]
  /\ robbed' = (robbed \/ Robs(k))
  /\ state' = Collect(state, bucket', held')

KillDelete(w) ==
  /\ cmds[w] # <<>> /\ Head(cmds[w]).op = "delete"
  /\ held' = held
  /\ Delete(Head(cmds[w]).key)
  /\ cmds' = [cmds EXCEPT ![w] = Tail(@)]
  /\ UNCHANGED <<phase, todo, at, lead, outrun>>

Apply(w) == Add(w) \/ KillStop(w) \/ KillDelete(w)

-----------------------------------------------------------------------------
(* The poller: TimerBucket.Run.                                            *)

Walking == [do |-> "walk", key |-> NoKey]

(* Range: every key that is there from the start of a walk is visited.     *)
(* MUTANT: a key is left out.                                              *)
WalkSkipsOne ==
  /\ at = Walking /\ todo = {}
  /\ todo' = {k \in Keys : bucket[k] # None} \ {Cycle[1]}
  /\ todo' # {}
  /\ UNCHANGED <<phase, bucket, state, held, at, cmds, history>>
StartWalk ==
  /\ at = Walking /\ todo = {}
  /\ todo' = {k \in Keys : bucket[k] # None}
  /\ todo' # {}
  /\ UNCHANGED <<phase, bucket, state, held, at, cmds, history>>

Visit(k) ==
  /\ at = Walking /\ k \in todo
  /\ todo' = todo \ {k}
  /\ IF bucket[k] = None THEN UNCHANGED <<held, at>>
     ELSE held' = bucket[k] /\ at' = [do |-> "look", key |-> k]
  /\ UNCHANGED <<phase, bucket, state, cmds, history>>

(* The select on the timer's channel: go on, or take the value.            *)
Look ==
  /\ at.do = "look"
  /\ IF state[held] = "due"
     THEN /\ at' = [at EXCEPT !.do = "call"]
          /\ state' = [state EXCEPT ![held] = "idle"]
          /\ UNCHANGED <<held, lead>>
     ELSE /\ at' = Walking /\ held' = None /\ lead' = 0
          /\ state' = Collect(state, bucket, None)
  /\ UNCHANGED <<phase, bucket, todo, cmds, outrun, robbed>>

(* on_timer: a timer of another phase is ignored.                          *)
OnTimer ==
  /\ at.do = "call"
  /\ IF Key(phase) = at.key
     THEN /\ Advance
          /\ cmds' = [cmds EXCEPT !["poller"] = Start(Next1(phase))]
     ELSE UNCHANGED <<phase, history, cmds>>
  /\ at' = [at EXCEPT !.do = "apply"]
  /\ UNCHANGED <<bucket, state, todo, held>>

(* The key of the timer is removed when the commands have been applied.    *)
Remove ==
  /\ at.do = "apply" /\ cmds["poller"] = <<>>
  /\ held' = None /\ at' = Walking /\ lead' = 0
  /\ Delete(at.key)
  /\ UNCHANGED <<phase, todo, cmds, outrun>>

Init ==
  /\ phase = 1
  /\ bucket = [k \in Keys |-> None]
  /\ state = [t \in Timers |-> "idle"]
  /\ todo = {} /\ held = None /\ at = Walking
  /\ cmds = [w \in Workers |-> IF w = "room" THEN Start(1) ELSE <<>>]
  /\ lead = 0 /\ outrun = FALSE /\ robbed = FALSE

Poller == \/ StartWalk \/ Look \/ OnTimer \/ Remove \/ Apply("poller")
          \/ \E k \in Keys : Visit(k)

Next == \/ Packet \/ Apply("room") \/ Poller
        \/ \E t \in Timers : Expire(t)

Spec == Init /\ [][Next]_vars

(* Goroutines run and running timers fire; no packet ever has to come.     *)
FairSpec == /\ Spec
            /\ WF_vars(Poller) /\ WF_vars(Apply("room"))
            /\ \A t \in Timers : WF_vars(Expire(t))

-----------------------------------------------------------------------------
(* Properties.                                                             *)

Commands == [op : {"start", "kill", "delete"}, key : Keys]

(* Types; the poller holds a timer exactly while it is busy with one.      *)
TypeOK ==
  /\ phase \in DOMAIN Cycle
  /\ bucket \in [Keys -> Timers \cup {None}]
  /\ state \in [Timers -> {"idle", "running", "due"}]
  /\ todo \subseteq Keys
  /\ held \in Timers \cup {None} /\ (held = None <=> at = Walking)
  /\ at \in [do : {"walk", "look", "call", "apply"}, key : Keys \cup {NoKey}]
  /\ cmds \in [Workers -> Seq(Commands)]
  /\ lead \in 0..2 /\ outrun \in BOOLEAN /\ robbed \in BOOLEAN

(* When all commands are applied and the poller is not in the middle of a  *)
(* timer, the timer of the phase is in the bucket and can still fire, or   *)
(* it was taken away.                                                      *)
PhaseTimerArmed ==
  (\A w \in Workers : cmds[w] = <<>>) /\ at.do = "walk" /\ Key(phase) # NoKey =>
    robbed \/ LET t == bucket[Key(phase)] IN t # None /\ state[t] # "idle"

(* What takes it away is a poller that two phases have passed while it was *)
(* busy with one timer: it starts a timer after the kill meant for it, or  *)
(* removes the next timer of the key along with that it was busy with.     *)
RobbedByTheLate == robbed => outrun

(* The bucket is sound, and silence cannot stop the round, unless the      *)
(* poller has been outrun (Run of bean/timer.go).                          *)
BucketInv == TypeOK /\ PhaseTimerArmed /\ RobbedByTheLate

(* Every phase that has a timer ends, without a packet from anybody, or    *)
(* loses its timer as above.                                               *)
PhaseEnds ==
  \A i \in DOMAIN Cycle : Key(i) # NoKey => (phase = i ~> phase # i \/ robbed)
=============================================================================
