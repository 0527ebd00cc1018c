------------------------------ MODULE DbWriter ------------------------------
(***************************************************************************)
(* How the gold of a player gets into the database.  Rooms change the      *)
(* cached player and put it into WaitUpdates (bean/cmd.go); one goroutine, *)
(* the writer (db/write.go), writes what waits there every half hour and   *)
(* once more when the server stops, and saves single objects on request.   *)
(* Rooms also request the save of a player, without waiting for it; other  *)
(* goroutines save a game log and then its links to the players, and wait  *)
(* for each of the two.                                                    *)
(*                                                                         *)
(* A statement reads the object when it is built and changes the row when  *)
(* it is committed.  The values of a player are versions, each change      *)
(* makes the next one.  An object of WaitUpdates is the cached player      *)
(* itself, so what is written is what it is then.                          *)
(***************************************************************************)
EXTENDS Integers

CONSTANTS Players, Savers, Nobody,
          MaxVersion,  (* BOUND: changes of each player                      *)
          MaxFaults    (* BOUND: errors of the database and panics           *)

ASSUME NamesAssumption == Players \cap Savers = {} /\ Nobody \notin Players \cup Savers
ASSUME BoundsAssumption == MaxVersion \in [Players -> Nat] /\ MaxFaults \in Nat

VARIABLES
  cache,    (* per player: the version in memory                             *)
  db,       (* per player: the version in its row                            *)
  waiting,  (* keys of WaitUpdates                                           *)
  room,     (* per player, what the goroutine that runs a room's commands is *)
            (* doing with it: "idle", "changed" not stored yet, "stored"     *)
  saver,    (* per saver: <<what it does, with which of its objects>>        *)
  saved,    (* HISTORY: the objects <<saver, number>> in the database        *)
  writer,   (* "select"; "read" and "commit" of the statement for job;       *)
            (* "delete" of its key; "visit" the next key; "reply"; or its    *)
            (* end, "done" or, after a panic, "dead"                         *)
  job,
  snap,     (* the version the statement was built with                      *)
  walk,     (* is the job of a walk over WaitUpdates: "no", "timer", "final" *)
  left,     (* keys this walk has not visited                                *)
  must,     (* keys that were there when it began                            *)
  err,      (* the error of the last single save                             *)
  main,     (* "run", "final" (sends OnFinalSave), "wait" (for Done), "exit" *)
  faults,
  raced,    (* HISTORY: players stored between the statement and the delete  *)
  late      (* HISTORY: players the last walk could not write                *)

rowVars  == <<db, saved>>
jobVars  == <<job, snap, walk, left, must>>
histVars == <<raced, late>>
vars == <<cache, waiting, room, saver, writer, rowVars, jobVars, err, main,
          faults, histVars>>

Init ==
  /\ cache = [p \in Players |-> 0] /\ db = [p \in Players |-> 0]
  /\ waiting = {} /\ room = [p \in Players |-> "idle"]
  /\ saver = [s \in Savers |-> <<"idle", 1>>] /\ saved = {}
  /\ writer = "select" /\ job = Nobody /\ snap = 0 /\ walk = "no"
  /\ left = {} /\ must = {} /\ err = "ok"
  /\ main = "run" /\ faults = 0 /\ raced = {} /\ late = {}

-----------------------------------------------------------------------------
(* The commands of a room.                                                 *)

Change(p) ==
  /\ room[p] = "idle" /\ cache[p] < MaxVersion[p]
  /\ cache' = [cache EXCEPT ![p] = @ + 1]
  /\ room' = [room EXCEPT ![p] = "changed"]
  /\ late' = IF main = "wait" THEN late \cup {p} ELSE late
  /\ UNCHANGED <<waiting, saver, writer, rowVars, jobVars, err, main, faults, raced>>

Behind(p) == walk # "no" /\ job = p /\ writer \in {"commit", "delete"} /\ snap # cache[p]

Store(p) ==
  /\ room[p] = "changed"
  /\ waiting' = waiting \cup {p}
  /\ room' = [room EXCEPT ![p] = "stored"]
  /\ raced' = IF Behind(p) THEN raced \cup {p} ELSE raced \ {p}
  /\ late' = IF main = "wait" THEN late \cup {p} ELSE late
  /\ UNCHANGED <<cache, saver, writer, rowVars, jobVars, err, main, faults>>

(* The request is dropped unless the writer is waiting for one.            *)
TryWrite(p) ==
  /\ room[p] = "stored"
  /\ room' = [room EXCEPT ![p] = "idle"]
  /\ IF writer = "select"
     THEN writer' = "read" /\ job' = p /\ walk' = "no" /\ UNCHANGED <<snap, left, must>>
     ELSE UNCHANGED <<writer, jobVars>>
  /\ UNCHANGED <<cache, waiting, saver, rowVars, err, main, faults, histVars>>

-----------------------------------------------------------------------------
(* Savers: the second object is sent when the first has been saved.        *)

Begin(s) ==
  /\ saver[s] = <<"idle", 1>>
  /\ saver' = [saver EXCEPT ![s] = <<"send", 1>>]
  /\ UNCHANGED <<cache, waiting, room, writer, rowVars, jobVars, err, main,
                 faults, histVars>>

Take(s) ==
  /\ saver[s][1] = "send" /\ writer = "select"
  /\ saver' = [saver EXCEPT ![s] = <<"wait", @[2]>>]
  /\ writer' = "read" /\ job' = s /\ walk' = "no"
  /\ UNCHANGED <<cache, waiting, room, rowVars, snap, left, must, err, main,
                 faults, histVars>>

(* What a saver does with the answer.                                      *)
Answered(s, e) ==
  [saver EXCEPT ![s] = IF e = "ok" /\ @[2] = 1 THEN <<"send", 2>> ELSE <<e, @[2]>>]

-----------------------------------------------------------------------------
(* The writer.                                                             *)

StartWalk(w) ==
  /\ writer = "select" /\ writer' = "visit"
  /\ w = "final" => main = "final"
  /\ walk' = w /\ left' = Players /\ must' = waiting
  /\ main' = IF w = "final" THEN "wait" ELSE main
  /\ UNCHANGED <<cache, waiting, room, saver, rowVars, job, snap, err, faults, histVars>>

(* Range visits a key once at most; one that is stored meanwhile it may    *)
(* miss.                                                                   *)
Visit(p) ==
  /\ writer = "visit" /\ p \in waiting \cap left
  /\ writer' = "read" /\ job' = p /\ left' = left \ {p}
  /\ UNCHANGED <<cache, waiting, room, saver, rowVars, snap, walk, must, err,
                 main, faults, histVars>>

AfterWalkGoesOn == "select"      (* MUTANT: no return after the final save   *)
AfterWalk == IF walk = "final" THEN "done" ELSE "select"
NoJob  == job' = Nobody /\ snap' = 0
NoWalk == walk' = "no" /\ left' = {} /\ must' = {}

VisitedSome == TRUE     (* MUTANT: may miss any                              *)
Visited == must \cap left = {}
EndWalk ==
  /\ writer = "visit" /\ Visited
  /\ writer' = AfterWalk /\ NoWalk
  /\ UNCHANGED <<cache, waiting, room, saver, rowVars, job, snap, err, main,
                 faults, histVars>>

Read ==
  /\ writer = "read" /\ writer' = "commit"
  /\ snap' = IF job \in Players THEN cache[job] ELSE 0
  /\ UNCHANGED <<cache, waiting, room, saver, rowVars, job, walk, left, must,
                 err, main, faults, histVars>>

Rows(v) ==
  IF job \in Players THEN db' = [db EXCEPT ![job] = v] /\ UNCHANGED saved
                     ELSE saved' = saved \cup {<<job, saver[job][2]>>} /\ UNCHANGED db

AfterStatement == IF walk = "no" THEN "reply" ELSE "delete"

Commit ==
  /\ writer = "commit" /\ writer' = AfterStatement
  /\ Rows(snap)
  /\ err' = IF walk = "no" THEN "ok" ELSE err
  /\ UNCHANGED <<cache, waiting, room, saver, jobVars, main, faults, histVars>>

FailSilently ==    (* MUTANT: an err of its own in the case that saves       *)
  /\ writer = "commit" /\ faults < MaxFaults
  /\ writer' = IF walk = "no" THEN "reply" ELSE "visit"
  /\ late' = IF walk = "final" THEN late \cup {job} ELSE late
  /\ faults' = faults + 1
  /\ IF walk = "no" THEN UNCHANGED <<job, snap>> ELSE NoJob
  /\ UNCHANGED <<cache, waiting, room, saver, rowVars, walk, left, must, err, main, raced>>
FailDeletes ==     (* MUTANT: deletes the key whether or not it was written  *)
  /\ writer = "commit" /\ faults < MaxFaults
  /\ writer' = AfterStatement
  /\ err' = IF walk = "no" THEN "failed" ELSE err
  /\ faults' = faults + 1
  /\ UNCHANGED <<cache, waiting, room, saver, rowVars, jobVars, main, histVars>>
(* The error of a single save is its answer; in a walk the key stays.      *)
Fail ==
  /\ writer = "commit" /\ faults < MaxFaults
  /\ writer' = IF walk = "no" THEN "reply" ELSE "visit"
  /\ err' = IF walk = "no" THEN "failed" ELSE err
  /\ late' = IF walk = "final" THEN late \cup {job} ELSE late
  /\ faults' = faults + 1
  /\ IF walk = "no" THEN UNCHANGED <<job, snap>> ELSE NoJob
  /\ UNCHANGED <<cache, waiting, room, saver, rowVars, walk, left, must, main, raced>>

(* A panic in a walk ends the walk.  One in a single save ends the writer, *)
(* which answers with the error variable as it is.                         *)
Panic ==
  /\ writer = "commit" /\ faults < MaxFaults
  /\ writer' = IF walk = "no" THEN "dead" ELSE AfterWalk
  /\ saver' = IF job \in Savers THEN Answered(job, err) ELSE saver
  /\ late' = IF walk = "final" THEN Players ELSE late
  /\ faults' = faults + 1 /\ NoJob /\ NoWalk
  /\ UNCHANGED <<cache, waiting, room, rowVars, err, main, raced>>

Delete ==
  /\ writer = "delete" /\ writer' = "visit" /\ NoJob
  /\ waiting' = waiting \ {job}
  /\ UNCHANGED <<cache, room, saver, rowVars, walk, left, must, err, main,
                 faults, histVars>>

Reply ==
  /\ writer = "reply" /\ writer' = "select"
  /\ saver' = IF job \in Savers THEN Answered(job, err) ELSE saver
  /\ NoJob
  /\ UNCHANGED <<cache, waiting, room, rowVars, walk, left, must, err, main,
                 faults, histVars>>

-----------------------------------------------------------------------------
(* main: the modules are down, rooms and their virtual machines are not.   *)

Stop ==
  /\ main = "run" /\ main' = "final"
  /\ UNCHANGED <<cache, waiting, room, saver, writer, rowVars, jobVars, err,
                 faults, histVars>>

Exit ==
  /\ main = "wait" /\ writer = "done" /\ main' = "exit"
  /\ UNCHANGED <<cache, waiting, room, saver, writer, rowVars, jobVars, err,
                 faults, histVars>>

-----------------------------------------------------------------------------
Work == (\E p \in Players : Visit(p)) \/ EndWalk \/ Read \/ Commit \/ Delete \/ Reply

Next ==
  /\ main # "exit"
  /\ \/ \E p \in Players : Change(p) \/ Store(p) \/ TryWrite(p)
     \/ \E s \in Savers : Begin(s) \/ Take(s)
     \/ \E w \in {"timer", "final"} : StartWalk(w)
     \/ Work \/ Fail \/ Panic \/ Stop \/ Exit

Spec == Init /\ [][Next]_vars

(* The goroutines run, statements return, the ticker ticks, and select     *)
(* picks at random among what is ready.  Nobody has to change or save      *)
(* anything, nor to stop the server.                                       *)
FairSpec ==
  /\ Spec
  /\ WF_vars(main # "exit" /\ Work) /\ WF_vars(main # "exit" /\ Exit)
  /\ \A w \in {"timer", "final"} : SF_vars(main # "exit" /\ StartWalk(w))
  /\ \A s \in Savers : SF_vars(main # "exit" /\ Take(s))
  /\ \A p \in Players : WF_vars(main # "exit" /\ (Store(p) \/ TryWrite(p)))

-----------------------------------------------------------------------------
(* Properties.                                                             *)

TypeOK ==
  /\ cache \in [Players -> Nat] /\ db \in [Players -> Nat]
  /\ \A p \in Players : db[p] <= cache[p] /\ cache[p] <= MaxVersion[p]
  /\ waiting \subseteq Players
  /\ room \in [Players -> {"idle", "changed", "stored"}]
  /\ saver \in [Savers -> {"idle", "send", "wait", "ok", "failed"} \X {1, 2}]
  /\ saved \subseteq Savers \X {1, 2}
  /\ writer \in {"select", "read", "commit", "delete", "visit", "reply", "done", "dead"}
  /\ job \in Players \cup Savers \cup {Nobody} /\ snap \in Nat
  /\ walk \in {"no", "timer", "final"} /\ left \subseteq Players /\ must \subseteq Players
  /\ err \in {"ok", "failed"} /\ main \in {"run", "final", "wait", "exit"}
  /\ faults \in 0..MaxFaults /\ raced \subseteq Players /\ late \subseteq Players
  (* the writer has in hand what its step needs                              *)
  /\ (job # Nobody) = (writer \in {"read", "commit", "delete", "reply"})
  /\ (walk # "no") => writer \in {"visit", "read", "commit", "delete"}
  /\ writer \in {"read", "commit"} /\ job \in Savers => walk = "no" /\ saver[job][1] = "wait"

(* A player whose row is behind is waiting for the writer, or is just      *)
(* being changed; whatever fails and panics, nothing but a store between   *)
(* the writer's statement and its delete lets a change be forgotten.       *)
NothingForgotten ==
  \A p \in Players : db[p] # cache[p] =>
    p \in waiting \/ room[p] = "changed" \/ p \in raced

(* What is not yet in the database is not forgotten either.                *)
ChangesKept == TypeOK /\ NothingForgotten

(* Who is told "ok" has its object in the database and who is told         *)
(* "failed" has not, unless the writer has panicked.  Links are never      *)
(* saved without their log, not even then.                                 *)
ToldTruth ==
  /\ writer # "dead" => \A s \in Savers :
       /\ saver[s][1] = "ok" => <<s, saver[s][2]>> \in saved
       /\ saver[s][1] = "failed" => <<s, saver[s][2]>> \notin saved
  /\ \A s \in Savers : <<s, 2>> \in saved => <<s, 1>> \in saved

(* The last save before the exit leaves every row as the cache is, but for *)
(* what changed while it was made or was forgotten before it.              *)
FinalSaveIsComplete ==
  main = "exit" => \A p \in Players :
    db[p] = cache[p] \/ p \in late \/ p \in raced \/ room[p] = "changed"

Over == writer = "dead" \/ main = "exit"

(* Every save is answered, every change that waits is written in the end,  *)
(* and the server stops, as long as the writer has not panicked.           *)
SavesAnswered == \A s \in Savers : saver[s][1] = "send" ~> (saver[s][1] \in {"ok", "failed"} \/ Over)
ChangesWritten ==
  \A p \in Players : \A v \in 1..MaxVersion[p] :
    (p \in waiting /\ cache[p] = v) ~> (db[p] >= v \/ p \in raced \/ Over)
StopEnds == main = "final" ~> Over
WriterServes == SavesAnswered /\ StopEnds
=============================================================================
