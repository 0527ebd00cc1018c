---------------------------- MODULE DbWriterProofs ----------------------------
(***************************************************************************)
(* For any players, savers, numbers of changes and of faults: what the     *)
(* writer can forget, who is told what, and what the last save leaves.     *)
(*                                                                         *)
(* None of the three is inductive.  They are about the cache and the rows, *)
(* and between them stands what the writer has in its hands: SnapInv says  *)
(* what a snapshot that has become old implies, SaverInv how far the save  *)
(* of each saver is, FinalInv what the last walk has still before it.      *)
(***************************************************************************)
EXTENDS DbWriter, TLAPS

USE DEF rowVars, jobVars, histVars

(* Where the writer is says what it has in hand.                           *)
JobInv ==
  /\ writer = "visit" => walk # "no"
  /\ writer = "delete" => walk # "no" /\ db[job] = snap
  /\ writer = "reply" => walk = "no"
  /\ walk # "no" /\ job # Nobody => job \in waiting
  /\ writer \in {"commit", "delete"} /\ job \in Players => snap <= cache[job]

(* A snapshot that is old by now belongs to a player that will be written  *)
(* again: in a walk, whose delete is still to come, only one that is being *)
(* changed or whose store fell into the gap.                               *)
Remembered(p) == p \in waiting \/ room[p] = "changed" \/ p \in raced
SnapInv ==
  writer \in {"commit", "delete"} /\ job \in Players /\ snap # cache[job] =>
    IF walk = "no" THEN Remembered(job) ELSE room[job] = "changed" \/ job \in raced

KeptInv == NothingForgotten /\ SnapInv

(* The object a saver is at is in the database exactly from the statement  *)
(* that succeeded, the first one before the second.                        *)
IsSaved(s) == <<s, saver[s][2]>> \in saved
SaverInv ==
  /\ \A s \in Savers : <<s, 2>> \in saved => <<s, 1>> \in saved
  /\ writer # "dead" => \A s \in Savers :
       /\ saver[s][2] = 2 => <<s, 1>> \in saved
       /\ saver[s][2] = 1 => <<s, 2>> \notin saved
       /\ saver[s][1] = "wait" <=> job = s
       /\ saver[s][1] \in {"idle", "send", "failed"} => ~IsSaved(s)
       /\ saver[s][1] = "wait" => (IsSaved(s) <=> writer = "reply" /\ err = "ok")
       /\ saver[s][1] = "ok" => IsSaved(s)

(* From the start of the last walk on, a row that is behind is still to be *)
(* visited, is being written, or has its excuse.                           *)
Excused(p) == p \in late \/ p \in raced \/ room[p] = "changed"
FinalInv ==
  /\ walk = "final" => main = "wait"
  /\ writer = "done" => main \in {"wait", "exit"} /\ left = {}
  /\ main = "wait" => walk = "final" \/ writer = "done"
  /\ main = "exit" => writer = "done"
  /\ main \in {"wait", "exit"} => \A p \in Players :
       \/ db[p] = cache[p] \/ Excused(p)
       \/ p \in must \cap left
       \/ p = job /\ writer \in {"read", "commit"}

Inv == TypeOK /\ JobInv /\ KeptInv /\ SaverInv /\ FinalInv

-----------------------------------------------------------------------------
(* Every step keeps the types; the job's kind needs to know where the      *)
(* writer is.                                                              *)
LEMMA TypeStep ==
  ASSUME TypeOK, JobInv, [Next]_vars
  PROVE  TypeOK'
<1> USE DEF TypeOK, JobInv
<1>1. ASSUME NEW p \in Players, Change(p) PROVE TypeOK'
  <2>1. cache' = [cache EXCEPT ![p] = cache[p] + 1] /\ cache[p] < MaxVersion[p]
    BY <1>1 DEF Change
  <2>2. cache \in [Players -> Nat] /\ MaxVersion[p] \in Nat
    BY BoundsAssumption DEF TypeOK
  <2>3. cache' \in [Players -> Nat]
    BY <2>1, <2>2
  <2>4. \A q \in Players : db[q] <= cache'[q] /\ cache'[q] <= MaxVersion[q]
    BY <2>1, <2>2 DEF TypeOK
  <2> QED
    BY <1>1, <2>3, <2>4 DEF TypeOK, Change
<1>2. ASSUME NEW p \in Players, Store(p) PROVE TypeOK'
  BY <1>2, NamesAssumption, BoundsAssumption DEF Store, Behind
<1>3. ASSUME NEW p \in Players, TryWrite(p) PROVE TypeOK'
  BY <1>3, NamesAssumption, BoundsAssumption DEF TryWrite
<1>4. ASSUME NEW s \in Savers, Begin(s) PROVE TypeOK'
  BY <1>4, NamesAssumption, BoundsAssumption DEF Begin
<1>5. ASSUME NEW s \in Savers, Take(s) PROVE TypeOK'
  BY <1>5, NamesAssumption, BoundsAssumption DEF Take
<1>6. ASSUME NEW w \in {"timer", "final"}, StartWalk(w) PROVE TypeOK'
  BY <1>6, NamesAssumption, BoundsAssumption DEF StartWalk
<1>7. ASSUME NEW p \in Players, Visit(p) PROVE TypeOK'
  BY <1>7, NamesAssumption, BoundsAssumption DEF Visit
<1>8. CASE EndWalk
  BY <1>8, NamesAssumption, BoundsAssumption DEF EndWalk, AfterWalk, NoWalk, Visited
<1>9. CASE Read
  BY <1>9, NamesAssumption, BoundsAssumption DEF Read
<1>10. CASE Commit
  BY <1>10, NamesAssumption, BoundsAssumption DEF Commit, Rows, AfterStatement
<1>11. CASE Delete
  BY <1>11, NamesAssumption, BoundsAssumption DEF Delete, NoJob
<1>12. CASE Reply
  BY <1>12, NamesAssumption, BoundsAssumption DEF Reply, NoJob, Answered
<1>13. CASE Fail
  BY <1>13, NamesAssumption, BoundsAssumption DEF Fail, NoJob
<1>14. CASE Panic
  BY <1>14, NamesAssumption, BoundsAssumption DEF Panic, NoJob, NoWalk, AfterWalk, Answered
<1>15. CASE Stop
  BY <1>15, NamesAssumption, BoundsAssumption DEF Stop
<1>16. CASE Exit
  BY <1>16, NamesAssumption, BoundsAssumption DEF Exit
<1>17. CASE UNCHANGED vars
  BY <1>17 DEF vars
<1> QED
  BY <1>1, <1>2, <1>3, <1>4, <1>5, <1>6, <1>7, <1>8, <1>9,
     <1>10, <1>11, <1>12, <1>13, <1>14, <1>15, <1>16, <1>17 DEF Next, Work

(* Every step of the writer hands on what the next one has in hand; rooms  *)
(* and savers do not touch it, and the cache only grows under a snapshot.  *)
LEMMA JobStep ==
  ASSUME TypeOK, JobInv, [Next]_vars
  PROVE  JobInv'
<1> USE DEF TypeOK, JobInv
<1>1. ASSUME NEW p \in Players, Change(p) PROVE JobInv'
  BY <1>1, NamesAssumption DEF Change
<1>2. ASSUME NEW p \in Players, Store(p) PROVE JobInv'
  BY <1>2, NamesAssumption DEF Store, Behind
<1>3. ASSUME NEW p \in Players, TryWrite(p) PROVE JobInv'
  BY <1>3, NamesAssumption DEF TryWrite
<1>4. ASSUME NEW s \in Savers, Begin(s) PROVE JobInv'
  BY <1>4, NamesAssumption DEF Begin
<1>5. ASSUME NEW s \in Savers, Take(s) PROVE JobInv'
  BY <1>5, NamesAssumption DEF Take
<1>6. ASSUME NEW w \in {"timer", "final"}, StartWalk(w) PROVE JobInv'
  BY <1>6, NamesAssumption DEF StartWalk
<1>7. ASSUME NEW p \in Players, Visit(p) PROVE JobInv'
  BY <1>7, NamesAssumption DEF Visit
<1>8. CASE EndWalk
  BY <1>8, NamesAssumption DEF EndWalk, AfterWalk, NoWalk, Visited
<1>9. CASE Read
  BY <1>9, NamesAssumption DEF Read
<1>10. CASE Commit
  BY <1>10, NamesAssumption DEF Commit, Rows, AfterStatement
<1>11. CASE Delete
  BY <1>11, NamesAssumption DEF Delete, NoJob
<1>12. CASE Reply
  BY <1>12, NamesAssumption DEF Reply, NoJob, Answered
<1>13. CASE Fail
  BY <1>13, NamesAssumption DEF Fail, NoJob
<1>14. CASE Panic
  BY <1>14, NamesAssumption DEF Panic, NoJob, NoWalk, AfterWalk, Answered
<1>15. CASE Stop
  BY <1>15, NamesAssumption DEF Stop
<1>16. CASE Exit
  BY <1>16, NamesAssumption DEF Exit
<1>17. CASE UNCHANGED vars
  BY <1>17 DEF vars
<1> QED
  BY <1>1, <1>2, <1>3, <1>4, <1>5, <1>6, <1>7, <1>8, <1>9,
     <1>10, <1>11, <1>12, <1>13, <1>14, <1>15, <1>16, <1>17 DEF Next, Work

(* No step forgets a change: a room's store puts the player back, and the  *)
(* delete of a walk takes away what the statement has written.             *)
LEMMA KeptStep ==
  ASSUME TypeOK, JobInv, KeptInv, [Next]_vars
  PROVE  KeptInv'
<1> USE DEF TypeOK, JobInv, KeptInv, NothingForgotten, SnapInv, Remembered
<1>1. ASSUME NEW p \in Players, Change(p) PROVE KeptInv'
  BY <1>1, NamesAssumption DEF Change
<1>2. ASSUME NEW p \in Players, Store(p) PROVE KeptInv'
  BY <1>2, NamesAssumption DEF Store, Behind
<1>3. ASSUME NEW p \in Players, TryWrite(p) PROVE KeptInv'
  BY <1>3, NamesAssumption DEF TryWrite
<1>4. ASSUME NEW s \in Savers, Begin(s) PROVE KeptInv'
  BY <1>4, NamesAssumption DEF Begin
<1>5. ASSUME NEW s \in Savers, Take(s) PROVE KeptInv'
  BY <1>5, NamesAssumption DEF Take
<1>6. ASSUME NEW w \in {"timer", "final"}, StartWalk(w) PROVE KeptInv'
  BY <1>6, NamesAssumption DEF StartWalk
<1>7. ASSUME NEW p \in Players, Visit(p) PROVE KeptInv'
  BY <1>7, NamesAssumption DEF Visit
<1>8. CASE EndWalk
  BY <1>8, NamesAssumption DEF EndWalk, AfterWalk, NoWalk, Visited
<1>9. CASE Read
  BY <1>9, NamesAssumption DEF Read
<1>10. CASE Commit
  BY <1>10, NamesAssumption DEF Commit, Rows, AfterStatement
<1>11. CASE Delete
  BY <1>11, NamesAssumption DEF Delete, NoJob
<1>12. CASE Reply
  BY <1>12, NamesAssumption DEF Reply, NoJob, Answered
<1>13. CASE Fail
  BY <1>13, NamesAssumption DEF Fail, NoJob
<1>14. CASE Panic
  BY <1>14, NamesAssumption DEF Panic, NoJob, NoWalk, AfterWalk, Answered
<1>15. CASE Stop
  BY <1>15, NamesAssumption DEF Stop
<1>16. CASE Exit
  BY <1>16, NamesAssumption DEF Exit
<1>17. CASE UNCHANGED vars
  BY <1>17 DEF vars
<1> QED
  BY <1>1, <1>2, <1>3, <1>4, <1>5, <1>6, <1>7, <1>8, <1>9,
     <1>10, <1>11, <1>12, <1>13, <1>14, <1>15, <1>16, <1>17 DEF Next, Work

(* Every step keeps each saver and its objects together; the one that      *)
(* could part them is a panic, after which only the order is claimed.      *)
LEMMA SaverStep ==
  ASSUME TypeOK, JobInv, SaverInv, [Next]_vars
  PROVE  SaverInv'
<1> USE DEF TypeOK, JobInv, SaverInv, IsSaved
<1>1. ASSUME NEW p \in Players, Change(p) PROVE SaverInv'
  BY <1>1, NamesAssumption DEF Change
<1>2. ASSUME NEW p \in Players, Store(p) PROVE SaverInv'
  BY <1>2, NamesAssumption DEF Store, Behind
<1>3. ASSUME NEW p \in Players, TryWrite(p) PROVE SaverInv'
  BY <1>3, NamesAssumption DEF TryWrite
<1>4. ASSUME NEW s \in Savers, Begin(s) PROVE SaverInv'
  BY <1>4, NamesAssumption DEF Begin
<1>5. ASSUME NEW s \in Savers, Take(s) PROVE SaverInv'
  BY <1>5, NamesAssumption DEF Take
<1>6. ASSUME NEW w \in {"timer", "final"}, StartWalk(w) PROVE SaverInv'
  BY <1>6, NamesAssumption DEF StartWalk
<1>7. ASSUME NEW p \in Players, Visit(p) PROVE SaverInv'
  BY <1>7, NamesAssumption DEF Visit
<1>8. CASE EndWalk
  BY <1>8, NamesAssumption DEF EndWalk, AfterWalk, NoWalk, Visited
<1>9. CASE Read
  BY <1>9, NamesAssumption DEF Read
<1>10. CASE Commit
  BY <1>10, NamesAssumption DEF Commit, Rows, AfterStatement
<1>11. CASE Delete
  BY <1>11, NamesAssumption DEF Delete, NoJob
<1>12. CASE Reply
  BY <1>12, NamesAssumption DEF Reply, NoJob, Answered
<1>13. CASE Fail
  BY <1>13, NamesAssumption DEF Fail, NoJob
<1>14. CASE Panic
  BY <1>14, NamesAssumption DEF Panic, NoJob, NoWalk, AfterWalk, Answered
<1>15. CASE Stop
  BY <1>15, NamesAssumption DEF Stop
<1>16. CASE Exit
  BY <1>16, NamesAssumption DEF Exit
<1>17. CASE UNCHANGED vars
  BY <1>17 DEF vars
<1> QED
  BY <1>1, <1>2, <1>3, <1>4, <1>5, <1>6, <1>7, <1>8, <1>9,
     <1>10, <1>11, <1>12, <1>13, <1>14, <1>15, <1>16, <1>17 DEF Next, Work

(* The last walk visits what waits, and what it fails at gets its excuse.  *)
LEMMA FinalStep ==
  ASSUME TypeOK, JobInv, KeptInv, FinalInv, [Next]_vars
  PROVE  FinalInv'
<1> USE DEF TypeOK, JobInv, KeptInv, NothingForgotten, SnapInv, Remembered,
            FinalInv, Excused
<1>1. ASSUME NEW p \in Players, Change(p) PROVE FinalInv'
  BY <1>1, NamesAssumption DEF Change
<1>2. ASSUME NEW p \in Players, main # "exit", Store(p) PROVE FinalInv'
  BY <1>2, NamesAssumption DEF Store, Behind
<1>3. ASSUME NEW p \in Players, TryWrite(p) PROVE FinalInv'
  BY <1>3, NamesAssumption DEF TryWrite
<1>4. ASSUME NEW s \in Savers, Begin(s) PROVE FinalInv'
  BY <1>4, NamesAssumption DEF Begin
<1>5. ASSUME NEW s \in Savers, Take(s) PROVE FinalInv'
  BY <1>5, NamesAssumption DEF Take
<1>6. ASSUME NEW w \in {"timer", "final"}, StartWalk(w) PROVE FinalInv'
  BY <1>6, NamesAssumption DEF StartWalk
<1>7. ASSUME NEW p \in Players, Visit(p) PROVE FinalInv'
  BY <1>7, NamesAssumption DEF Visit
<1>8. CASE EndWalk
  BY <1>8, NamesAssumption DEF EndWalk, AfterWalk, NoWalk, Visited
<1>9. CASE Read
  BY <1>9, NamesAssumption DEF Read
<1>10. CASE Commit
  BY <1>10, NamesAssumption DEF Commit, Rows, AfterStatement
<1>11. CASE Delete
  BY <1>11, NamesAssumption DEF Delete, NoJob
<1>12. CASE Reply
  BY <1>12, NamesAssumption DEF Reply, NoJob, Answered
<1>13. CASE Fail
  BY <1>13, NamesAssumption DEF Fail, NoJob
<1>14. CASE Panic
  BY <1>14, NamesAssumption DEF Panic, NoJob, NoWalk, AfterWalk, Answered
<1>15. CASE Stop
  BY <1>15, NamesAssumption DEF Stop
<1>16. CASE Exit
  BY <1>16, NamesAssumption DEF Exit
<1>17. CASE UNCHANGED vars
  BY <1>17 DEF vars
<1> QED
  BY <1>1, <1>2, <1>3, <1>4, <1>5, <1>6, <1>7, <1>8, <1>9,
     <1>10, <1>11, <1>12, <1>13, <1>14, <1>15, <1>16, <1>17 DEF Next, Work

-----------------------------------------------------------------------------
(* At the start nothing waits and every row is as the cache.               *)
LEMMA Initially == Init => Inv
<1> SUFFICES ASSUME Init PROVE Inv
  OBVIOUS
<1>1. TypeOK
  BY NamesAssumption, BoundsAssumption DEF Init, TypeOK
<1>2. JobInv /\ KeptInv /\ FinalInv
  BY DEF Init, JobInv, KeptInv, NothingForgotten, SnapInv, FinalInv
<1>3. SaverInv
  BY NamesAssumption DEF Init, SaverInv, IsSaved
<1> QED
  BY <1>1, <1>2, <1>3 DEF Inv

(* The inductive invariant of the writer, its rooms and its savers.        *)
THEOREM WriterInvariant == Spec => []Inv
<1>1. Inv /\ [Next]_vars => Inv'
  BY TypeStep, JobStep, KeptStep, SaverStep, FinalStep DEF Inv
<1> QED
  BY Initially, <1>1, PTL DEF Spec

(* A change that is not in the database yet is waiting, or just being      *)
(* made; only a store between the statement and the delete of a walk       *)
(* (write.go:82) can be forgotten, whatever fails or panics.               *)
THEOREM ChangesAreKept == Spec => []ChangesKept
<1>1. Inv => ChangesKept
  BY DEF Inv, KeptInv, ChangesKept
<1> QED
  BY WriterInvariant, <1>1, PTL

(* Until the writer panics, the answer to a save says what became of it    *)
(* (write.go:57); links are never in the database without their log.       *)
THEOREM SaversAreToldTruth == Spec => []ToldTruth
<1>1. Inv => ToldTruth
  BY DEF Inv, SaverInv, IsSaved, ToldTruth
<1> QED
  BY WriterInvariant, <1>1, PTL

(* When main exits (main.go:60), every row is as the cache, but for what   *)
(* changed during the last walk, failed in it, or was forgotten before.    *)
THEOREM FinalSaveCompletes == Spec => []FinalSaveIsComplete
<1>1. Inv => FinalSaveIsComplete
  <2> SUFFICES ASSUME Inv, main = "exit", NEW p \in Players
               PROVE  db[p] = cache[p] \/ Excused(p)
    BY DEF Excused, FinalSaveIsComplete
  <2>1. writer = "done" /\ left = {}
    BY DEF Inv, FinalInv
  <2>2. \/ db[p] = cache[p] \/ Excused(p)
        \/ p \in must \cap left
        \/ p = job /\ writer \in {"read", "commit"}
    BY DEF Inv, FinalInv
  <2> QED
    BY <2>1, <2>2
<1> QED
  BY WriterInvariant, <1>1, PTL
=============================================================================
