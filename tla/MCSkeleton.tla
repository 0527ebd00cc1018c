----------------------------- MODULE MCSkeleton -----------------------------
(* One call more than may be pending, a caller that competes with them for *)
(* a channel of one, and two tasks of a LinearContext.                     *)
EXTENDS Skeleton

CONSTANTS c1, c2, s1, t1, t2
MCCalls   == {c1, c2}
MCCallers == {s1}
MCTasks   == {t1, t2}
=============================================================================
