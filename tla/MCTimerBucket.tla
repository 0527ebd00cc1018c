--------------------------- MODULE MCTimerBucket ---------------------------
(* A round of three phases with timers and one without; after it the keys  *)
(* are used again.                                                         *)
EXTENDS TimerBucket

CONSTANTS a, b, c
MCCycle == <<a, b, c, NoKey>>
=============================================================================
