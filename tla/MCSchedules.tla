----------------------------- MODULE MCSchedules -----------------------------
(* Instances of Schedules small enough for TLC. *)
EXTENDS Schedules, TLC

CONSTANTS c1, c2, w1, w2

\* Two workers that race for the same ticks.
OneEach == c1 :> w1 @@ c2 :> w2

OneWorker == c1 :> w1
=============================================================================
