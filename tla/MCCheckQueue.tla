---------------------------- MODULE MCCheckQueue ----------------------------
(* Instances of CheckQueue for TLC. *)
EXTENDS CheckQueue, TLC
CONSTANTS w1, w2, m, c1, c2, c3, c4

MCWorkers == {w1, w2}
MCChecks == {c1, c2, c3, c4}
MCBad == {c2}
=============================================================================
