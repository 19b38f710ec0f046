---------------------------- MODULE MCScheduler ----------------------------
(* Instances of Scheduler for TLC: one schedule in the shortest interval,   *)
(* the others in twice that.                                                *)
EXTENDS Scheduler, TLC

Cadence ==
  LET first == CHOOSE s \in Schedules : TRUE
  IN  [s \in Schedules |-> IF s = first THEN 1 ELSE 2]
ProcessSymmetry == Permutations(Processes)
=============================================================================
