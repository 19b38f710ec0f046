---------------------------- MODULE MCJobQueue ----------------------------
(* Model checking of JobQueue: the runners and keys are interchangeable.  *)
EXTENDS JobQueue, TLC

Symmetry == Permutations(Runners) \cup Permutations(Keys)
=============================================================================
