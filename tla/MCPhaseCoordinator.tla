------------------------ MODULE MCPhaseCoordinator ------------------------
(* Model checking of PhaseCoordinator: the attempts are interchangeable.  *)
EXTENDS PhaseCoordinator, TLC

Symmetry == Permutations(Attempts)
=============================================================================
