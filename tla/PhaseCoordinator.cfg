CONSTANT Attempts = {a1, a2, a3, a4, a5, a6}
SPECIFICATION FairPhaseSpec
CHECK_DEADLOCK FALSE
INVARIANTS
  PhasesExclude
PROPERTIES
  WaitersEnter
