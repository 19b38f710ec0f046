CONSTANTS
  MaxRuns = 2
  Runners = {w1, w2}
  Keys = {k1, k2}
  Results = {v1, v2}
  MaxAttempts = 2
  None = None
SPECIFICATION Spec
SYMMETRY Symmetry
INVARIANTS
  QueueInv
PROPERTIES
  ContractSpec
CHECK_DEADLOCK FALSE
