CONSTANTS
  Jobs <- OneJob
  Hosted <- OneJob
  Self = {s1}
  MaxActive = 1
  MaxQueued = 1
  MaxOpen = 2
  MayCrash = FALSE
  None = None
SPECIFICATION Spec
CHECK_DEADLOCK FALSE
INVARIANTS
  CancellationRevokesRunner
