CONSTANTS
  Jobs <- OneJob
  Hosted <- OneJob
  Self = {s1}
  MaxActive = 1
  MaxQueued = 1
  MaxOpen = 4
  MayCrash = TRUE
  None = None
SPECIFICATION Spec
CHECK_DEADLOCK FALSE
INVARIANTS
  OutcomesAgree
  OneProvisionCall
  PinnedJobKeepsItsRunner
