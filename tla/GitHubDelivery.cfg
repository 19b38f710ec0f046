CONSTANTS
  Workers = {w1, w2}
  Kinds = {"synchronize", "suspend", "unsuspend", "deleted", "push"}
  MaxAttempts = 2
  BatchLimit = 2
  MaxEvents = 2
  MayCrash = TRUE
  None = None
SPECIFICATION FairSpec
CHECK_DEADLOCK FALSE
INVARIANTS
  DeliveriesAndJobsAgree
  PushesHaveChecks
  RemovalArchives
PROPERTIES
  DeliveriesEnd
