CONSTANTS
  Workers = {w1, w2}
  JobCount = 3
  RetryLimit <- OneProviderRetry
  MayAbort = TRUE
  MayCrash = TRUE
  None = None
SPECIFICATION FairSpec
CHECK_DEADLOCK FALSE
INVARIANTS
  JobsAreAccounted
  AttemptIsDurable
  StatusTellsTheTruth
  HiddenAssetsStayHidden
PROPERTIES
  RunEnds
