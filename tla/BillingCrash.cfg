CONSTANTS
  Subscriptions = {s}
  Workers = {w1}
  Kinds = {"subscription", "invoice", "checkout", "other", "unlinked"}
  Entitled = {TRUE}
  MaxAttempts = 2
  MaxChanges = 2
  SameSecond = FALSE
  LocalCalls = FALSE
  MayCrash = TRUE
  None = None
SPECIFICATION FairSpec
CHECK_DEADLOCK FALSE
PROPERTIES
  JobsAreDurable
