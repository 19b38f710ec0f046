CONSTANTS
  Subscriptions = {s}
  Workers = {w1, w2}
  Kinds = {"subscription", "invoice", "other", "unlinked"}
  Entitled = {TRUE}
  MaxAttempts = 2
  MaxChanges = 2
  SameSecond = FALSE
  LocalCalls = TRUE
  MayCrash = TRUE
  None = None
SPECIFICATION FairSpec
CHECK_DEADLOCK FALSE
INVARIANTS
  EventsAndJobsAgree
  ProcessedEventsAreReflected
PROPERTIES
  EventsEnd
