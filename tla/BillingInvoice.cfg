CONSTANTS
  Subscriptions = {s}
  Workers = {w1}
  Kinds = {"subscription", "invoice"}
  Entitled = {TRUE}
  MaxAttempts = 2
  MaxChanges = 3
  SameSecond = FALSE
  LocalCalls = FALSE
  MayCrash = FALSE
  None = None
SPECIFICATION Spec
CHECK_DEADLOCK FALSE
INVARIANTS
  InvoiceConverges
