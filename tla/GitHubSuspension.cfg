CONSTANTS
  Workers = {w1}
  Kinds = {"suspend", "push"}
  MaxAttempts = 2
  BatchLimit = 3
  MaxEvents = 3
  MayCrash = FALSE
  None = None
SPECIFICATION Spec
CHECK_DEADLOCK FALSE
PROPERTIES
  SuspensionStopsRuns
