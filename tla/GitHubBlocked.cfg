CONSTANTS
  Workers = {w1}
  Kinds = {"push"}
  MaxAttempts = 2
  BatchLimit = 1
  MaxEvents = 2
  MayCrash = TRUE
  None = None
SPECIFICATION FairSpec
CHECK_DEADLOCK FALSE
PROPERTIES
  NobodyBlocksTheQueue
