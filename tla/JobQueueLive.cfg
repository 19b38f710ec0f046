CONSTANTS
  MaxRuns = 2
  Runners = {w1}
  Keys = {k1, k2}
  Results = {v1}
  MaxAttempts = 2
  None = None
SPECIFICATION FairSpec
PROPERTIES EveryJobSettles
CHECK_DEADLOCK FALSE
