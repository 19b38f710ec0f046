CONSTANTS
  Schedules = {a, b}
  Processes = {p, q}
  Interval <- Cadence
  MaxSchedules = 2
  MaxTime = 2
  MayRewind = TRUE
SPECIFICATION FairSpec
CHECK_DEADLOCK FALSE
INVARIANTS
  OneRunPerOccurrence
  NoOccurrenceLost
PROPERTIES
  DueSchedulesFire
