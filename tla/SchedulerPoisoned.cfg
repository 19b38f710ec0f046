CONSTANTS
  Schedules = {a, b}
  Processes = {p}
  Interval <- Cadence
  MaxSchedules = 2
  MaxTime = 2
  MayRewind = TRUE
SPECIFICATION FairSpec
CHECK_DEADLOCK FALSE
PROPERTIES
  DuplicatesDoNoHarm
