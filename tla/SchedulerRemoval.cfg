CONSTANTS
  Schedules = {a}
  Processes = {p}
  Interval <- Cadence
  MaxSchedules = 1
  MaxTime = 1
  MayRewind = FALSE
SPECIFICATION DeletingSpec
CHECK_DEADLOCK FALSE
PROPERTIES
  SchedulesCanBeRemoved
