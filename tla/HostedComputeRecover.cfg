CONSTANTS
  Jobs <- OneJob
  Hosted <- OneJob
  Self = {s1}
  MaxActive = 1
  MaxQueued = 1
  MaxOpen = 1
  MayCrash = TRUE
  None = None
SPECIFICATION FairSpec
CHECK_DEADLOCK FALSE
PROPERTIES
  ClosedMachinesStop
  LeasesMoveOn
