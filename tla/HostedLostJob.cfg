CONSTANTS
  Jobs <- OneJob
  Hosted <- OneJob
  Self = {s1}
  MaxActive = 1
  MaxQueued = 1
  MaxOpen = 1
  MayCrash = FALSE
  None = None
SPECIFICATION WorkingSpec
CHECK_DEADLOCK FALSE
PROPERTIES
  LostJobRecovers
