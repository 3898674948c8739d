SPECIFICATION FairSpec
CONSTANTS
  Emits = {e1, e2}
  PageSize = 2
  MaxPending = 2
  MaxCloses = 0
CHECK_DEADLOCK FALSE
PROPERTY PumpRests
