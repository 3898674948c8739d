SPECIFICATION Spec
CONSTANTS
  Reports = {r1, r2}
  Kept = 1
  MaxEvents = 1
  MaxQueued = 2
  None = None
CHECK_DEADLOCK FALSE
INVARIANT WithdrawnEventsNotSent
