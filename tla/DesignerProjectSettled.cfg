SPECIFICATION Spec
CONSTANTS
  Requests = {q1}
  MaxRevisions = 3
  MaxGraph = 1
  MaxQueued = 1
  None = None
CHECK_DEADLOCK FALSE
INVARIANT EndedRequestsAreSettled
