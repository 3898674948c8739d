SPECIFICATION PartsSpec
CONSTANTS
  None = None
  Threads = {t1}
  Operations = {o1, o2}
  Revisions = {v1}
  Calls = {c1, c2, c3}
  Kinds = {"create", "reply", "resolve", "reopen", "append", "react", "move", "open", "export", "replace", "delete"}
  MaxReceipts = 1
  Requests = {q1}
  Results = {u1, u2}
  MaxTime = 2
  PageSize = 2
  MaxPending = 2
  MaxCloses = 1
  Transactions = {s1}
  MaxAccess = 3
  EntitlementRevisions = {1, 2}
  Digests = {d1, d2}
  Retries = 2
  MaxAttempts = 2
  Lease = 2
  Capacity = 2
  Limit = 2
  Workers = 1
  MaxClock = 3
SYMMETRY Symmetry
CHECK_DEADLOCK FALSE
INVARIANT ChangesKept
PROPERTY ReplayHolds
PROPERTY RequestsFollowTheirPath
INVARIANT ReaderFollowsHistory
INVARIANT SessionsKeepTheirAccess
PROPERTY RevocationsHold
INVARIANT EventsAreSettledOnce
INVARIANT NoWakeUpLost
