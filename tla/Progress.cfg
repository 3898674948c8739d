SPECIFICATION PartsSpec
CONSTANTS
  Owners = {o1}
  EffectCalls = {c1, c2}
  Observers = {}
  MaxConcurrentEffects = 2
  MaxConcurrentEffectsPerOwner = 2
  MaxTime = 1
  Nobody = Nobody
  Emits = {e1, e2, e3}
  PageSize = 2
  MaxPending = 2
  MaxCloses = 1
  Refreshes = {1, 2}
  MaxTicket = 1
  AgentRequests = {q1, q2}
  Timed = {q1}
  DesignerRequests = {d1}
  MaxRevisions = 3
  MaxGraph = 1
  MaxQueued = 1
CHECK_DEADLOCK FALSE
PROPERTY DeadlineAnswered
PROPERTY ToldReceived
PROPERTY RefreshesEnd
PROPERTY RequestsSettle
PROPERTY RequestsEnd
