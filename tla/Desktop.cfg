SPECIFICATION PartsSpec
CONSTANTS
  Keys = {"k1", "k2"}
  Attempts = {"a1", "a2", "a3"}
  Processes = {"x1", "x2"}
  Used = {"create", "append", "ready", "import", "sync"}
  Nobody = Nobody
  BuildKeys = {b1, b2}
  Callers = {1, 2, 3}
  Retained = 1
  Refreshes = {1, 2}
  MaxTicket = 1
  AgentRequests = {q1, q2}
  Timed = {q1}
  Requests = {d1}
  MaxRevisions = 3
  MaxGraph = 2
  MaxQueued = 1
  Reports = {p1}
  Kept = 1
  MaxEvents = 2
  MaxOperations = 1
  Publications = {c1, c2}
  MaxContent = 2
  MaxConsents = 2
  Stories = {s1, s2}
  Catalogs = {1, 2}
  Viewers = {v1}
  Builds = {1, 2}
  Maximum = 2
  MaxIssued = 3
  Capabilities = {k3, k4}
  Settings = {y1, y2}
  AllRound = {k3}
  Edits = {"text", "remove", "duplicate", "layout", "appearance", "position", "structure", "insert", "replace", "property"}
  FewEdits = {"text", "structure"}
  MaxEdited = 4
  MaxMints = 2
  Journal = 2
  Projects = {p2, p3}
  LocalCallers = {l1, l2}
  KindsUsed = {"open", "storeGuidance", "removeGuidance", "commitGraph",
    "saveDesign", "commitDesign", "autosave", "recoverAutosave",
    "discardAutosave", "restoreVersion", "undo", "archive", "restore",
    "create", "duplicate", "import", "configure"}
  MaxVersions = 2
  MaxEntries = 1
  Broken = Broken
CHECK_DEADLOCK FALSE
INVARIANT SharedBuildSurvives
PROPERTY NewestIsShown
PROPERTY NoBuildAfterClose
INVARIANT CancelledNeverCompletes
PROPERTY HistoryOnlyGrows
INVARIANT SessionIsSound
INVARIANT ErasuresLast
PROPERTY DeliveredOnce
INVARIANT ConsentCoversPublish
PROPERTY ReceiptIsTrue
PROPERTY ShownIsWanted
INVARIANT AppliedOnce
INVARIANT ResponseStands
INVARIANT EditsTakeEffectOnce
PROPERTY ChangesBuildOnTheLatest
INVARIANT NobodyWaitsInVain
