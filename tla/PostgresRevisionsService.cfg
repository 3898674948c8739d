SPECIFICATION Spec
CONSTANTS
  p1 = p1
  r1 = r1
  r2 = r2
  b1 = b1
  c1 = c1
  Projects = {p1}
  Revisions = {r1, r2, r3}
  Baselines = {b1}
  Changes = {c1, c2}
  Keys = {k1}
  Snapshots <- SnapshotSet
  MaxSequence = 3
  Transactions = {t1, t2}
  CallKinds = {"append-revision", "mark-ready", "replace"}
SYMMETRY Symmetry
CHECK_DEADLOCK FALSE
INVARIANT ChangesLeadToLatest
INVARIANT RetriesReplay
PROPERTY ImplementsHistory
