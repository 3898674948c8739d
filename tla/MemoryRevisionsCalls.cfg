SPECIFICATION Spec
CONSTANTS
  p1 = p1
  r1 = r1
  r2 = r2
  b1 = b1
  c1 = c1
  Projects = {p1, p2}
  Revisions = {r1, r2}
  Baselines = {b1}
  Changes = {c1}
  Keys = {k1}
  Snapshots <- SnapshotSet
  MaxSequence = 2
  Calls = {a1, a2}
  CallKinds = {"append-revision", "mark-ready", "append"}
SYMMETRY Symmetry
CHECK_DEADLOCK FALSE
INVARIANT ChangesRecordedOnce
PROPERTY ImplementsHistory
