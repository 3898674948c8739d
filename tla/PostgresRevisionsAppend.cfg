SPECIFICATION FairSpec
CONSTANTS
  p1 = p1
  r1 = r1
  r2 = r2
  b1 = b1
  c1 = c1
  Projects = {p1}
  Revisions = {r1, r2, r3}
  Baselines = {b1}
  Changes = {}
  Keys = {}
  Snapshots <- PlainSnapshotSet
  MaxSequence = 2
  Transactions = {t1, t2}
  CallKinds = {"append", "append-revision", "replace"}
CHECK_DEADLOCK FALSE
PROPERTY AppendsAtLatest
PROPERTY CallsEnd
