SPECIFICATION Spec
CONSTANTS
  Projects = {p1, p2}
  Callers = {c1, c2}
  KindsUsed = {"create", "import", "open", "autosave"}
  MaxVersions = 2
  MaxEntries = 2
  Broken = Broken
  None = None
CHECK_DEADLOCK FALSE
PROPERTY RejectedImportsChangeNothing
