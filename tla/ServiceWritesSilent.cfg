SPECIFICATION Spec
CONSTANTS
  Keys = {k1}
  Attempts = {a1, a2}
  Processes = {p1}
  Used = {"append"}
SYMMETRY Symmetry
CHECK_DEADLOCK FALSE
INVARIANT SuccessMeansEvent
