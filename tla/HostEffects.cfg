\* Three calls over two owners, two of which may run beside each other, and
\* someone who waits for an owner to be idle.  It stops when every call has
\* been made.
SPECIFICATION Spec
CONSTANTS
  Owners = {o1, o2}
  Calls = {c1, c2, c3}
  Observers = {w1}
  MaxConcurrentEffects = 2
  MaxConcurrentEffectsPerOwner = 2
  MaxTime = 1
SYMMETRY Symmetry
INVARIANT OldEffectsContained
INVARIANT WokenWhenDrained
INVARIANT AnswerIsDue
PROPERTY ImplementsAdmission
CHECK_DEADLOCK FALSE
