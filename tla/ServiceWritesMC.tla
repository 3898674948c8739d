--------------------------- MODULE ServiceWritesMC --------------------------
EXTENDS ServiceWrites, TLC

Symmetry ==
  Permutations(Keys) \cup Permutations(Attempts) \cup Permutations(Processes)
=============================================================================
