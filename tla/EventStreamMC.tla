---------------------------- MODULE EventStreamMC ---------------------------
EXTENDS EventStream, TLC

Symmetry == Permutations(Emits)
=============================================================================
