--------------------------- MODULE HostEffectsMC ---------------------------
(* Finite instances of HostEffects for TLC.                                *)
EXTENDS HostEffects, TLC

(* Calls are interchangeable, and so are owners.                           *)
Symmetry == Permutations(Calls) \cup Permutations(Owners)
=============================================================================
