------------------------- MODULE PostgresRevisionsMC ------------------------
(* A project's history as another client may hold it: nothing, one         *)
(* revision, or two with a baseline that the second has made stale.        *)
EXTENDS PostgresRevisions, TLC

CONSTANTS r1, r2, b1, c1

SnapshotSet ==
  {[sequences |-> <<>>, review |-> Draft],
   [sequences |-> r1 :> 1, review |-> Ready(b1, r1)],
   [sequences |-> r1 :> 1 @@ r2 :> 2,
    review |-> [Ready(b1, r1) EXCEPT
      !.currency = "stale",
      !.changes = <<[id |-> c1, before |-> r1, current |-> r2]>>]]}

(* The same histories without baselines.                                   *)
PlainSnapshotSet ==
  {[sequences |-> s.sequences, review |-> Draft] : s \in SnapshotSet}

Symmetry == Permutations(Transactions)
=============================================================================
