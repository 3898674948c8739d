-------------------------- MODULE MemoryRevisionsMC -------------------------
(* A project's history as another client may hold it: nothing, one         *)
(* revision, or two with a baseline that the second has made stale; or one *)
(* that no repository takes, which lists a change twice.                   *)
EXTENDS MemoryRevisions, TLC

CONSTANTS r1, r2, b1, c1

Change == [id |-> c1, before |-> r1, current |-> r2]
Stale(changes) ==
  [sequences |-> r1 :> 1 @@ r2 :> 2,
   review |-> [Ready(b1, r1) EXCEPT !.currency = "stale",
                                    !.changes = changes]]

SnapshotSet ==
  {[sequences |-> <<>>, review |-> Draft],
   [sequences |-> r1 :> 1, review |-> Ready(b1, r1)],
   Stale(<<Change>>), Stale(<<Change, Change>>)}

Symmetry == Permutations(Calls)
=============================================================================
