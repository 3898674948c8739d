------------------------- MODULE DesignReviewProofs -------------------------
(***************************************************************************)
(* Lemmas about the operators both repositories are built from: histories  *)
(* and their latest revision, review states and their changes, commands.   *)
(***************************************************************************)
EXTENDS DesignReview, WellFoundedInduction, FiniteSetTheorems, TLAPS

(* The least-number principle, for any set of naturals.                    *)
LEMMA LeastOf ==
  ASSUME NEW T \in SUBSET Nat, T # {}
  PROVE  \E x \in T : \A y \in T : x <= y
<1>1. PICK x \in T : \A y \in T : <<y, x>> \notin OpToRel(<, Nat)
  BY WFMin, NatLessThanWellFounded
<1>2. \A y \in T : ~(y < x)
  BY <1>1 DEF OpToRel
<1> QED BY <1>2

LEMMA GreatestOf ==
  ASSUME NEW n \in Nat, NEW T \in SUBSET (0..n), T # {}
  PROVE  \E x \in T : \A y \in T : y <= x
<1> DEFINE U == {n - x : x \in T}
<1>1. U \in SUBSET Nat /\ U # {}
  <2>1. \A x \in T : n - x \in Nat
    OBVIOUS
  <2> QED BY <2>1
<1>2. PICK u \in U : \A v \in U : u <= v
  BY <1>1, LeastOf
<1>3. PICK x \in T : u = n - x
  BY <1>2
<1>4. \A y \in T : n - x <= n - y
  BY <1>2, <1>3
<1> QED BY <1>4

(* A project that has revisions has a latest one.                          *)
LEMMA LatestOf ==
  ASSUME NEW revs \in [Revisions -> Stored], NEW p, NEW n \in Nat,
         OfProject(revs, p) # {},
         \A r \in OfProject(revs, p) : revs[r].sequence <= n
  PROVE  /\ Latest(revs, p) \in OfProject(revs, p)
         /\ \A r \in OfProject(revs, p) :
              revs[r].sequence <= revs[Latest(revs, p)].sequence
<1> DEFINE own == OfProject(revs, p)
           T == {revs[r].sequence : r \in own}
<1>1. T \in SUBSET (0..n) /\ T # {}
  <2>1. \A r \in own : revs[r].sequence \in 0..n
    BY DEF OfProject, Stored
  <2> QED BY <2>1
<1>2. PICK x \in T : \A y \in T : y <= x
  BY <1>1, GreatestOf
<1>3. PICK r \in own : x = revs[r].sequence
  BY <1>2
<1>4. \A q \in own : revs[q].sequence <= revs[r].sequence
  BY <1>2, <1>3
<1> QED BY <1>4 DEF Latest

LEMMA LatestIsStored ==
  ASSUME NEW revs \in [Revisions -> Stored], NEW p,
         \A r \in Revisions : revs[r].sequence <= MaxSequence
  PROVE  /\ Latest(revs, p) \in Revisions \cup {None}
         /\ SequenceOf(revs, Latest(revs, p)) \in Nat
<1>1. CASE OfProject(revs, p) = {}
  BY <1>1 DEF Latest, SequenceOf
<1>2. CASE OfProject(revs, p) # {}
  <2>1. Latest(revs, p) \in OfProject(revs, p)
    BY <1>2, LatestOf, SequenceAssumption DEF OfProject
  <2>2. Latest(revs, p) \in Revisions
    BY <2>1 DEF OfProject
  <2> QED BY <2>2, NamesAssumption DEF SequenceOf, Stored
<1> QED BY <1>1, <1>2

LEMMA RawFields ==
  ASSUME NEW cmd \in RawCommands
  PROVE  /\ cmd.kind = Raw /\ cmd.project \in Projects
         /\ cmd.revision \in Revisions /\ cmd.sequence \in 1..MaxSequence
         /\ cmd.parent \in Revisions \cup {None}
         /\ cmd.change = None /\ cmd.baseline = None /\ cmd.target = None
         /\ cmd.key = None
BY DEF RawCommands

(* What a command makes of well-formed records is well-formed.             *)
LEMMA ReviewedTyped ==
  ASSUME NEW state \in ReviewStates, NEW cmd \in Commands, WellFormed(cmd),
         NEW before \in Revisions \cup {None}
  PROVE  Reviewed(state, cmd, before) \in ReviewStates
<1>1. CASE cmd.baseline # None
  <2>1. cmd.target # None
    BY <1>1 DEF WellFormed
  <2>2. Reviewed(state, cmd, before) = Ready(cmd.baseline, cmd.target)
    BY <1>1 DEF Reviewed
  <2> QED BY <2>1, <2>2 DEF Ready, ReviewStates, Commands
<1>2. CASE /\ cmd.baseline = None /\ HadBaseline(state, cmd)
           /\ cmd.change # None /\ before # None
  <2> DEFINE change == [id |-> cmd.change, before |-> before,
                        current |-> cmd.revision]
  <2>1. cmd.revision # None
    BY <1>2 DEF WellFormed
  <2>2. change \in ChangeRecords
    BY <1>2, <2>1 DEF ChangeRecords, Commands
  <2>3. Reviewed(state, cmd, before) = WithChange(state, cmd, before)
    BY <1>2 DEF Reviewed
  <2>4. WithChange(state, cmd, before) =
          [state EXCEPT !.currency = "stale",
                        !.changes = Append(state.changes, change)]
    BY DEF WithChange
  <2>5. state.changes \in Seq(ChangeRecords)
    BY DEF ReviewStates
  <2> HIDE DEF change
  <2>6. Append(state.changes, change) \in Seq(ChangeRecords)
    BY <2>2, <2>5
  <2> QED BY <2>3, <2>4, <2>6 DEF ReviewStates
<1>3. CASE /\ cmd.baseline = None
           /\ ~(HadBaseline(state, cmd) /\ cmd.change # None /\ before # None)
  BY <1>3 DEF Reviewed
<1> QED BY <1>1, <1>2, <1>3

LEMMA StoredTyped ==
  ASSUME NEW revs \in [Revisions -> Stored], NEW cmd,
         cmd.project \in Projects, cmd.revision \in Revisions \cup {None},
         cmd.sequence \in 0..MaxSequence,
         \A r \in Revisions : revs[r].sequence <= MaxSequence
  PROVE  /\ WithRevision(revs, cmd) \in [Revisions -> Stored]
         /\ \A r \in Revisions :
              WithRevision(revs, cmd)[r].sequence <= MaxSequence
<1>1. CASE cmd.revision = None
  BY <1>1 DEF WithRevision
<1>2. CASE cmd.revision # None
  <2> DEFINE new == [project |-> cmd.project, sequence |-> cmd.sequence]
  <2>1. new \in Stored /\ new.sequence <= MaxSequence
    BY SequenceAssumption DEF Stored
  <2>2. WithRevision(revs, cmd) = [revs EXCEPT ![cmd.revision] = new]
    BY <1>2 DEF WithRevision
  <2> HIDE DEF new
  <2> QED BY <1>2, <2>1, <2>2
<1> QED BY <1>1, <1>2

LEMMA ReplacedTyped ==
  ASSUME NEW revs \in [Revisions -> Stored], NEW p \in Projects,
         NEW s \in Snapshots,
         \A r \in Revisions : revs[r].sequence <= MaxSequence
  PROVE  /\ Cleared(revs, p) \in [Revisions -> Stored]
         /\ \A r \in Revisions : Cleared(revs, p)[r].sequence <= MaxSequence
         /\ Replaced(revs, p, s) \in [Revisions -> Stored]
         /\ \A r \in Revisions :
              Replaced(revs, p, s)[r].sequence <= MaxSequence
         /\ s.review \in ReviewStates
<1>1. Absent \in Stored /\ Absent.sequence <= MaxSequence
  BY SequenceAssumption DEF Absent, Stored
<1>2. /\ Cleared(revs, p) \in [Revisions -> Stored]
      /\ \A r \in Revisions : Cleared(revs, p)[r].sequence <= MaxSequence
  BY <1>1 DEF Cleared
<1>3. ValidSnapshot(s)
  BY SnapshotsAssumption
<1>4. \A r \in DOMAIN s.sequences :
        LET new == [project |-> p, sequence |-> s.sequences[r]] IN
        new \in Stored /\ new.sequence <= MaxSequence
  BY <1>3, SequenceAssumption DEF ValidSnapshot, Stored
<1> DEFINE c == Cleared(revs, p)
<1> HIDE DEF c
<1>5. \A r \in Revisions :
        /\ Restored(c, p, s)[r] \in Stored
        /\ Restored(c, p, s)[r].sequence <= MaxSequence
  BY <1>2, <1>4 DEF Restored, c
<1>6. Restored(c, p, s) \in [Revisions -> Stored]
  BY <1>5 DEF Restored
<1> QED BY <1>2, <1>3, <1>5, <1>6 DEF Replaced, ValidSnapshot, c

LEMMA AnsweredTyped ==
  ASSUME NEW resps \in [Keys -> Responses], NEW state \in ReviewStates,
         NEW cmd \in Commands
  PROVE  Answered(resps, state, cmd) \in [Keys -> Responses]
<1>1. Response(state, cmd) \in Responses
  BY DEF Response, Responses, Commands, HadBaseline
<1>2. cmd.key \in Keys \cup {None}
  BY DEF Commands
<1> QED BY <1>1, <1>2 DEF Answered

LEMMA IdsAreChanges ==
  ASSUME NEW state \in ReviewStates
  PROVE  ChangeIds(state) \subseteq Changes
<1>1. state.changes \in Seq(ChangeRecords)
  BY DEF ReviewStates
<1>2. \A i \in DOMAIN state.changes : state.changes[i] \in ChangeRecords
  BY <1>1
<1> QED BY <1>2 DEF ChangeIds, ChangeRecords

(* The only change a command records is its own.                           *)
LEMMA ReviewedLists ==
  ASSUME NEW state \in ReviewStates, NEW cmd \in Commands, WellFormed(cmd),
         NEW before \in Revisions \cup {None},
         NEW ids, ChangeIds(state) \subseteq ids, cmd.change \notin ids,
         ListedOnce(state), NEW next, next = Reviewed(state, cmd, before)
  PROVE  /\ ChangeIds(next) \subseteq ChangeIds(state) \cup {cmd.change}
         /\ ListedOnce(next)
<1>1. CASE cmd.baseline # None
  <2>1. next.changes = <<>>
    BY <1>1 DEF Reviewed, Ready
  <2>2. DOMAIN next.changes = {}
    BY <2>1
  <2> QED BY <2>2 DEF ChangeIds, ListedOnce
<1>2. CASE /\ cmd.baseline = None /\ HadBaseline(state, cmd)
           /\ cmd.change # None /\ before # None
  <2> DEFINE change == [id |-> cmd.change, before |-> before,
                        current |-> cmd.revision]
             listed == Append(state.changes, change)
  <2>1. next.changes = listed
    BY <1>2 DEF Reviewed, WithChange, ReviewStates
  <2>2. state.changes \in Seq(ChangeRecords)
    BY DEF ReviewStates
  <2>3. cmd.revision # None
    BY <1>2 DEF WellFormed
  <2>4. change \in ChangeRecords /\ change.id = cmd.change
    BY <1>2, <2>3 DEF ChangeRecords, Commands
  <2> HIDE DEF change
  <2> DEFINE n == Len(state.changes)
  <2>5. /\ n \in Nat /\ DOMAIN state.changes = 1..n
        /\ DOMAIN listed = 1..(n + 1) /\ listed[n + 1] = change
        /\ \A i \in 1..n : listed[i] = state.changes[i]
    BY <2>2, <2>4
  <2> HIDE DEF listed, n
  <2>6. \A i \in 1..n : listed[i].id \in ChangeIds(state)
    BY <2>5 DEF ChangeIds
  <2>7. \A i \in 1..n : listed[i].id # cmd.change
    BY <2>6
  <2>8. \A i \in DOMAIN listed : i \in 1..n \/ i = n + 1
    BY <2>5
  <2>9. ChangeIds(next) \subseteq ChangeIds(state) \cup {cmd.change}
    BY <2>1, <2>4, <2>5, <2>6, <2>8 DEF ChangeIds
  <2>10. \A i, j \in 1..n : listed[i].id = listed[j].id => i = j
    BY <2>5 DEF ListedOnce
  <2>11. ListedOnce(next)
    BY <2>1, <2>4, <2>5, <2>7, <2>8, <2>10 DEF ListedOnce
  <2> QED BY <2>9, <2>11
<1>3. CASE /\ cmd.baseline = None
           /\ ~(HadBaseline(state, cmd) /\ cmd.change # None /\ before # None)
  BY <1>3 DEF Reviewed
<1> QED BY <1>1, <1>2, <1>3

LEMMA DraftListsNothing ==
  ChangeIds(Draft) = {} /\ ListedOnce(Draft) /\ Draft \in ReviewStates
<1>1. Draft.changes = <<>>
  BY DEF Draft
<1>2. DOMAIN Draft.changes = {}
  BY <1>1
<1>3. Draft.changes \in Seq(ChangeRecords)
  BY <1>1
<1>4. Draft \in ReviewStates
  BY <1>3 DEF Draft, ReviewStates
<1> QED BY <1>2, <1>4 DEF ChangeIds, ListedOnce

(* As many identifiers as changes, when none is listed twice.              *)
LEMMA EachListedOnce ==
  ASSUME NEW state \in ReviewStates, ListedOnce(state)
  PROVE  Cardinality(ChangeIds(state)) = Len(state.changes)
<1> DEFINE n == Len(state.changes)
           ids == ChangeIds(state)
           f == [i \in 1..n |-> state.changes[i].id]
<1>1. n \in Nat /\ DOMAIN state.changes = 1..n
  BY DEF ReviewStates
<1>2. f \in [1..n -> ids]
  BY <1>1 DEF ChangeIds
<1>3. \A i, j \in 1..n : f[i] = f[j] => i = j
  BY <1>1 DEF ListedOnce
<1>4. \A x \in ids : \E i \in 1..n : f[i] = x
  BY <1>1 DEF ChangeIds
<1> HIDE DEF f, ids, n
<1>5. f \in Bijection(1..n, ids)
  BY <1>2, <1>3, <1>4 DEF Bijection, Injection, Surjection, IsInjective
<1>6. ExistsBijection(1..n, ids)
  BY <1>5 DEF ExistsBijection
<1>7. Cardinality(1..n) = n /\ IsFiniteSet(1..n)
  BY <1>1, FS_Interval
<1> QED BY <1>6, <1>7, FS_Bijection DEF ids, n

(* A command that follows the latest revision is one of RevisionHistory's. *)
LEMMA CommandIsNext ==
  ASSUME NEW cmd \in Commands, WellFormed(cmd), NEW revs,
         LET before == Latest(revs, cmd.project) IN
         IsNext(cmd, before, SequenceOf(revs, before))
  PROVE  /\ cmd.kind = "append-revision" =>
              /\ cmd.revision \in Revisions
              /\ cmd = [kind |-> "append-revision", project |-> cmd.project,
                        revision |-> cmd.revision,
                        sequence |->
                          SequenceOf(revs, Latest(revs, cmd.project)) + 1,
                        parent |-> Latest(revs, cmd.project),
                        change |-> cmd.change, baseline |-> None,
                        target |-> None, key |-> cmd.key]
         /\ cmd.kind = "mark-ready" =>
              /\ cmd.baseline \in Baselines /\ cmd.target \in Revisions
              /\ cmd = [kind |-> "mark-ready", project |-> cmd.project,
                        revision |-> None, sequence |-> 0, parent |-> None,
                        change |-> None, baseline |-> cmd.baseline,
                        target |-> cmd.target, key |-> cmd.key]
         /\ cmd.kind = "append-revision-and-mark-ready" =>
              /\ cmd.revision \in Revisions
              /\ cmd.baseline \in Baselines /\ cmd.target \in Revisions
              /\ cmd = [kind |-> "append-revision-and-mark-ready",
                        project |-> cmd.project, revision |-> cmd.revision,
                        sequence |->
                          SequenceOf(revs, Latest(revs, cmd.project)) + 1,
                        parent |-> Latest(revs, cmd.project),
                        change |-> None, baseline |-> cmd.baseline,
                        target |-> cmd.target, key |-> cmd.key]
<1>1. cmd \in Commands /\ WellFormed(cmd)
  OBVIOUS
<1>2. cmd = [kind |-> cmd.kind, project |-> cmd.project,
             revision |-> cmd.revision, sequence |-> cmd.sequence,
             parent |-> cmd.parent, change |-> cmd.change,
             baseline |-> cmd.baseline, target |-> cmd.target,
             key |-> cmd.key]
  BY <1>1 DEF Commands
<1>3. cmd.revision # None =>
        /\ cmd.parent = Latest(revs, cmd.project)
        /\ cmd.sequence = SequenceOf(revs, Latest(revs, cmd.project)) + 1
  BY DEF IsNext
<1>4. CASE cmd.kind = "append-revision"
  <2>1. /\ cmd.revision # None /\ cmd.revision \in Revisions
        /\ cmd.baseline = None /\ cmd.target = None
    BY <1>1, <1>4 DEF WellFormed, Commands
  <2> QED BY <1>2, <1>3, <1>4, <2>1
<1>5. CASE cmd.kind = "mark-ready"
  <2>1. /\ cmd.revision = None /\ cmd.sequence = 0 /\ cmd.parent = None
        /\ cmd.change = None /\ cmd.baseline \in Baselines
        /\ cmd.target \in Revisions
    BY <1>1, <1>5 DEF WellFormed, Commands
  <2> QED BY <1>2, <1>5, <2>1
<1>6. CASE cmd.kind = "append-revision-and-mark-ready"
  <2>1. /\ cmd.revision # None /\ cmd.revision \in Revisions
        /\ cmd.change = None /\ cmd.baseline \in Baselines
        /\ cmd.target \in Revisions
    BY <1>1, <1>6 DEF WellFormed, Commands
  <2> QED BY <1>2, <1>3, <1>6, <2>1
<1> QED BY <1>1, <1>4, <1>5, <1>6 DEF Commands, Kinds
=============================================================================
