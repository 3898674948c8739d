---------------------------- MODULE DesignReview ----------------------------
(***************************************************************************)
(* What a design revision command of packages/collaboration asks for, and  *)
(* what carrying it out does to a project's revisions and review state.    *)
(* The in-memory and the PostgreSQL repository implement the same command; *)
(* they differ in when they look and in what they hold while they do.      *)
(*                                                                         *)
(* Contents, fingerprints, evidence and provenance are left out: a         *)
(* revision, a baseline and a semantic change are their identifiers.       *)
(***************************************************************************)
EXTENDS Integers, Sequences, FiniteSets

CONSTANTS
  Projects,    \* project identifiers
  Revisions,   \* revision identifiers, unique over all projects
  Baselines,   \* design baseline identifiers
  Changes,     \* semantic change identifiers
  Keys,        \* idempotency keys (scope and key)
  Snapshots,   \* project snapshots a caller may put in a project's place
  MaxSequence  \* bound on the sequence numbers callers give

None == "none"

ASSUME NamesAssumption ==
  None \notin Projects \cup Revisions \cup Baselines \cup Changes \cup Keys
ASSUME SequenceAssumption == MaxSequence \in Nat

Kinds == {"append-revision", "mark-ready", "append-revision-and-mark-ready"}

(* CommitDesignRevisionInput.  parent is expectedParentRevisionId, target  *)
(* the revision the baseline is to pin.                                    *)
Commands ==
  [kind : Kinds, project : Projects,
   revision : Revisions \cup {None}, sequence : 0..MaxSequence,
   parent : Revisions \cup {None}, change : Changes \cup {None},
   baseline : Baselines \cup {None}, target : Revisions \cup {None},
   key : Keys \cup {None}]

WellFormed(cmd) ==
  /\ (cmd.revision = None) <=> (cmd.kind = "mark-ready")
  /\ (cmd.sequence = 0) <=> (cmd.revision = None)
  /\ (cmd.baseline = None) <=> (cmd.kind = "append-revision")
  /\ (cmd.target = None) <=> (cmd.baseline = None)
  /\ cmd.revision = None => cmd.parent = None
  /\ cmd.change # None => cmd.kind = "append-revision"

NoCommand ==
  [kind |-> "mark-ready", project |-> None, revision |-> None,
   sequence |-> 0, parent |-> None, change |-> None, baseline |-> None,
   target |-> None, key |-> None]

(* A caller of appendRevision gives the part of a command it knows of.     *)
Raw == "append"
RawCommands ==
  [kind : {Raw}, project : Projects,
   revision : Revisions, sequence : 1..MaxSequence,
   parent : Revisions \cup {None}, change : {None},
   baseline : {None}, target : {None}, key : {None}]

(* The stored revisions, by identifier; those of no project are not stored. *)
Stored == [project : Projects \cup {None}, sequence : Nat]
Absent == [project |-> None, sequence |-> 0]

ChangeRecords == [id : Changes, before : Revisions, current : Revisions]
ReviewStates ==
  [baseline : Baselines \cup {None}, revision : Revisions \cup {None},
   currency : {"none", "current", "stale"}, changes : Seq(ChangeRecords)]

(* draftDesignReviewState()                                                *)
Draft ==
  [baseline |-> None, revision |-> None, currency |-> "none",
   changes |-> <<>>]

Responses ==
  [revision : Revisions \cup {None}, baseline : Baselines \cup {None},
   recorded : BOOLEAN]
NoResponse == [revision |-> None, baseline |-> None, recorded |-> FALSE]

OfProject(revs, p) == {r \in Revisions : revs[r].project = p}

(* getLatestRevision(): the highest sequence.  The code breaks a tie by    *)
(* the identifier, here by an arbitrary but fixed choice.                  *)
Latest(revs, p) ==
  IF OfProject(revs, p) = {} THEN None
  ELSE CHOOSE r \in OfProject(revs, p) :
         \A q \in OfProject(revs, p) : revs[q].sequence <= revs[r].sequence

SequenceOf(revs, r) == IF r = None THEN 0 ELSE revs[r].sequence

-----------------------------------------------------------------------------
(* The checks of a command, each against what its caller has read.         *)
(* hadBaseline: a command that also marks ready replaces the baseline.     *)
HadBaseline(state, cmd) == state.baseline # None /\ cmd.baseline = None

MetadataFits(state, cmd) ==
  cmd.revision # None =>
    (HadBaseline(state, cmd) <=> cmd.change # None)

IsNext(cmd, before, beforeSequence) ==
  cmd.revision # None =>
    /\ before = cmd.parent
    /\ cmd.sequence = beforeSequence + 1

TargetFits(revs, cmd) ==
  cmd.target # None =>
    cmd.target = cmd.revision \/ revs[cmd.target].project = cmd.project

ChangeIds(state) == {state.changes[i].id : i \in DOMAIN state.changes}

(* What the command does.  before is the revision the caller read as the   *)
(* latest; without one no change can be recorded.                          *)
WithRevision(revs, cmd) ==
  IF cmd.revision = None THEN revs
  ELSE [revs EXCEPT ![cmd.revision] =
          [project |-> cmd.project, sequence |-> cmd.sequence]]

Ready(b, r) ==
  [baseline |-> b, revision |-> r, currency |-> "current", changes |-> <<>>]

WithChange(state, cmd, before) ==
  [state EXCEPT !.currency = "stale",
     !.changes = Append(@, [id |-> cmd.change, before |-> before,
                            current |-> cmd.revision])]

Reviewed(state, cmd, before) ==
  IF cmd.baseline # None THEN Ready(cmd.baseline, cmd.target)
  ELSE IF HadBaseline(state, cmd) /\ cmd.change # None /\ before # None
       THEN WithChange(state, cmd, before)
       ELSE state

Response(state, cmd) ==
  [revision |-> cmd.revision, baseline |-> cmd.baseline,
   recorded |-> HadBaseline(state, cmd)]

Answered(responses, state, cmd) ==
  IF cmd.key = None THEN responses
  ELSE [responses EXCEPT ![cmd.key] = Response(state, cmd)]

-----------------------------------------------------------------------------
(* What validateDesignReviewState accepts: a draft without a baseline, a   *)
(* current one without changes, or a stale one with them.                  *)
ValidReview(state) ==
  IF state.baseline = None THEN state = Draft
  ELSE /\ state.revision # None
       /\ \/ state.currency = "current" /\ state.changes = <<>>
          \/ state.currency = "stale" /\ state.changes # <<>>

(* What validateCollaborationSnapshot accepts.  It does not ask for        *)
(* sequences without gaps, nor for the baseline's revision to be there.    *)
ValidSnapshot(s) ==
  /\ s.sequences \in [DOMAIN s.sequences -> 1..MaxSequence]
  /\ DOMAIN s.sequences \subseteq Revisions
  /\ IsFiniteSet(DOMAIN s.sequences)
  /\ s.review \in ReviewStates /\ ValidReview(s.review)

ASSUME SnapshotsAssumption == \A s \in Snapshots : ValidSnapshot(s)

Cleared(revs, p) ==
  [r \in Revisions |-> IF revs[r].project = p THEN Absent ELSE revs[r]]

(* The snapshot's revisions are inserted.                                  *)
Restored(revs, p, s) ==
  [r \in Revisions |->
     IF r \in DOMAIN s.sequences
     THEN [project |-> p, sequence |-> s.sequences[r]] ELSE revs[r]]

(* replaceProject(): the snapshot's revisions instead of the project's.    *)
Replaced(revs, p, s) == Restored(Cleared(revs, p), p, s)

(* A semantic change's identifier is unique, also within a snapshot.       *)
ListedOnce(state) ==
  \A i, j \in DOMAIN state.changes :
    state.changes[i].id = state.changes[j].id => i = j

(* A snapshot may not take over an identifier of another project, nor a    *)
(* semantic change or a baseline that another project holds.               *)
MayReplace(revs, review, p, s) ==
  /\ ListedOnce(s.review)
  /\ \A r \in DOMAIN s.sequences : revs[r].project \in {p, None}
  /\ \A q \in Projects \ {p} :
       ChangeIds(review[q]) \cap ChangeIds(s.review) = {}
=============================================================================
