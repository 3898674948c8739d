--------------------------- MODULE RevisionHistory --------------------------
(***************************************************************************)
(* What CollaborationRepository promises of design revisions: a command    *)
(* takes effect in one step, on the state of that step, or not at all; an  *)
(* idempotency key answers at most one command; a project's history grows  *)
(* by one revision at its end and is otherwise only replaced as a whole.   *)
(***************************************************************************)
EXTENDS DesignReview

VARIABLES
  projects,    \* the projects that exist
  revisions,   \* the stored revisions
  review,      \* each project's design review state
  responses    \* the stored response of each idempotency key

vars == <<projects, revisions, review, responses>>

Init ==
  /\ projects = {}
  /\ revisions = [r \in Revisions |-> Absent]
  /\ review = [p \in Projects |-> Draft]
  /\ responses = [k \in Keys |-> NoResponse]

CreateProject(p) ==
  /\ p \notin projects
  /\ projects' = projects \cup {p}
  /\ UNCHANGED <<revisions, review, responses>>

(* The command that appends r at the end of p's history, marks a baseline  *)
(* of target ready, or does both.                                          *)
Command(p, r, change, b, target, key) ==
  LET before == Latest(revisions, p) IN
  [kind |-> IF r = None THEN "mark-ready"
            ELSE IF b = None THEN "append-revision"
            ELSE "append-revision-and-mark-ready",
   project |-> p, revision |-> r,
   sequence |-> IF r = None THEN 0 ELSE SequenceOf(revisions, before) + 1,
   parent |-> IF r = None THEN None ELSE before,
   change |-> change, baseline |-> b, target |-> target, key |-> key]

(* commitDesignRevision()                                                  *)
Commit(cmd) ==
  LET p == cmd.project IN
  /\ p \in projects
  /\ cmd.key # None => responses[cmd.key] = NoResponse
  /\ cmd.revision # None => revisions[cmd.revision] = Absent
  /\ MetadataFits(review[p], cmd)
  /\ TargetFits(revisions, cmd)
  /\ \A q \in Projects : cmd.change \notin ChangeIds(review[q])
  /\ \A q \in Projects :
       cmd.baseline # None => review[q].baseline # cmd.baseline
  /\ revisions' = WithRevision(revisions, cmd)
  /\ review' = [review EXCEPT ![p] = Reviewed(@, cmd, Latest(revisions, p))]
  /\ responses' = Answered(responses, review[p], cmd)
  /\ UNCHANGED projects

(* appendRevision(): the design review state is not looked at.             *)
AppendRevision(p, r) ==
  /\ p \in projects
  /\ revisions[r] = Absent
  /\ revisions' = [revisions EXCEPT ![r] =
       [project |-> p,
        sequence |-> SequenceOf(revisions, Latest(revisions, p)) + 1]]
  /\ UNCHANGED <<projects, review, responses>>

(* replaceProject(): the sync of a project the caller may just have made.  *)
ReplaceProject(p, s) ==
  /\ MayReplace(revisions, review, p, s)
  /\ projects' = projects \cup {p}
  /\ revisions' = Replaced(revisions, p, s)
  /\ review' = [review EXCEPT ![p] = s.review]
  /\ UNCHANGED responses

DeleteProject(p) ==
  /\ p \in projects
  /\ projects' = projects \ {p}
  /\ revisions' = Cleared(revisions, p)
  /\ review' = [review EXCEPT ![p] = Draft]
  /\ UNCHANGED responses

AppendDesign(p, r, change, key) ==
  Commit(Command(p, r, change, None, None, key))

MarkReady(p, b, target, key) ==
  Commit(Command(p, None, None, b, target, key))

AppendAndMarkReady(p, r, b, target, key) ==
  Commit(Command(p, r, None, b, target, key))

Next ==
  \E p \in Projects :
    \/ CreateProject(p) \/ DeleteProject(p)
    \/ \E s \in Snapshots : ReplaceProject(p, s)
    \/ \E r \in Revisions : AppendRevision(p, r)
    \/ \E key \in Keys \cup {None} :
         \/ \E r \in Revisions, change \in Changes \cup {None} :
              AppendDesign(p, r, change, key)
         \/ \E b \in Baselines, target \in Revisions :
              \/ MarkReady(p, b, target, key)
              \/ \E r \in Revisions : AppendAndMarkReady(p, r, b, target, key)

Spec == Init /\ [][Next]_vars
=============================================================================
