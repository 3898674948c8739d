--------------------------- MODULE MemoryRevisions --------------------------
(***************************************************************************)
(* The in-memory collaboration repository of packages/collaboration, as    *)
(* far as design revisions go.  Its methods are asynchronous functions     *)
(* over ordinary maps: each runs without interruption up to its first      *)
(* `await`.  appendRevision and commitDesignRevision have one, at          *)
(* `await this.getLatestRevision(...)`: what they read before it may have  *)
(* changed when they go on.  All other methods are one step.               *)
(***************************************************************************)
EXTENDS DesignReview

CONSTANTS
  Calls,        \* calls of appendRevision and commitDesignRevision
  CallKinds     \* the methods and kinds callers use: of Kinds and Raw

VARIABLES
  projects,
  revisions,
  review,
  semanticChanges,  \* the identifiers of all semantic changes recorded
  responses,        \* the idempotency map
  call,             \* each call's progress, command and what it has read
  awaited           \* whether callers await each call before the next

store == <<projects, revisions, review, semanticChanges, responses>>
vars == <<store, call, awaited>>

(* Callers mark the revision ready that they append.                       *)
CallCommands ==
  {cmd \in Commands : /\ WellFormed(cmd)
                      /\ cmd.kind \in CallKinds
                      /\ cmd.revision # None =>
                           cmd.target \in {None, cmd.revision}}
  \cup IF Raw \in CallKinds THEN RawCommands ELSE {}

Progress(state) ==
  [state |-> state, cmd |-> NoCommand, before |-> None, beforeSequence |-> 0]
CallStates ==
  [state : {"idle", "waiting", "refused", "committed", "replayed"},
   cmd : Commands \cup RawCommands \cup {NoCommand},
   before : Revisions \cup {None}, beforeSequence : Nat]

TypeOK ==
  /\ projects \subseteq Projects
  /\ revisions \in [Revisions -> Stored]
  /\ review \in [Projects -> ReviewStates]
  /\ semanticChanges \subseteq Changes
  /\ responses \in [Keys -> Responses]
  /\ call \in [Calls -> CallStates]
  /\ awaited \in BOOLEAN

Init ==
  /\ projects = {}
  /\ revisions = [r \in Revisions |-> Absent]
  /\ review = [p \in Projects |-> Draft]
  /\ semanticChanges = {}
  /\ responses = [k \in Keys |-> NoResponse]
  /\ call = [c \in Calls |-> Progress("idle")]
  /\ awaited \in BOOLEAN

(* Another method may run, between the two parts of a call too unless the  *)
(* callers await each call.                                                *)
MayRun == awaited => \A c \in Calls : call[c].state # "waiting"

CreateProject(p) ==
  /\ MayRun
  /\ p \notin projects
  /\ projects' = projects \cup {p}
  /\ UNCHANGED <<revisions, review, semanticChanges, responses, call, awaited>>

(* replaceProject(): the maps are swapped in one stretch of code.  A       *)
(* snapshot's change may not be recorded already, under another state or   *)
(* by the snapshot itself.                                                 *)
ReplaceProject(p, s) ==
  LET others == semanticChanges \ ChangeIds(review[p]) IN
  /\ MayRun
  /\ \A r \in DOMAIN s.sequences : revisions[r].project \in {p, None}
  /\ others \cap ChangeIds(s.review) = {} /\ ListedOnce(s.review)
  /\ projects' = projects \cup {p}
  /\ revisions' = Replaced(revisions, p, s)
  /\ review' = [review EXCEPT ![p] = s.review]
  /\ semanticChanges' = others \cup ChangeIds(s.review)
  /\ UNCHANGED <<responses, call, awaited>>

(* deleteProject(): clearProject.                                          *)
DeleteProject(p) ==
  /\ MayRun
  /\ p \in projects
  /\ projects' = projects \ {p}
  /\ revisions' = Cleared(revisions, p)
  /\ review' = [review EXCEPT ![p] = Draft]
  /\ semanticChanges' = semanticChanges \ ChangeIds(review[p])
  /\ UNCHANGED <<responses, call, awaited>>

-----------------------------------------------------------------------------
(* A call that has ended keeps nothing but how it ended.                   *)
Ended(c, state) ==
  /\ call' = [call EXCEPT ![c] = Progress(state)]
  /\ UNCHANGED awaited

(* `await this.getLatestRevision(...)`                                     *)
Awaits(c, cmd) ==
  LET before == Latest(revisions, cmd.project) IN
  /\ call' = [call EXCEPT ![c] =
       [state |-> "waiting", cmd |-> cmd, before |-> before,
        beforeSequence |-> SequenceOf(revisions, before)]]
  /\ UNCHANGED awaited

Replays(cmd) == cmd.key # None /\ responses[cmd.key] # NoResponse

(* What a call checks before it waits.                                     *)
Begins(cmd) ==
  /\ cmd.project \in projects
  /\ IF cmd.kind = Raw THEN revisions[cmd.revision] = Absent
     ELSE TargetFits(revisions, cmd)

CallBegins(c, cmd) ==
  /\ call[c].state = "idle"
  /\ MayRun
  /\ \/ Replays(cmd) /\ Ended(c, "replayed")
     \/ ~Replays(cmd) /\ ~Begins(cmd) /\ Ended(c, "refused")
     \/ ~Replays(cmd) /\ Begins(cmd) /\ Awaits(c, cmd)
  /\ UNCHANGED store

AppendEnds(c) ==
  LET cmd == call[c].cmd IN
  /\ call[c].state = "waiting" /\ cmd.kind = Raw
  /\ \/ /\ IsNext(cmd, call[c].before, call[c].beforeSequence)
        /\ revisions' = WithRevision(revisions, cmd)
        /\ Ended(c, "committed")
     \/ /\ ~IsNext(cmd, call[c].before, call[c].beforeSequence)
        /\ UNCHANGED revisions
        /\ Ended(c, "refused")
  /\ UNCHANGED <<projects, review, semanticChanges, responses>>

(* Mutant: the sequence is checked, the parent is not.                     *)
AcceptedAnyParent(c) ==
  LET cmd == call[c].cmd IN
  /\ MetadataFits(review[cmd.project], cmd)
  /\ cmd.change \notin semanticChanges
  /\ cmd.revision # None => revisions[cmd.revision] = Absent
  /\ cmd.revision # None => cmd.sequence > call[c].beforeSequence

(* Mutant: a semantic change may be recorded again.                        *)
AcceptedChangeAgain(c) ==
  LET cmd == call[c].cmd IN
  /\ MetadataFits(review[cmd.project], cmd)
  /\ cmd.revision # None => revisions[cmd.revision] = Absent
  /\ IsNext(cmd, call[c].before, call[c].beforeSequence)

(* What commitDesignRevision checks after it has waited, before it stores  *)
(* anything: the review state is read only now.                            *)
Accepted(c) ==
  LET cmd == call[c].cmd IN
  /\ MetadataFits(review[cmd.project], cmd)
  /\ cmd.change \notin semanticChanges
  /\ cmd.revision # None => revisions[cmd.revision] = Absent
  /\ IsNext(cmd, call[c].before, call[c].beforeSequence)

CommitRefused(c) ==
  /\ call[c].state = "waiting" /\ call[c].cmd.kind # Raw
  /\ ~Accepted(c)
  /\ Ended(c, "refused")
  /\ UNCHANGED store

(* The readiness checks come after the revision has been stored.           *)
BaselineFits(c) ==
  LET cmd == call[c].cmd IN
  cmd.baseline # None =>
    /\ \A q \in Projects : review[q].baseline # cmd.baseline
    /\ cmd.revision = None => revisions[cmd.target].project = cmd.project

CommitRefusedLate(c) ==
  /\ call[c].state = "waiting" /\ call[c].cmd.kind # Raw
  /\ Accepted(c)
  /\ ~BaselineFits(c)
  /\ revisions' = WithRevision(revisions, call[c].cmd)
  /\ Ended(c, "refused")
  /\ UNCHANGED <<projects, review, semanticChanges, responses>>

CommitEnds(c) ==
  LET cmd == call[c].cmd
      p == cmd.project
  IN
  /\ call[c].state = "waiting" /\ cmd.kind # Raw
  /\ Accepted(c) /\ BaselineFits(c)
  /\ revisions' = WithRevision(revisions, cmd)
  /\ review' = [review EXCEPT ![p] = Reviewed(@, cmd, call[c].before)]
  /\ semanticChanges' =
       semanticChanges \cup (ChangeIds(review'[p]) \ ChangeIds(review[p]))
  /\ responses' = Answered(responses, review[p], cmd)
  /\ Ended(c, "committed")
  /\ UNCHANGED projects

Next ==
  \/ \E p \in Projects : CreateProject(p) \/ DeleteProject(p)
  \/ \E p \in Projects, s \in Snapshots : ReplaceProject(p, s)
  \/ \E c \in Calls : \/ \E cmd \in CallCommands : CallBegins(c, cmd)
                      \/ AppendEnds(c)
                      \/ CommitRefused(c)
                      \/ CommitRefusedLate(c)
                      \/ CommitEnds(c)

Spec == Init /\ [][Next]_vars
-----------------------------------------------------------------------------
(* A semantic change identifier stands for one change: it is listed at     *)
(* most once, under at most one project, and never while it could be       *)
(* accepted again.                                                         *)
ChangesRecordedOnce ==
  /\ \A p \in Projects :
       /\ ChangeIds(review[p]) \subseteq semanticChanges
       /\ Cardinality(ChangeIds(review[p])) = Len(review[p].changes)
  /\ \A p, q \in Projects :
       p # q => ChangeIds(review[p]) \cap ChangeIds(review[q]) = {}

(* Callers who await each call see the atomic repository: every step       *)
(* they can see is one of RevisionHistory's.                               *)
History == INSTANCE RevisionHistory
ImplementsHistory ==
  /\ awaited => History!Init
  /\ [][awaited => History!Next]_(History!vars)
=============================================================================
