-------------------------- MODULE PostgresRevisions -------------------------
(***************************************************************************)
(* The PostgreSQL collaboration repository of apps/collaboration-service,  *)
(* as far as design revisions go.  Each method is one transaction at READ  *)
(* COMMITTED; a step of this module is one statement, or several that      *)
(* neither wait nor let anything else in between.                          *)
(*                                                                         *)
(* The database is external and modelled by what it does for these         *)
(* statements.  A statement sees what was committed when it started.       *)
(* SELECT ... FOR UPDATE picks its row from that view and only then waits  *)
(* for the row's lock; a row that was deleted meanwhile is passed over.    *)
(* An INSERT waits for an uncommitted row with the same unique key and     *)
(* fails on a committed one; afterwards its foreign key takes a KEY SHARE  *)
(* lock on the project row, which FOR UPDATE excludes.  A cycle of waiting *)
(* transactions loses one of them.                                         *)
(***************************************************************************)
EXTENDS DesignReview

CONSTANTS
  Transactions,  \* the repository calls; each is made at most once
  CallKinds      \* the methods and command kinds callers use

Restore == "replace"    \* a call of replaceProject
NoTx == "no_transaction"
Gone == "gone"          \* the row a statement picked was deleted

ASSUME CallKindsAssumption == CallKinds \subseteq Kinds \cup {Raw, Restore}
ASSUME TransactionsAssumption == NoTx \notin Transactions
ASSUME GoneAssumption == Gone \notin Revisions

(* Snapshots come from exports: their sequences have no gaps.  The code    *)
(* does not check that.                                                    *)
ASSUME ContiguousAssumption ==
  \A s \in Snapshots :
    LET n == Cardinality(DOMAIN s.sequences) IN
    {s.sequences[r] : r \in DOMAIN s.sequences} = 1..n

VARIABLES
  row,           \* each project's row: missing, live or soft-deleted
  revisions,     \* the committed rows of `revisions`
  review,        \* design_review_states with the current baseline's changes
  baselineRows,  \* the committed identifiers in design_baselines
  changeRows,    \* the committed identifiers in design_baseline_changes
  responses,     \* the committed rows of idempotency_keys
  exclusive,     \* who holds FOR UPDATE on a project row
  updating,      \* who has updated or inserted a project row
  shared,        \* who holds KEY SHARE on a project row
  revisionLock,  \* who holds FOR UPDATE on, or has deleted, a revision row
  keyLock,       \* who holds the advisory lock of an idempotency key
  tx             \* each transaction's next statement and what it has read

tables == <<row, revisions, review, baselineRows, changeRows, responses>>
locks == <<exclusive, updating, shared, revisionLock, keyLock>>
vars == <<tables, locks, tx>>

EmptySnapshot == [sequences |-> <<>>, review |-> Draft]

(* parent is the expected revision of a replacement, too.                  *)
RestoreCommands ==
  [kind : {Restore}, project : Projects, revision : {None}, sequence : {0},
   parent : Revisions \cup {None}, change : {None}, baseline : {None},
   target : {None}, key : {None}]

CallCommands ==
  {cmd \in Commands \cup RawCommands \cup RestoreCommands :
     /\ cmd.kind \in CallKinds
     /\ cmd.kind \in Kinds => WellFormed(cmd)}

Steps ==
  {"idle", "key", "project", "latest", "lock_latest", "insert", "key_share",
   "finish", "upsert", "delete", "restore", "committed", "replayed",
   "aborted"}
Ended == {"committed", "replayed", "aborted"}

NewTx ==
  [step |-> "idle", cmd |-> NoCommand, snapshot |-> EmptySnapshot,
   found |-> None, inserted |-> FALSE]
TxStates ==
  [step : Steps, cmd : Commands \cup RawCommands \cup RestoreCommands
                       \cup {NoCommand},
   snapshot : Snapshots \cup {EmptySnapshot},
   found : Revisions \cup {None, Gone}, inserted : BOOLEAN]

TypeOK ==
  /\ row \in [Projects -> {"missing", "live", "deleted"}]
  /\ revisions \in [Revisions -> Stored]
  /\ review \in [Projects -> ReviewStates]
  /\ baselineRows \in [Projects -> SUBSET Baselines]
  /\ changeRows \in [Projects -> SUBSET Changes]
  /\ responses \in [Keys -> Responses]
  /\ exclusive \in [Projects -> Transactions \cup {NoTx}]
  /\ updating \in [Projects -> Transactions \cup {NoTx}]
  /\ shared \in [Projects -> SUBSET Transactions]
  /\ revisionLock \in [Revisions -> Transactions \cup {NoTx}]
  /\ keyLock \in [Keys -> Transactions \cup {NoTx}]
  /\ tx \in [Transactions -> TxStates]

Init ==
  /\ row = [p \in Projects |-> "missing"]
  /\ revisions = [r \in Revisions |-> Absent]
  /\ review = [p \in Projects |-> Draft]
  /\ baselineRows = [p \in Projects |-> {}]
  /\ changeRows = [p \in Projects |-> {}]
  /\ responses = [k \in Keys |-> NoResponse]
  /\ exclusive = [p \in Projects |-> NoTx]
  /\ updating = [p \in Projects |-> NoTx]
  /\ shared = [p \in Projects |-> {}]
  /\ revisionLock = [r \in Revisions |-> NoTx]
  /\ keyLock = [k \in Keys |-> NoTx]
  /\ tx = [t \in Transactions |-> NewTx]

-----------------------------------------------------------------------------
(* Rows inserted and not yet committed.                                    *)
Inserted(u, r, p, s) ==
  /\ tx[u].inserted
  /\ \/ tx[u].cmd.revision = r
     \/ tx[u].cmd.project = p /\ tx[u].cmd.sequence = s

(* Whom the next statement of t has to wait for.                           *)
WaitsFor(t) ==
  LET cmd == tx[t].cmd
      p == cmd.project
      blockers ==
        CASE tx[t].step = "key" -> {keyLock[cmd.key]}
          [] tx[t].step = "project" ->
               IF row[p] = "missing" THEN {}
               ELSE {exclusive[p], updating[p]} \cup shared[p]
          [] tx[t].step = "lock_latest" ->
               IF tx[t].found = Gone THEN {} ELSE {revisionLock[tx[t].found]}
          [] tx[t].step = "insert" ->
               {u \in Transactions :
                  Inserted(u, cmd.revision, p, cmd.sequence)}
          [] tx[t].step = "key_share" -> {exclusive[p]}
          [] tx[t].step = "upsert" -> {exclusive[p], updating[p]}
          [] tx[t].step = "delete" ->
               {revisionLock[r] : r \in OfProject(revisions, p)}
          [] tx[t].step = "restore" ->
               {u \in Transactions :
                  \E r \in DOMAIN tx[t].snapshot.sequences :
                    Inserted(u, r, p, tx[t].snapshot.sequences[r])}
          [] OTHER -> {}
  IN blockers \ {t, NoTx}

Runs(t, step) == tx[t].step = step /\ WaitsFor(t) = {}

Goes(t, step) == tx' = [tx EXCEPT ![t].step = step]

(* Mutant: the lock of the project row outlives its transaction.           *)
ReleaseLocksButProject(t) ==
  /\ updating' = [p \in Projects |->
       IF updating[p] = t THEN NoTx ELSE updating[p]]
  /\ shared' = [p \in Projects |-> shared[p] \ {t}]
  /\ revisionLock' = [r \in Revisions |->
       IF revisionLock[r] = t THEN NoTx ELSE revisionLock[r]]
  /\ keyLock' = [k \in Keys |-> IF keyLock[k] = t THEN NoTx ELSE keyLock[k]]
  /\ UNCHANGED exclusive

(* The end of a transaction: its locks are released.                       *)
ReleaseLocks(t) ==
  /\ exclusive' = [p \in Projects |->
       IF exclusive[p] = t THEN NoTx ELSE exclusive[p]]
  /\ updating' = [p \in Projects |->
       IF updating[p] = t THEN NoTx ELSE updating[p]]
  /\ shared' = [p \in Projects |-> shared[p] \ {t}]
  /\ revisionLock' = [r \in Revisions |->
       IF revisionLock[r] = t THEN NoTx ELSE revisionLock[r]]
  /\ keyLock' = [k \in Keys |-> IF keyLock[k] = t THEN NoTx ELSE keyLock[k]]

EndedTx(step) == [NewTx EXCEPT !.step = step]

(* A refusal, an error of the database, a lost connection or a crash of    *)
(* the service: nothing the transaction did remains.                       *)
Abort(t) ==
  /\ ReleaseLocks(t)
  /\ tx' = [tx EXCEPT ![t] = EndedTx("aborted")]
  /\ UNCHANGED tables

(* A call begins.  Only commitDesignRevision takes the lock of its key;    *)
(* appendRevision begins with its look at the latest revision.             *)
Begin(t, cmd, s) ==
  /\ tx[t].step = "idle"
  /\ (s = EmptySnapshot) \/ (cmd.kind = Restore)
  /\ cmd.kind = Restore => s \in Snapshots
  /\ tx' = [tx EXCEPT ![t] =
       [NewTx EXCEPT !.cmd = cmd, !.snapshot = s,
          !.step = IF cmd.kind = Raw THEN "latest"
                   ELSE IF cmd.key # None THEN "key" ELSE "project"]]
  /\ UNCHANGED <<tables, locks>>

(* Mutant: the prior response is looked for without the lock.              *)
LockKeyNot(t) ==
  LET k == tx[t].cmd.key IN
  /\ Runs(t, "key")
  /\ \/ /\ responses[k] # NoResponse
        /\ tx' = [tx EXCEPT ![t] = EndedTx("replayed")]
     \/ responses[k] = NoResponse /\ Goes(t, "project")
  /\ UNCHANGED <<tables, locks>>

(* pg_advisory_xact_lock, then the look for a prior response.              *)
LockKey(t) ==
  LET k == tx[t].cmd.key IN
  /\ Runs(t, "key")
  /\ \/ /\ responses[k] # NoResponse
        /\ tx' = [tx EXCEPT ![t] = EndedTx("replayed")]
        /\ UNCHANGED keyLock
     \/ /\ responses[k] = NoResponse
        /\ keyLock' = [keyLock EXCEPT ![k] = t]
        /\ Goes(t, "project")
  /\ UNCHANGED <<tables, exclusive, updating, shared, revisionLock>>

(* Mutant: the metadata is not compared with the review state.             *)
ProjectFitsLive(t) ==
  tx[t].cmd.kind # Restore => row[tx[t].cmd.project] = "live"

(* SELECT id FROM projects ... FOR UPDATE.  A command needs a live project *)
(* and metadata that fits the review state; a replacement takes what lock  *)
(* there is.                                                               *)
ProjectFits(t) ==
  LET cmd == tx[t].cmd IN
  cmd.kind # Restore =>
    row[cmd.project] = "live" /\ MetadataFits(review[cmd.project], cmd)

(* Mutant: the project row is read without FOR UPDATE.                     *)
LockProjectNot(t) ==
  LET cmd == tx[t].cmd IN
  /\ Runs(t, "project")
  /\ ProjectFits(t)
  /\ Goes(t, IF cmd.kind = Restore
             THEN IF cmd.parent = None THEN "upsert" ELSE "latest"
             ELSE IF cmd.revision = None THEN "finish" ELSE "latest")
  /\ UNCHANGED <<tables, locks>>

LockProject(t) ==
  LET cmd == tx[t].cmd
      p == cmd.project
  IN
  /\ Runs(t, "project")
  /\ ProjectFits(t)
  /\ exclusive' = IF row[p] = "missing" THEN exclusive
                  ELSE [exclusive EXCEPT ![p] = t]
  /\ Goes(t, IF cmd.kind = Restore
             THEN IF cmd.parent = None THEN "upsert" ELSE "latest"
             ELSE IF cmd.revision = None THEN "finish" ELSE "latest")
  /\ UNCHANGED <<tables, updating, shared, revisionLock, keyLock>>

ProjectRefused(t) ==
  /\ Runs(t, "project")
  /\ ~ProjectFits(t)
  /\ Abort(t)

(* SELECT id, sequence FROM revisions ... ORDER BY sequence DESC LIMIT 1   *)
(* FOR UPDATE: the row is picked, then locked.                             *)
ParentFits(t, found) ==
  LET cmd == tx[t].cmd IN
  IF cmd.kind = Restore THEN found = cmd.parent
  ELSE IsNext(cmd, found, SequenceOf(revisions, found))

AfterLatest(t) == IF tx[t].cmd.kind = Restore THEN "upsert" ELSE "insert"

PickLatest(t) ==
  LET found == Latest(revisions, tx[t].cmd.project) IN
  /\ tx[t].step = "latest"
  /\ found # None
  /\ tx' = [tx EXCEPT ![t].step = "lock_latest", ![t].found = found]
  /\ UNCHANGED <<tables, locks>>

NoLatest(t) ==
  /\ \/ tx[t].step = "latest" /\ OfProject(revisions, tx[t].cmd.project) = {}
     \/ tx[t].step = "lock_latest" /\ tx[t].found = Gone
  /\ \/ /\ ParentFits(t, None)
        /\ tx' = [tx EXCEPT ![t].step = AfterLatest(t), ![t].found = None]
        /\ UNCHANGED <<tables, locks>>
     \/ ~ParentFits(t, None) /\ Abort(t)

LockLatest(t) ==
  LET found == tx[t].found IN
  /\ Runs(t, "lock_latest")
  /\ found # Gone
  /\ \/ /\ ParentFits(t, found)
        /\ revisionLock' = [revisionLock EXCEPT ![found] = t]
        /\ Goes(t, AfterLatest(t))
        /\ UNCHANGED <<tables, exclusive, updating, shared, keyLock>>
     \/ ~ParentFits(t, found) /\ Abort(t)

(* Mutant: no unique constraint on (project_id, sequence).                 *)
UniqueId(t) == revisions[tx[t].cmd.revision] = Absent

(* INSERT INTO revisions: unique identifier, unique sequence per project.  *)
Unique(t) ==
  LET cmd == tx[t].cmd IN
  /\ revisions[cmd.revision] = Absent
  /\ \A r \in OfProject(revisions, cmd.project) :
       revisions[r].sequence # cmd.sequence

Insert(t) ==
  /\ Runs(t, "insert")
  /\ Unique(t)
  /\ tx' = [tx EXCEPT ![t].inserted = TRUE, ![t].step = "key_share"]
  /\ UNCHANGED <<tables, locks>>

InsertRefused(t) ==
  /\ Runs(t, "insert")
  /\ ~Unique(t)
  /\ Abort(t)

(* The foreign key of the inserted row.                                    *)
ShareProject(t) ==
  LET p == tx[t].cmd.project IN
  /\ Runs(t, "key_share")
  /\ \/ /\ row[p] # "missing"
        /\ shared' = [shared EXCEPT ![p] = @ \cup {t}]
        /\ Goes(t, "finish")
        /\ UNCHANGED <<tables, exclusive, updating, revisionLock, keyLock>>
     \/ row[p] = "missing" /\ Abort(t)

(* The readiness or semantic change rows, the response, and COMMIT, each   *)
(* row with its primary key; the baseline and change tables know the rows  *)
(* of earlier baselines too.                                               *)
RowsFit(cmd) ==
  /\ TargetFits(revisions, cmd)
  /\ cmd.key # None => responses[cmd.key] = NoResponse
  /\ \A q \in Projects : /\ cmd.baseline \notin baselineRows[q]
                         /\ cmd.change \notin changeRows[q]

BaselineRowsAfter(cmd) ==
  baselineRows[cmd.project] \cup ({cmd.baseline} \ {None})

CommitCommand(t) ==
  LET cmd == tx[t].cmd
      p == cmd.project
  IN
  /\ tx[t].step = "finish" /\ cmd.kind # Raw
  /\ RowsFit(cmd)
  /\ revisions' = WithRevision(revisions, cmd)
  /\ review' = [review EXCEPT ![p] = Reviewed(@, cmd, tx[t].found)]
  /\ baselineRows' = [baselineRows EXCEPT ![p] = BaselineRowsAfter(cmd)]
  /\ changeRows' = [changeRows EXCEPT ![p] = @ \cup ChangeIds(review'[p])]
  /\ responses' = Answered(responses, review[p], cmd)
  /\ tx' = [tx EXCEPT ![t] = EndedTx("committed")]
  /\ ReleaseLocks(t)
  /\ UNCHANGED row

CommitRefused(t) ==
  /\ tx[t].step = "finish" /\ tx[t].cmd.kind # Raw
  /\ ~RowsFit(tx[t].cmd)
  /\ Abort(t)

CommitAppend(t) ==
  /\ tx[t].step = "finish" /\ tx[t].cmd.kind = Raw
  /\ revisions' = WithRevision(revisions, tx[t].cmd)
  /\ tx' = [tx EXCEPT ![t] = EndedTx("committed")]
  /\ ReleaseLocks(t)
  /\ UNCHANGED <<row, review, baselineRows, changeRows, responses>>

-----------------------------------------------------------------------------
(* restoreProjectInTransaction(): INSERT ... ON CONFLICT DO UPDATE locks   *)
(* the row, old or new, but against KEY SHARE only if the FOR UPDATE before *)
(* found it; DELETE takes every revision row it sees; then the snapshot's  *)
(* rows are inserted.                                                      *)
Upsert(t) ==
  /\ Runs(t, "upsert")
  /\ updating' = [updating EXCEPT ![tx[t].cmd.project] = t]
  /\ Goes(t, "delete")
  /\ UNCHANGED <<tables, exclusive, shared, revisionLock, keyLock>>

DeleteRows(t) ==
  /\ Runs(t, "delete")
  /\ revisionLock' = [r \in Revisions |->
       IF r \in OfProject(revisions, tx[t].cmd.project) THEN t
       ELSE revisionLock[r]]
  /\ Goes(t, "restore")
  /\ UNCHANGED <<tables, exclusive, updating, shared, keyLock>>

(* A revision committed after the DELETE had looked is still there.        *)
AfterDelete(t) ==
  [r \in Revisions |->
     IF revisionLock[r] = t /\ revisions[r].project = tx[t].cmd.project
     THEN Absent ELSE revisions[r]]

SnapshotFits(t) ==
  LET s == tx[t].snapshot
      p == tx[t].cmd.project
  IN
  /\ \A r \in DOMAIN s.sequences : AfterDelete(t)[r] = Absent
  /\ \A r \in DOMAIN s.sequences : \A o \in OfProject(AfterDelete(t), p) :
       AfterDelete(t)[o].sequence # s.sequences[r]
  /\ ListedOnce(s.review)
  /\ \A q \in Projects \ {p} : /\ s.review.baseline \notin baselineRows[q]
                               /\ ChangeIds(s.review) \cap changeRows[q] = {}

(* Everyone else who had picked one of the deleted rows finds it gone.     *)
CommitRestore(t) ==
  LET s == tx[t].snapshot
      p == tx[t].cmd.project
  IN
  /\ Runs(t, "restore")
  /\ SnapshotFits(t)
  /\ row' = [row EXCEPT ![p] = "live"]
  /\ revisions' = Restored(AfterDelete(t), p, s)
  /\ review' = [review EXCEPT ![p] = s.review]
  /\ baselineRows' = [baselineRows EXCEPT ![p] = {s.review.baseline} \ {None}]
  /\ changeRows' = [changeRows EXCEPT ![p] = ChangeIds(s.review)]
  /\ tx' = [u \in Transactions |->
       IF u = t THEN EndedTx("committed")
       ELSE IF /\ tx[u].step = "lock_latest"
               /\ tx[u].found \in Revisions
               /\ revisionLock[tx[u].found] = t
       THEN [tx[u] EXCEPT !.found = Gone] ELSE tx[u]]
  /\ ReleaseLocks(t)
  /\ UNCHANGED responses

RestoreRefused(t) ==
  /\ Runs(t, "restore")
  /\ ~SnapshotFits(t)
  /\ Abort(t)

(* createProject() and deleteProject(): one statement each; the deletion   *)
(* marks the row and waits for FOR UPDATE.                                 *)
CreateProject(p) ==
  /\ row[p] = "missing" /\ updating[p] = NoTx
  /\ row' = [row EXCEPT ![p] = "live"]
  /\ UNCHANGED <<revisions, review, baselineRows, changeRows, responses,
                 locks, tx>>

DeleteProject(p) ==
  /\ row[p] = "live" /\ exclusive[p] = NoTx /\ updating[p] = NoTx
  /\ row' = [row EXCEPT ![p] = "deleted"]
  /\ UNCHANGED <<revisions, review, baselineRows, changeRows, responses,
                 locks, tx>>

-----------------------------------------------------------------------------
(* The statements of t after the first.                                    *)
Step(t) ==
  \/ LockKey(t)
  \/ LockProject(t) \/ ProjectRefused(t)
  \/ PickLatest(t) \/ NoLatest(t) \/ LockLatest(t)
  \/ Insert(t) \/ InsertRefused(t) \/ ShareProject(t)
  \/ CommitCommand(t) \/ CommitRefused(t) \/ CommitAppend(t)
  \/ Upsert(t) \/ DeleteRows(t) \/ CommitRestore(t) \/ RestoreRefused(t)

Active(t) == tx[t].step \notin Ended \cup {"idle"}

(* A connection is lost, or a cycle of waits loses this transaction.       *)
Lost(t) == Active(t) /\ Abort(t)

InCycle(t) ==
  \E S \in SUBSET Transactions :
    t \in S /\ \A u \in S : WaitsFor(u) \cap S # {}

Victim(t) == Active(t) /\ InCycle(t) /\ Abort(t)

Next ==
  \/ \E t \in Transactions :
       \/ \E cmd \in CallCommands, s \in Snapshots \cup {EmptySnapshot} :
            Begin(t, cmd, s)
       \/ Step(t)
       \/ Lost(t)
  \/ \E p \in Projects : CreateProject(p) \/ DeleteProject(p)

Spec == Init /\ [][Next]_vars

(* Fairness: the database executes what can be executed, and breaks every  *)
(* cycle.                                                                  *)
Fairness ==
  /\ \A t \in Transactions : WF_vars(Step(t))
  /\ WF_vars(\E t \in Transactions : Victim(t))

FairSpec == Spec /\ Fairness

-----------------------------------------------------------------------------
(* "Atomically append only if expectedParentRevisionId is still current":  *)
(* when a transaction commits a revision, the parent its caller expected   *)
(* is the project's latest revision, although it was read long before.     *)
AppendsAtLatest ==
  [][\A t \in Transactions :
       LET cmd == tx[t].cmd IN
       tx[t].inserted /\ tx'[t].step = "committed"
       => Latest(revisions, cmd.project) = cmd.parent]_vars

(* The changes since the baseline lead, without a gap, to the revision the *)
(* project is at.  For callers who use commitDesignRevision only.          *)
ChangesLeadToLatest ==
  \A p \in Projects :
    LET ch == review[p].changes IN
    ch # <<>> =>
      /\ ch[Len(ch)].current = Latest(revisions, p)
      /\ \A i \in 1..Len(ch) - 1 : ch[i].current = ch[i + 1].before

(* A retry that overlaps its first attempt is answered with the response   *)
(* that attempt stored: it gets as far as its own rows only when there is  *)
(* none, and never fails on the primary key of idempotency_keys.           *)
RetriesReplay ==
  \A t \in Transactions :
    LET key == tx[t].cmd.key IN
    tx[t].step \in {"insert", "key_share", "finish"} /\ key # None
    => responses[key] = NoResponse

(* No call waits for ever: appendRevision takes its row locks in another   *)
(* order than commitDesignRevision and replaceProject, and the cycles that *)
(* makes are broken.                                                       *)
CallsEnd ==
  \A t \in Transactions :
    tx[t].step # "idle" ~> tx[t].step \in Ended

(* What the callers of the repository see is the atomic repository; a      *)
(* soft-deleted project has neither revisions nor a review state.          *)
Live == {p \in Projects : row[p] = "live"}
History == INSTANCE RevisionHistory WITH
  projects <- Live,
  revisions <- [r \in Revisions |->
    IF revisions[r].project \in Live THEN revisions[r] ELSE Absent],
  review <- [p \in Projects |-> IF p \in Live THEN review[p] ELSE Draft]

ImplementsHistory == History!Spec
=============================================================================
