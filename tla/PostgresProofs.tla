--------------------------- MODULE PostgresProofs ---------------------------
(***************************************************************************)
(* Proofs about the PostgreSQL repository's design revisions, for any      *)
(* projects, revisions, snapshots and transactions, however their          *)
(* statements interleave and whichever of them is lost.                    *)
(***************************************************************************)
EXTENDS PostgresRevisions, DesignReviewProofs

Working(k) == k.step \notin Ended \cup {"idle"}

(* Where a transaction can be with its command.                            *)
Shape(k) ==
  /\ Working(k) => k.cmd \in CallCommands
  /\ Working(k) /\ k.cmd.kind = Restore => k.snapshot \in Snapshots
  /\ k.step = "key" => k.cmd.kind \in Kinds /\ k.cmd.key # None
  /\ k.step = "project" => k.cmd.kind \in Kinds \cup {Restore}
  /\ k.step \in {"upsert", "delete", "restore"} => k.cmd.kind = Restore
  /\ k.step \in {"latest", "lock_latest"} =>
       k.cmd.kind = Restore \/ k.cmd.revision # None
  /\ k.step \in {"insert", "key_share"} => k.cmd.revision # None
  /\ k.step \in {"insert", "key_share", "finish"} =>
       k.cmd.kind \in Kinds \cup {Raw} /\ k.found # Gone
  /\ k.step \in {"key", "project"} => k.found = None
  /\ k.step = "lock_latest" => k.found # None
  /\ k.inserted <=>
       k.step \in {"key_share", "finish"} /\ k.cmd.revision # None

(* A command that has locked its project's row.                            *)
Held(k) ==
  /\ k.cmd.kind \in Kinds
  /\ k.step \in {"latest", "lock_latest", "insert", "key_share", "finish"}

(* The lock of a command's key is taken while no response is stored.       *)
KeyHeld(t, k, resps, keys) ==
  /\ k.cmd.kind \in Kinds /\ k.cmd.key # None
  /\ k.step = "project" \/ Held(k)
  => keys[k.cmd.key] = t /\ resps[k.cmd.key] = NoResponse

(* The lock of the project's row keeps the review state as it was read; an *)
(* inserted row has found its project.                                     *)
RowHeld(t, k, rows, reviews, excl, upd) ==
  LET p == k.cmd.project IN
  /\ Held(k) => /\ excl[p] = t /\ upd[p] = NoTx
                /\ rows[p] = "live" /\ MetadataFits(reviews[p], k.cmd)
  /\ k.step = "finish" => rows[p] # "missing"

UpdateHeld(t, k, upd) ==
  \A p \in Projects :
    upd[p] = t <=> k.step \in {"delete", "restore"} /\ p = k.cmd.project

(* What a transaction has picked is a revision of its project; what it has *)
(* locked precedes the revision it inserts.                                *)
FoundFits(t, k, revs, rlock) ==
  /\ k.step = "lock_latest" /\ k.found # Gone =>
       revs[k.found].project = k.cmd.project
  /\ k.step \in {"insert", "key_share", "finish"} /\ k.cmd.revision # None =>
       /\ IsNext(k.cmd, k.found, SequenceOf(revs, k.found))
       /\ k.found # None => rlock[k.found] = t

(* Revision rows are locked from the look at the latest one on.            *)
Locking ==
  {"insert", "key_share", "finish", "upsert", "delete", "restore"}
LockFits(t, k, revs, rlock) ==
  \A r \in Revisions :
    rlock[r] = t => k.step \in Locking /\ revs[r].project = k.cmd.project

InsertFits(k, revs) ==
  k.inserted => /\ revs[k.cmd.revision] = Absent
                /\ \A r \in OfProject(revs, k.cmd.project) :
                     revs[r].sequence # k.cmd.sequence

(* A revision that the DELETE of a replacement did not see follows another *)
(* such revision or is the first.  Only appendRevision can commit one.     *)
DeleteFits(t, k, revs, rlock) ==
  LET own == OfProject(revs, k.cmd.project) IN
  k.step = "restore" =>
    /\ \A r \in own :
         \/ rlock[r] = t
         \/ revs[r].sequence = 1
         \/ \E q \in own :
              rlock[q] # t /\ revs[r].sequence = revs[q].sequence + 1
    /\ Raw \notin CallKinds => \A r \in own : rlock[r] = t

TxFits(t, k, rows, revs, reviews, resps, excl, upd, rlock, keys) ==
  /\ Shape(k)
  /\ KeyHeld(t, k, resps, keys)
  /\ RowHeld(t, k, rows, reviews, excl, upd)
  /\ UpdateHeld(t, k, upd)
  /\ FoundFits(t, k, revs, rlock)
  /\ LockFits(t, k, revs, rlock)
  /\ InsertFits(k, revs)
  /\ DeleteFits(t, k, revs, rlock)

(* Two inserted rows differ in what the unique constraints compare.        *)
Differ(k, l) ==
  k.inserted /\ l.inserted =>
    /\ k.cmd.revision # l.cmd.revision
    /\ \/ k.cmd.project # l.cmd.project
       \/ k.cmd.sequence # l.cmd.sequence

(* The sequences of a project's revisions are 1, 2, ... without gaps.      *)
Sequenced(revs) ==
  \A r \in Revisions : revs[r].project # None =>
    /\ revs[r].sequence \in 1..MaxSequence
    /\ \/ revs[r].sequence = 1
       \/ \E q \in OfProject(revs, revs[r].project) :
            revs[r].sequence = revs[q].sequence + 1
    /\ \A q \in OfProject(revs, revs[r].project) :
         revs[q].sequence = revs[r].sequence => q = r

(* The tables of a project agree.                                          *)
TablesFit(rows, revs, reviews, blines, chngs) ==
  \A p \in Projects :
    /\ rows[p] = "missing" => OfProject(revs, p) = {} /\ reviews[p] = Draft
    /\ ChangeIds(reviews[p]) \subseteq chngs[p]
    /\ reviews[p].baseline \in blines[p] \cup {None}
    /\ reviews[p].baseline = None => reviews[p].changes = <<>>

AllFit ==
  \A t \in Transactions :
    TxFits(t, tx[t], row, revisions, review, responses, exclusive, updating,
           revisionLock, keyLock)
AllDiffer ==
  \A t, u \in Transactions : t # u => Differ(tx[t], tx[u])

PostgresInv ==
  /\ TypeOK
  /\ AllFit
  /\ AllDiffer
  /\ Sequenced(revisions)
  /\ TablesFit(row, revisions, review, baselineRows, changeRows)

-----------------------------------------------------------------------------
(* Commands and transactions.                                              *)

LEMMA CallFields ==
  ASSUME NEW cmd \in CallCommands
  PROVE  /\ cmd.kind \in CallKinds
         /\ cmd.kind \in Kinds \cup {Raw, Restore}
         /\ cmd.kind \in Kinds => cmd \in Commands /\ WellFormed(cmd)
         /\ cmd.kind = Raw => cmd \in RawCommands
         /\ cmd.kind = Restore => cmd \in RestoreCommands
         /\ cmd.project \in Projects /\ cmd.project # None
         /\ cmd.revision \in Revisions \cup {None}
         /\ cmd.parent \in Revisions \cup {None}
         /\ cmd.key \in Keys \cup {None}
         /\ cmd.sequence \in 0..MaxSequence
         /\ cmd.revision # None => cmd.sequence \in 1..MaxSequence
         /\ cmd.key # None => cmd.kind \in Kinds
         /\ cmd.kind = Raw => cmd.revision # None
         /\ cmd.kind = Restore => cmd.revision = None
<1>1. CASE cmd \in RawCommands
  <2>1. cmd.kind = Raw
    BY <1>1, RawFields
  <2> QED BY <1>1, <2>1, RawFields, SequenceAssumption, NamesAssumption
          DEF Raw, Restore, Kinds, CallCommands
<1>2. CASE cmd \in RestoreCommands
  BY <1>2, SequenceAssumption, NamesAssumption
     DEF RestoreCommands, Raw, Restore, Kinds, CallCommands
<1>3. CASE cmd \in Commands
  <2>1. cmd.kind \in Kinds /\ WellFormed(cmd)
    BY <1>3 DEF CallCommands, Commands
  <2>2. cmd.revision # None => cmd.sequence # 0
    BY <2>1 DEF WellFormed
  <2> QED BY <1>3, <2>1, <2>2, SequenceAssumption, NamesAssumption
          DEF Commands, CallCommands, Raw, Restore, Kinds
<1> QED BY <1>1, <1>2, <1>3 DEF CallCommands

LEMMA TxFields ==
  ASSUME TypeOK, NEW t \in Transactions
  PROVE  /\ tx[t] \in TxStates
         /\ tx[t].step \in Steps /\ tx[t].inserted \in BOOLEAN
         /\ tx[t].found \in Revisions \cup {None, Gone}
         /\ tx[t].snapshot \in Snapshots \cup {EmptySnapshot}
BY DEF TypeOK, TxStates

LEMMA Going ==
  ASSUME TypeOK, NEW t \in Transactions, NEW step \in Steps, Goes(t, step)
  PROVE  \E k \in TxStates :
           /\ tx' = [tx EXCEPT ![t] = k]
           /\ k.step = step /\ k.cmd = tx[t].cmd
           /\ k.snapshot = tx[t].snapshot /\ k.found = tx[t].found
           /\ k.inserted = tx[t].inserted
<1> DEFINE k == [tx[t] EXCEPT !.step = step]
<1>1. k \in TxStates
  BY TxFields DEF TxStates
<1>2. /\ k.step = step /\ k.cmd = tx[t].cmd
      /\ k.snapshot = tx[t].snapshot /\ k.found = tx[t].found
      /\ k.inserted = tx[t].inserted
  BY TxFields DEF TxStates
<1>3. tx' = [tx EXCEPT ![t] = k]
  BY DEF Goes
<1> QED BY <1>1, <1>2, <1>3

LEMMA EndedFields ==
  ASSUME NEW step \in Ended
  PROVE  /\ EndedTx(step) \in TxStates
         /\ EndedTx(step).step = step /\ EndedTx(step).inserted = FALSE
         /\ EndedTx(step).cmd = NoCommand
BY DEF EndedTx, NewTx, TxStates, Ended, Steps

(* A step of t leaves the locks of the others as they are.                 *)
OthersKeep(t) ==
  \A u \in Transactions \ {t} :
    /\ \A p \in Projects :
         /\ exclusive[p] = u => exclusive'[p] = u
         /\ exclusive[p] = u /\ updating[p] = NoTx => updating'[p] = NoTx
         /\ updating'[p] = u <=> updating[p] = u
    /\ \A r \in Revisions : revisionLock'[r] = u <=> revisionLock[r] = u
    /\ \A key \in Keys : keyLock[key] = u => keyLock'[key] = u

LocksTyped ==
  /\ exclusive \in [Projects -> Transactions \cup {NoTx}]
  /\ updating \in [Projects -> Transactions \cup {NoTx}]
  /\ shared \in [Projects -> SUBSET Transactions]
  /\ revisionLock \in [Revisions -> Transactions \cup {NoTx}]
  /\ keyLock \in [Keys -> Transactions \cup {NoTx}]

(* A transaction that stays where it was keeps what it relies on, as long  *)
(* as its locks and the tables do.                                         *)
LEMMA LocksAreEnough ==
  ASSUME TypeOK, NEW t \in Transactions, NEW u \in Transactions \ {t},
         OthersKeep(t),
         TxFits(u, tx[u], row, revisions, review, responses, exclusive,
                updating, revisionLock, keyLock)
  PROVE  TxFits(u, tx[u], row, revisions, review, responses, exclusive',
                updating', revisionLock', keyLock')
<1> DEFINE k == tx[u]
           p == k.cmd.project
<1>0. /\ Shape(k)
      /\ Working(k) => p \in Projects /\ k.cmd.key \in Keys \cup {None}
      /\ Held(k) => Working(k)
      /\ k.cmd.kind \in Kinds /\ k.step = "project" => Working(k)
  BY CallFields DEF TxFits, Shape, Held, Working, Ended
<1>1. KeyHeld(u, k, responses, keyLock')
  BY <1>0 DEF KeyHeld, TxFits, OthersKeep
<1>2. RowHeld(u, k, row, review, exclusive', updating')
  BY <1>0 DEF RowHeld, TxFits, OthersKeep
<1>3. UpdateHeld(u, k, updating')
  BY DEF UpdateHeld, TxFits, OthersKeep
<1>4. FoundFits(u, k, revisions, revisionLock')
  <2>1. k.found \in Revisions \cup {None, Gone}
    BY TxFields
  <2>2. k.step \in {"insert", "key_share", "finish"} => k.found # Gone
    BY <1>0 DEF Shape
  <2> QED BY <2>1, <2>2 DEF FoundFits, TxFits, OthersKeep
<1>5. LockFits(u, k, revisions, revisionLock')
  BY DEF LockFits, TxFits, OthersKeep
<1>6. DeleteFits(u, k, revisions, revisionLock')
  BY DEF DeleteFits, TxFits, OthersKeep, OfProject
<1> HIDE DEF k
<1> QED BY <1>0, <1>1, <1>2, <1>3, <1>4, <1>5, <1>6 DEF TxFits, k

LEMMA TxMoves ==
  ASSUME PostgresInv, NEW t \in Transactions, NEW k \in TxStates,
         tx' = [tx EXCEPT ![t] = k], UNCHANGED tables, LocksTyped',
         OthersKeep(t),
         TxFits(t, k, row, revisions, review, responses, exclusive',
                updating', revisionLock', keyLock'),
         \A u \in Transactions \ {t} : Differ(k, tx[u])
  PROVE  PostgresInv'
<1>0. TypeOK /\ UNCHANGED <<row, revisions, review, baselineRows, changeRows,
                            responses>>
  BY DEF PostgresInv, tables
<1>1. tx'[t] = k /\ \A u \in Transactions \ {t} : tx'[u] = tx[u]
  BY <1>0 DEF TypeOK
<1>2. TypeOK'
  BY <1>0 DEF TypeOK, LocksTyped
<1>3. AllFit'
  <2> SUFFICES ASSUME NEW u \in Transactions
               PROVE  TxFits(u, tx[u], row, revisions, review, responses,
                             exclusive, updating, revisionLock, keyLock)'
    BY DEF AllFit
  <2>1. CASE u = t
    BY <1>0, <1>1, <2>1
  <2>2. CASE u # t
    <3>1. TxFits(u, tx[u], row, revisions, review, responses, exclusive,
                 updating, revisionLock, keyLock)
      BY DEF PostgresInv, AllFit
    <3>2. TxFits(u, tx[u], row, revisions, review, responses, exclusive',
                 updating', revisionLock', keyLock')
      BY <1>0, <2>2, <3>1, LocksAreEnough
    <3> QED BY <1>0, <1>1, <2>2, <3>2
  <2> QED BY <2>1, <2>2
<1>4. AllDiffer'
  BY <1>1 DEF PostgresInv, AllDiffer, Differ
<1>5. Sequenced(revisions)'
  BY <1>0 DEF PostgresInv
<1>6. TablesFit(row, revisions, review, baselineRows, changeRows)'
  BY <1>0 DEF PostgresInv
<1> QED BY <1>2, <1>3, <1>4, <1>5, <1>6 DEF PostgresInv

(* What the invariant says of one transaction.                             *)
LEMMA FitsOf ==
  ASSUME PostgresInv, NEW t \in Transactions
  PROVE  /\ TypeOK /\ LocksTyped
         /\ Shape(tx[t])
         /\ KeyHeld(t, tx[t], responses, keyLock)
         /\ RowHeld(t, tx[t], row, review, exclusive, updating)
         /\ UpdateHeld(t, tx[t], updating)
         /\ FoundFits(t, tx[t], revisions, revisionLock)
         /\ LockFits(t, tx[t], revisions, revisionLock)
         /\ InsertFits(tx[t], revisions)
         /\ DeleteFits(t, tx[t], revisions, revisionLock)
BY DEF PostgresInv, AllFit, TxFits, TypeOK, LocksTyped

LEMMA LocksStay ==
  ASSUME LocksTyped, UNCHANGED locks, NEW t
  PROVE  LocksTyped' /\ OthersKeep(t)
BY DEF LocksTyped, OthersKeep, locks

LEMMA Released ==
  ASSUME PostgresInv, NEW t \in Transactions, ReleaseLocks(t)
  PROVE  /\ LocksTyped' /\ OthersKeep(t)
         /\ \A p \in Projects : updating'[p] # t
         /\ \A r \in Revisions : revisionLock'[r] # t
<1>1. LocksTyped /\ NoTx \notin Transactions
  BY FitsOf, TransactionsAssumption
<1>2. LocksTyped'
  BY <1>1 DEF LocksTyped, ReleaseLocks
<1>3. OthersKeep(t)
  BY <1>1 DEF LocksTyped, ReleaseLocks, OthersKeep
<1>4. /\ \A p \in Projects : updating'[p] # t
      /\ \A r \in Revisions : revisionLock'[r] # t
  BY <1>1 DEF ReleaseLocks
<1> QED BY <1>2, <1>3, <1>4

LEMMA EndedFits ==
  ASSUME NEW t \in Transactions, NEW step \in Ended,
         NEW rows, NEW revs, NEW rvs, NEW resps, NEW excl,
         NEW upd, NEW rlock, NEW keys,
         \A p \in Projects : upd[p] # t,
         \A r \in Revisions : rlock[r] # t
  PROVE  TxFits(t, EndedTx(step), rows, revs, rvs, resps, excl, upd, rlock,
                keys)
<1> DEFINE k == EndedTx(step)
<1>1. k.step = step /\ k.inserted = FALSE /\ k.cmd = NoCommand
  BY EndedFields
<1>2. ~Working(k) /\ NoCommand.key = None
  BY <1>1 DEF Working, NoCommand
<1> HIDE DEF k
<1>3. Shape(k)
  BY <1>1, <1>2 DEF Shape, Ended
<1>4. /\ KeyHeld(t, k, resps, keys)
      /\ RowHeld(t, k, rows, rvs, excl, upd)
  BY <1>1, <1>2 DEF KeyHeld, RowHeld, Held, Ended
<1>5. /\ UpdateHeld(t, k, upd)
      /\ FoundFits(t, k, revs, rlock)
      /\ LockFits(t, k, revs, rlock)
      /\ InsertFits(k, revs)
      /\ DeleteFits(t, k, revs, rlock)
  BY <1>1 DEF UpdateHeld, FoundFits, LockFits, InsertFits, DeleteFits, Ended
<1> QED BY <1>3, <1>4, <1>5 DEF TxFits, k

LEMMA AbortKeeps ==
  ASSUME PostgresInv, NEW t \in Transactions, Abort(t)
  PROVE  PostgresInv'
<1> DEFINE k == EndedTx("aborted")
<1>1. k \in TxStates /\ ~k.inserted
  BY EndedFields DEF Ended
<1>2. /\ tx' = [tx EXCEPT ![t] = k] /\ UNCHANGED tables
      /\ ReleaseLocks(t)
  BY DEF Abort
<1>3. /\ LocksTyped' /\ OthersKeep(t)
      /\ \A p \in Projects : updating'[p] # t
      /\ \A r \in Revisions : revisionLock'[r] # t
  BY <1>2, Released
<1>4. TxFits(t, k, row, revisions, review, responses, exclusive', updating',
             revisionLock', keyLock')
  BY <1>3, EndedFits DEF Ended
<1>5. \A u \in Transactions \ {t} : Differ(k, tx[u])
  BY <1>1 DEF Differ
<1> HIDE DEF k
<1> QED BY <1>1, <1>2, <1>3, <1>4, <1>5, TxMoves

-----------------------------------------------------------------------------
(* The statements before a commit.                                         *)

LEMMA BeginKeeps ==
  ASSUME PostgresInv, NEW t \in Transactions, NEW cmd \in CallCommands,
         NEW s \in Snapshots \cup {EmptySnapshot}, Begin(t, cmd, s)
  PROVE  PostgresInv'
<1> DEFINE step == IF cmd.kind = Raw THEN "latest"
                   ELSE IF cmd.key # None THEN "key" ELSE "project"
           k == [NewTx EXCEPT !.cmd = cmd, !.snapshot = s, !.step = step]
<1>1. /\ k.step = step /\ k.cmd = cmd /\ k.snapshot = s /\ k.found = None
      /\ k.inserted = FALSE /\ step \in {"latest", "key", "project"}
  BY DEF NewTx
<1>2. cmd \in Commands \cup RawCommands \cup RestoreCommands
  BY DEF CallCommands
<1>3. k \in TxStates
  BY <1>1, <1>2 DEF NewTx, TxStates, Steps
<1>4. tx' = [tx EXCEPT ![t] = k] /\ UNCHANGED tables /\ UNCHANGED locks
  BY DEF Begin
<1>5. LocksTyped' /\ OthersKeep(t)
  BY <1>4, FitsOf, LocksStay
<1>6. /\ tx[t].step = "idle"
      /\ cmd.kind = Restore => s \in Snapshots
      /\ cmd.kind = Raw => step = "latest"
      /\ cmd.kind # Raw => step # "latest"
      /\ step = "key" => cmd.key # None
      /\ step = "project" => cmd.key = None
  BY CallFields DEF Begin, Raw, Restore, Kinds
<1>7. /\ \A p \in Projects : updating'[p] # t
      /\ \A r \in Revisions : revisionLock'[r] # t
  BY <1>4, <1>6, FitsOf DEF UpdateHeld, LockFits, Locking, locks
<1> HIDE DEF k, step
<1>8. Shape(k)
  BY <1>1, <1>6, CallFields DEF Shape
<1>9. TxFits(t, k, row, revisions, review, responses, exclusive', updating',
             revisionLock', keyLock')
  <2>1. ~Held(k)
    BY <1>1, <1>6 DEF Held, Raw, Kinds
  <2>2. /\ KeyHeld(t, k, responses, keyLock')
        /\ RowHeld(t, k, row, review, exclusive', updating')
    BY <1>1, <1>6, <2>1 DEF KeyHeld, RowHeld
  <2>3. /\ UpdateHeld(t, k, updating')
        /\ FoundFits(t, k, revisions, revisionLock')
        /\ LockFits(t, k, revisions, revisionLock')
        /\ InsertFits(k, revisions)
        /\ DeleteFits(t, k, revisions, revisionLock')
    BY <1>1, <1>7
       DEF UpdateHeld, FoundFits, LockFits, InsertFits, DeleteFits
  <2> QED BY <1>8, <2>2, <2>3 DEF TxFits
<1>10. \A u \in Transactions \ {t} : Differ(k, tx[u])
  BY <1>1 DEF Differ
<1> QED BY <1>3, <1>4, <1>5, <1>9, <1>10, TxMoves

(* A step that only moves on, with the locks it takes.                     *)
LEMMA LockKeyKeeps ==
  ASSUME PostgresInv, NEW t \in Transactions, LockKey(t)
  PROVE  PostgresInv'
<1> DEFINE key == tx[t].cmd.key
<1>1. /\ UNCHANGED tables /\ UNCHANGED <<exclusive, updating, shared,
                                         revisionLock>>
      /\ tx[t].step = "key" /\ WaitsFor(t) = {}
  BY DEF LockKey, Runs
<1>2. /\ tx[t].cmd \in CallCommands /\ tx[t].cmd.kind \in Kinds
      /\ key \in Keys /\ LocksTyped /\ TypeOK
  BY <1>1, FitsOf, CallFields DEF Shape, Working, Ended
<1>3. keyLock[key] \in {t, NoTx}
  BY <1>1 DEF WaitsFor
<1>4. /\ \A p \in Projects : updating'[p] # t
      /\ \A r \in Revisions : revisionLock'[r] # t
  BY <1>1, FitsOf DEF UpdateHeld, LockFits, Locking
<1>5. CASE /\ tx' = [tx EXCEPT ![t] = EndedTx("replayed")]
           /\ UNCHANGED keyLock
  <2> DEFINE k == EndedTx("replayed")
  <2>1. k \in TxStates /\ ~k.inserted
    BY EndedFields DEF Ended
  <2>2. UNCHANGED locks
    BY <1>1, <1>5 DEF locks
  <2>3. LocksTyped' /\ OthersKeep(t)
    BY <1>2, <2>2, LocksStay
  <2>4. TxFits(t, k, row, revisions, review, responses, exclusive', updating',
               revisionLock', keyLock')
    BY <1>4, EndedFits DEF Ended
  <2>5. \A u \in Transactions \ {t} : Differ(k, tx[u])
    BY <2>1 DEF Differ
  <2>6. tx' = [tx EXCEPT ![t] = k]
    BY <1>5
  <2> HIDE DEF k
  <2> QED BY <1>1, <2>1, <2>3, <2>4, <2>5, <2>6, TxMoves
<1>6. CASE /\ responses[key] = NoResponse
           /\ keyLock' = [keyLock EXCEPT ![key] = t]
           /\ Goes(t, "project")
  <2>1. PICK k \in TxStates :
          /\ tx' = [tx EXCEPT ![t] = k]
          /\ k.step = "project" /\ k.cmd = tx[t].cmd
          /\ k.snapshot = tx[t].snapshot /\ k.found = tx[t].found
          /\ k.inserted = tx[t].inserted
    BY <1>2, <1>6, Going DEF Steps
  <2>2. LocksTyped' /\ OthersKeep(t)
    BY <1>1, <1>2, <1>3, <1>6, TransactionsAssumption
       DEF LocksTyped, OthersKeep
  <2>3. Shape(k) /\ ~k.inserted
    BY <1>1, <1>2, <2>1, FitsOf
       DEF Shape, Working, Ended, TxStates, Kinds, Restore, Raw
  <2>4. KeyHeld(t, k, responses, keyLock')
    BY <1>2, <1>6, <2>1 DEF KeyHeld, LocksTyped
  <2>5. /\ RowHeld(t, k, row, review, exclusive', updating')
        /\ UpdateHeld(t, k, updating')
        /\ FoundFits(t, k, revisions, revisionLock')
        /\ LockFits(t, k, revisions, revisionLock')
        /\ InsertFits(k, revisions)
        /\ DeleteFits(t, k, revisions, revisionLock')
    BY <1>4, <2>1, <2>3
       DEF RowHeld, Held, UpdateHeld, FoundFits, LockFits, InsertFits,
           DeleteFits
  <2>6. TxFits(t, k, row, revisions, review, responses, exclusive',
               updating', revisionLock', keyLock')
    BY <2>3, <2>4, <2>5 DEF TxFits
  <2>7. \A u \in Transactions \ {t} : Differ(k, tx[u])
    BY <2>3 DEF Differ
  <2> QED BY <1>1, <2>1, <2>2, <2>6, <2>7, TxMoves
<1> QED BY <1>5, <1>6 DEF LockKey

LEMMA LockProjectKeeps ==
  ASSUME PostgresInv, NEW t \in Transactions, LockProject(t)
  PROVE  PostgresInv'
<1> DEFINE cmd == tx[t].cmd
           p == cmd.project
           step == IF cmd.kind = Restore
                   THEN IF cmd.parent = None THEN "upsert" ELSE "latest"
                   ELSE IF cmd.revision = None THEN "finish" ELSE "latest"
<1>1. /\ UNCHANGED tables /\ UNCHANGED <<updating, shared, revisionLock,
                                         keyLock>>
      /\ tx[t].step = "project" /\ WaitsFor(t) = {} /\ ProjectFits(t)
      /\ exclusive' = IF row[p] = "missing" THEN exclusive
                      ELSE [exclusive EXCEPT ![p] = t]
      /\ Goes(t, step)
  BY DEF LockProject, Runs
<1>2. /\ cmd \in CallCommands /\ cmd.kind \in Kinds \cup {Restore}
      /\ p \in Projects /\ LocksTyped /\ TypeOK
      /\ cmd.kind = Restore => tx[t].snapshot \in Snapshots
      /\ ~tx[t].inserted /\ cmd.kind # Raw
  BY <1>1, FitsOf, CallFields
     DEF Shape, Working, Ended, Kinds, Raw, Restore
<1>3. row[p] # "missing" => exclusive[p] \in {t, NoTx}
                            /\ updating[p] \in {t, NoTx}
  BY <1>1 DEF WaitsFor
<1>4. /\ \A q \in Projects : updating[q] # t
      /\ \A r \in Revisions : revisionLock[r] # t
  BY <1>1, FitsOf DEF UpdateHeld, LockFits, Locking
<1>5. LocksTyped' /\ OthersKeep(t)
  BY <1>1, <1>2, <1>3, TransactionsAssumption DEF LocksTyped, OthersKeep
<1>6. step \in {"upsert", "latest", "finish"}
  OBVIOUS
<1>7. PICK k \in TxStates :
        /\ tx' = [tx EXCEPT ![t] = k]
        /\ k.step = step /\ k.cmd = tx[t].cmd
        /\ k.snapshot = tx[t].snapshot /\ k.found = tx[t].found
        /\ k.inserted = tx[t].inserted
  BY <1>1, <1>2, <1>6, Going DEF Steps
<1>8. /\ step = "upsert" => cmd.kind = Restore
      /\ step = "latest" => cmd.kind = Restore \/ cmd.revision # None
      /\ step = "finish" => cmd.kind \in Kinds /\ cmd.revision = None
  BY <1>2
<1> HIDE DEF step
<1>9. Shape(k) /\ ~k.inserted
  <2>1. k.found = None /\ None # Gone
    BY <1>1, <1>7, FitsOf DEF Shape, None, Gone
  <2>2. k.inserted = FALSE
    BY <1>2, <1>7, TxFields
  <2> QED BY <1>2, <1>6, <1>7, <1>8, <2>1, <2>2 DEF Shape
<1>10. KeyHeld(t, k, responses, keyLock')
  BY <1>1, <1>7, FitsOf DEF KeyHeld, Held
<1>11. RowHeld(t, k, row, review, exclusive', updating')
  <2>1. cmd.kind \in Kinds => row[p] = "live" /\ MetadataFits(review[p], cmd)
    BY <1>1 DEF ProjectFits, Kinds, Restore
  <2>2. cmd.kind \in Kinds => exclusive'[p] = t /\ updating'[p] = NoTx
    BY <1>1, <1>2, <1>3, <1>4, <2>1 DEF LocksTyped
  <2> QED BY <1>7, <1>8, <2>1, <2>2 DEF RowHeld, Held
<1>12. /\ UpdateHeld(t, k, updating')
       /\ LockFits(t, k, revisions, revisionLock')
       /\ InsertFits(k, revisions)
       /\ DeleteFits(t, k, revisions, revisionLock')
       /\ FoundFits(t, k, revisions, revisionLock')
  BY <1>1, <1>4, <1>6, <1>7, <1>8, <1>9
     DEF UpdateHeld, LockFits, InsertFits, DeleteFits, FoundFits
<1>13. TxFits(t, k, row, revisions, review, responses, exclusive', updating',
              revisionLock', keyLock')
  BY <1>9, <1>10, <1>11, <1>12 DEF TxFits
<1>14. \A u \in Transactions \ {t} : Differ(k, tx[u])
  BY <1>9 DEF Differ
<1> QED BY <1>1, <1>5, <1>7, <1>13, <1>14, TxMoves

(* The latest revision of a sequenced history is one of the project's, and *)
(* no other has its sequence.                                              *)
LEMMA LatestFits ==
  ASSUME NEW revs \in [Revisions -> Stored], Sequenced(revs),
         NEW p, p # None, OfProject(revs, p) # {}
  PROVE  /\ Latest(revs, p) \in OfProject(revs, p)
         /\ Latest(revs, p) \in Revisions /\ Latest(revs, p) # None
         /\ \A r \in OfProject(revs, p) :
              /\ revs[r].sequence \in 1..MaxSequence
              /\ revs[r].sequence <= revs[Latest(revs, p)].sequence
<1>1. \A r \in OfProject(revs, p) :
        r \in Revisions /\ revs[r].sequence \in 1..MaxSequence
  BY DEF Sequenced, OfProject
<1>2. \A r \in OfProject(revs, p) : revs[r].sequence <= MaxSequence
  BY <1>1, SequenceAssumption
<1>3. /\ Latest(revs, p) \in OfProject(revs, p)
      /\ \A r \in OfProject(revs, p) :
           revs[r].sequence <= revs[Latest(revs, p)].sequence
  BY <1>2, LatestOf, SequenceAssumption
<1> QED BY <1>1, <1>3, NamesAssumption

LEMMA NoneIsLatest ==
  ASSUME NEW revs \in [Revisions -> Stored], Sequenced(revs),
         NEW p, p # None
  PROVE  Latest(revs, p) = None <=> OfProject(revs, p) = {}
BY LatestFits DEF Latest

LEMMA PickLatestKeeps ==
  ASSUME PostgresInv, NEW t \in Transactions, PickLatest(t)
  PROVE  PostgresInv'
<1> DEFINE cmd == tx[t].cmd
           p == cmd.project
           found == Latest(revisions, p)
           k == [tx[t] EXCEPT !.step = "lock_latest", !.found = found]
<1>1. /\ UNCHANGED tables /\ UNCHANGED locks
      /\ tx[t].step = "latest" /\ found # None
      /\ tx' = [tx EXCEPT ![t] = k]
  BY DEF PickLatest
<1>2. /\ cmd \in CallCommands /\ p \in Projects /\ p # None
      /\ TypeOK /\ (cmd.kind = Restore \/ cmd.revision # None)
      /\ cmd.kind = Restore => tx[t].snapshot \in Snapshots
      /\ ~tx[t].inserted
  BY <1>1, FitsOf, CallFields DEF Shape, Working, Ended
<1>3. found \in OfProject(revisions, p) /\ found \in Revisions
  <2>1. revisions \in [Revisions -> Stored] /\ Sequenced(revisions)
    BY DEF PostgresInv, TypeOK
  <2>2. OfProject(revisions, p) # {}
    BY <1>1 DEF Latest
  <2> QED BY <1>2, <2>1, <2>2, LatestFits
<1>4. /\ k.step = "lock_latest" /\ k.cmd = cmd /\ k.found = found
      /\ k.snapshot = tx[t].snapshot /\ k.inserted = FALSE
  BY <1>2, TxFields DEF TxStates
<1>5. k \in TxStates
  <2>1. tx[t] \in TxStates
    BY <1>2, TxFields
  <2> HIDE DEF found
  <2> QED BY <1>3, <2>1 DEF TxStates, Steps
<1>6. LocksTyped' /\ OthersKeep(t)
  BY <1>1, FitsOf, LocksStay
<1>7. /\ \A q \in Projects : updating[q] # t
      /\ \A r \in Revisions : revisionLock[r] # t
  BY <1>1, FitsOf DEF UpdateHeld, LockFits, Locking
<1>8. revisions[found].project = p
  BY <1>3 DEF OfProject
<1> HIDE DEF k, found
<1>9. Shape(k)
  BY <1>1, <1>2, <1>4 DEF Shape
<1>10. KeyHeld(t, k, responses, keyLock')
  BY <1>1, <1>4, FitsOf DEF KeyHeld, Held, locks
<1>11. RowHeld(t, k, row, review, exclusive', updating')
  BY <1>1, <1>4, FitsOf DEF RowHeld, Held, locks
<1>12. /\ UpdateHeld(t, k, updating')
       /\ LockFits(t, k, revisions, revisionLock')
       /\ InsertFits(k, revisions)
       /\ DeleteFits(t, k, revisions, revisionLock')
       /\ FoundFits(t, k, revisions, revisionLock')
  BY <1>1, <1>4, <1>7, <1>8
     DEF UpdateHeld, LockFits, InsertFits, DeleteFits, FoundFits, locks
<1>13. TxFits(t, k, row, revisions, review, responses, exclusive', updating',
              revisionLock', keyLock')
  BY <1>9, <1>10, <1>11, <1>12 DEF TxFits
<1>14. \A u \in Transactions \ {t} : Differ(k, tx[u])
  BY <1>4 DEF Differ
<1> QED BY <1>1, <1>5, <1>6, <1>13, <1>14, TxMoves

(* The row's lock is taken, or there is no row; what the command expected  *)
(* was found.                                                              *)
Finds(t, k, found) ==
  /\ tx[t].step \in {"latest", "lock_latest"}
  /\ found \in Revisions \cup {None} /\ ParentFits(t, found)
  /\ found # None => /\ revisions[found].project = tx[t].cmd.project
                     /\ revisionLock[found] \in {t, NoTx}
  /\ UNCHANGED <<tables, exclusive, updating, shared, keyLock>>
  /\ revisionLock' = IF found = None THEN revisionLock
                     ELSE [revisionLock EXCEPT ![found] = t]
  /\ tx' = [tx EXCEPT ![t] = k]
  /\ k.step = AfterLatest(t) /\ k.cmd = tx[t].cmd /\ k.found = found
  /\ k.snapshot = tx[t].snapshot /\ k.inserted = tx[t].inserted

LEMMA FoundKeeps ==
  ASSUME PostgresInv, NEW t \in Transactions, NEW k \in TxStates,
         NEW found, Finds(t, k, found)
  PROVE  PostgresInv'
<1> DEFINE cmd == tx[t].cmd
           p == cmd.project
<1>0. /\ tx[t].step \in {"latest", "lock_latest"}
      /\ found \in Revisions \cup {None} /\ ParentFits(t, found)
      /\ found # None => /\ revisions[found].project = tx[t].cmd.project
                         /\ revisionLock[found] \in {t, NoTx}
      /\ UNCHANGED tables
      /\ UNCHANGED <<exclusive, updating, shared, keyLock>>
      /\ revisionLock' = IF found = None THEN revisionLock
                         ELSE [revisionLock EXCEPT ![found] = t]
      /\ tx' = [tx EXCEPT ![t] = k]
      /\ k.step = AfterLatest(t) /\ k.cmd = tx[t].cmd /\ k.found = found
      /\ k.snapshot = tx[t].snapshot /\ k.inserted = tx[t].inserted
  BY DEF Finds
<1>1. /\ cmd \in CallCommands /\ p \in Projects /\ p # None
      /\ TypeOK /\ LocksTyped
      /\ cmd.kind = Restore \/ cmd.revision # None
      /\ cmd.kind = Restore => tx[t].snapshot \in Snapshots
      /\ cmd.kind \in Kinds \cup {Raw, Restore}
      /\ ~tx[t].inserted
  BY <1>0, FitsOf, CallFields DEF Shape, Working, Ended
<1>2. k.step = AfterLatest(t) /\ k.cmd = cmd /\ k.inserted = FALSE
  BY <1>0, <1>1, TxFields
<1>3. LocksTyped' /\ OthersKeep(t)
  BY <1>0, <1>1, TransactionsAssumption DEF LocksTyped, OthersKeep
<1>4. \A q \in Projects : updating[q] # t
  BY <1>0, FitsOf DEF UpdateHeld
<1>5. /\ \A r \in Revisions : revisionLock'[r] = t => r = found
      /\ found # None => revisionLock'[found] = t
  BY <1>0, <1>1, FitsOf DEF LockFits, LocksTyped, Locking
<1>6. /\ AfterLatest(t) \in {"insert", "upsert"}
      /\ AfterLatest(t) = "insert" => cmd.kind # Restore
      /\ AfterLatest(t) = "upsert" => cmd.kind = Restore
  BY DEF AfterLatest
<1>7. found # Gone
  BY <1>0, GoneAssumption DEF None, Gone
<1>8. Shape(k)
  BY <1>0, <1>1, <1>2, <1>6, <1>7 DEF Shape
<1>9. KeyHeld(t, k, responses, keyLock')
  BY <1>0, <1>2, <1>6, FitsOf DEF KeyHeld, Held
<1>10. RowHeld(t, k, row, review, exclusive', updating')
  BY <1>0, <1>2, <1>6, FitsOf DEF RowHeld, Held, Kinds, Restore
<1>11. UpdateHeld(t, k, updating')
  BY <1>0, <1>2, <1>4, <1>6 DEF UpdateHeld
<1>12. LockFits(t, k, revisions, revisionLock')
  BY <1>0, <1>2, <1>5, <1>6, NamesAssumption DEF LockFits, Locking
<1>13. InsertFits(k, revisions) /\ DeleteFits(t, k, revisions, revisionLock')
  BY <1>2, <1>6 DEF InsertFits, DeleteFits
<1>14. FoundFits(t, k, revisions, revisionLock')
  BY <1>0, <1>2, <1>5, <1>6 DEF FoundFits, ParentFits
<1>15. TxFits(t, k, row, revisions, review, responses, exclusive', updating',
              revisionLock', keyLock')
  BY <1>8, <1>9, <1>10, <1>11, <1>12, <1>13, <1>14 DEF TxFits
<1>16. \A u \in Transactions \ {t} : Differ(k, tx[u])
  BY <1>2 DEF Differ
<1> QED BY <1>0, <1>2, <1>3, <1>15, <1>16, TxMoves

LEMMA NoLatestKeeps ==
  ASSUME PostgresInv, NEW t \in Transactions, NoLatest(t)
  PROVE  PostgresInv'
<1>1. CASE Abort(t)
  BY <1>1, AbortKeeps
<1>2. CASE /\ ParentFits(t, None)
           /\ tx' = [tx EXCEPT ![t].step = AfterLatest(t), ![t].found = None]
           /\ UNCHANGED <<tables, locks>>
  <2> DEFINE k == [tx[t] EXCEPT !.step = AfterLatest(t), !.found = None]
  <2>1. tx' = [tx EXCEPT ![t] = k]
    BY <1>2
  <2>2. /\ UNCHANGED tables
        /\ UNCHANGED <<exclusive, updating, shared, keyLock>>
        /\ UNCHANGED revisionLock /\ ParentFits(t, None)
    BY <1>2 DEF locks
  <2>3. tx[t].step \in {"latest", "lock_latest"}
    BY DEF NoLatest
  <2>4. /\ k \in TxStates
        /\ k.step = AfterLatest(t) /\ k.cmd = tx[t].cmd /\ k.found = None
        /\ k.snapshot = tx[t].snapshot /\ k.inserted = tx[t].inserted
    BY FitsOf, TxFields DEF TxStates, AfterLatest, Steps
  <2> HIDE DEF k
  <2>5. Finds(t, k, None)
    BY <2>1, <2>2, <2>3, <2>4 DEF Finds
  <2> QED BY <2>4, <2>5, FoundKeeps
<1> QED BY <1>1, <1>2 DEF NoLatest

LEMMA LockLatestKeeps ==
  ASSUME PostgresInv, NEW t \in Transactions, LockLatest(t)
  PROVE  PostgresInv'
<1> DEFINE found == tx[t].found
<1>1. CASE Abort(t)
  BY <1>1, AbortKeeps
<1>2. CASE /\ ParentFits(t, found)
           /\ revisionLock' = [revisionLock EXCEPT ![found] = t]
           /\ Goes(t, AfterLatest(t))
           /\ UNCHANGED <<tables, exclusive, updating, shared, keyLock>>
  <2>1. tx[t].step = "lock_latest" /\ found # Gone /\ WaitsFor(t) = {}
    BY DEF LockLatest, Runs
  <2>2. /\ found \in Revisions /\ found # None /\ TypeOK
        /\ revisions[found].project = tx[t].cmd.project
    BY <2>1, FitsOf, TxFields DEF Shape, FoundFits
  <2>3. revisionLock[found] \in {t, NoTx}
    BY <2>1 DEF WaitsFor
  <2>4. PICK k \in TxStates :
          /\ tx' = [tx EXCEPT ![t] = k]
          /\ k.step = AfterLatest(t) /\ k.cmd = tx[t].cmd
          /\ k.snapshot = tx[t].snapshot /\ k.found = found
          /\ k.inserted = tx[t].inserted
    BY <1>2, <2>2, Going DEF AfterLatest, Steps
  <2> HIDE DEF found
  <2>5. Finds(t, k, found)
    BY <1>2, <2>1, <2>2, <2>3, <2>4 DEF Finds
  <2> QED BY <2>5, FoundKeeps
<1> QED BY <1>1, <1>2 DEF LockLatest

LEMMA InsertKeeps ==
  ASSUME PostgresInv, NEW t \in Transactions, Insert(t)
  PROVE  PostgresInv'
<1> DEFINE cmd == tx[t].cmd
           k == [tx[t] EXCEPT !.inserted = TRUE, !.step = "key_share"]
<1>1. /\ UNCHANGED tables /\ UNCHANGED locks
      /\ tx[t].step = "insert" /\ WaitsFor(t) = {} /\ Unique(t)
      /\ tx' = [tx EXCEPT ![t] = k]
  BY DEF Insert, Runs
<1>2. /\ TypeOK /\ cmd \in CallCommands
      /\ cmd.revision # None /\ cmd.kind \in Kinds \cup {Raw}
      /\ tx[t].found # Gone /\ cmd.kind # Restore
  BY <1>1, FitsOf DEF Shape, Working, Ended, Kinds, Raw, Restore
<1>3. /\ k.step = "key_share" /\ k.cmd = cmd /\ k.found = tx[t].found
      /\ k.snapshot = tx[t].snapshot /\ k.inserted = TRUE
      /\ k \in TxStates
  BY <1>2, TxFields DEF TxStates, Steps
<1>4. LocksTyped' /\ OthersKeep(t)
  BY <1>1, FitsOf, LocksStay
<1>5. \A u \in Transactions \ {t} :
        ~Inserted(u, cmd.revision, cmd.project, cmd.sequence)
  <2>1. \A u \in Transactions : u # NoTx
    BY TransactionsAssumption
  <2> QED BY <1>1, <2>1 DEF WaitsFor
<1> HIDE DEF k
<1>6. Shape(k)
  BY <1>1, <1>2, <1>3 DEF Shape
<1>7. KeyHeld(t, k, responses, keyLock')
  BY <1>1, <1>3, FitsOf DEF KeyHeld, Held, locks
<1>8. RowHeld(t, k, row, review, exclusive', updating')
  BY <1>1, <1>3, FitsOf DEF RowHeld, Held, locks
<1>9. /\ UpdateHeld(t, k, updating')
      /\ LockFits(t, k, revisions, revisionLock')
      /\ DeleteFits(t, k, revisions, revisionLock')
      /\ FoundFits(t, k, revisions, revisionLock')
  BY <1>1, <1>3, FitsOf
     DEF UpdateHeld, LockFits, Locking, DeleteFits, FoundFits, locks
<1>10. InsertFits(k, revisions)
  BY <1>1, <1>3 DEF InsertFits, Unique
<1>11. TxFits(t, k, row, revisions, review, responses, exclusive', updating',
              revisionLock', keyLock')
  BY <1>6, <1>7, <1>8, <1>9, <1>10 DEF TxFits
<1>12. \A u \in Transactions \ {t} : Differ(k, tx[u])
  BY <1>3, <1>5 DEF Differ, Inserted
<1> QED BY <1>1, <1>3, <1>4, <1>11, <1>12, TxMoves

LEMMA ShareProjectKeeps ==
  ASSUME PostgresInv, NEW t \in Transactions, ShareProject(t)
  PROVE  PostgresInv'
<1> DEFINE cmd == tx[t].cmd
           p == cmd.project
<1>1. CASE Abort(t)
  BY <1>1, AbortKeeps
<1>2. CASE /\ row[p] # "missing"
           /\ shared' = [shared EXCEPT ![p] = @ \cup {t}]
           /\ Goes(t, "finish")
           /\ UNCHANGED <<tables, exclusive, updating, revisionLock, keyLock>>
  <2>1. tx[t].step = "key_share" /\ UNCHANGED tables
    BY <1>2 DEF ShareProject, Runs
  <2>2. /\ TypeOK /\ LocksTyped /\ cmd \in CallCommands /\ p \in Projects
        /\ cmd.revision # None /\ cmd.kind \in Kinds \cup {Raw}
        /\ tx[t].found # Gone /\ cmd.kind # Restore /\ tx[t].inserted
    BY <2>1, FitsOf, CallFields
       DEF Shape, Working, Ended, Kinds, Raw, Restore
  <2>3. PICK k \in TxStates :
          /\ tx' = [tx EXCEPT ![t] = k]
          /\ k.step = "finish" /\ k.cmd = tx[t].cmd
          /\ k.snapshot = tx[t].snapshot /\ k.found = tx[t].found
          /\ k.inserted = tx[t].inserted
    BY <1>2, <2>2, Going DEF Steps
  <2>4. LocksTyped' /\ OthersKeep(t)
    BY <1>2, <2>2 DEF LocksTyped, OthersKeep
  <2>5. Shape(k)
    BY <2>1, <2>2, <2>3 DEF Shape
  <2>6. KeyHeld(t, k, responses, keyLock')
    BY <1>2, <2>1, <2>3, FitsOf DEF KeyHeld, Held
  <2>7. RowHeld(t, k, row, review, exclusive', updating')
    BY <1>2, <2>1, <2>3, FitsOf DEF RowHeld, Held
  <2>8. /\ UpdateHeld(t, k, updating')
        /\ LockFits(t, k, revisions, revisionLock')
        /\ DeleteFits(t, k, revisions, revisionLock')
        /\ FoundFits(t, k, revisions, revisionLock')
        /\ InsertFits(k, revisions)
    BY <1>2, <2>1, <2>3, FitsOf
       DEF UpdateHeld, LockFits, Locking, DeleteFits, FoundFits, InsertFits
  <2>9. TxFits(t, k, row, revisions, review, responses, exclusive',
               updating', revisionLock', keyLock')
    BY <2>5, <2>6, <2>7, <2>8 DEF TxFits
  <2>10. \A u \in Transactions \ {t} : Differ(k, tx[u])
    BY <2>3 DEF PostgresInv, AllDiffer, Differ
  <2> QED BY <2>1, <2>3, <2>4, <2>9, <2>10, TxMoves
<1> QED BY <1>1, <1>2 DEF ShareProject

LEMMA UpsertKeeps ==
  ASSUME PostgresInv, NEW t \in Transactions, Upsert(t)
  PROVE  PostgresInv'
<1> DEFINE cmd == tx[t].cmd
           p == cmd.project
<1>1. /\ tx[t].step = "upsert" /\ WaitsFor(t) = {} /\ UNCHANGED tables
      /\ updating' = [updating EXCEPT ![p] = t] /\ Goes(t, "delete")
      /\ UNCHANGED <<exclusive, shared, revisionLock, keyLock>>
  BY DEF Upsert, Runs
<1>2. /\ TypeOK /\ LocksTyped /\ cmd \in CallCommands /\ p \in Projects
      /\ cmd.kind = Restore /\ ~tx[t].inserted
      /\ tx[t].snapshot \in Snapshots
  BY <1>1, FitsOf, CallFields DEF Shape, Working, Ended
<1>3. exclusive[p] \in {t, NoTx} /\ updating[p] \in {t, NoTx}
  BY <1>1 DEF WaitsFor
<1>4. PICK k \in TxStates :
        /\ tx' = [tx EXCEPT ![t] = k]
        /\ k.step = "delete" /\ k.cmd = tx[t].cmd
        /\ k.snapshot = tx[t].snapshot /\ k.found = tx[t].found
        /\ k.inserted = tx[t].inserted
  BY <1>1, <1>2, Going DEF Steps
<1>5. LocksTyped' /\ OthersKeep(t)
  BY <1>1, <1>2, <1>3, TransactionsAssumption DEF LocksTyped, OthersKeep
<1>6. Shape(k)
  BY <1>1, <1>2, <1>4, TxFields DEF Shape
<1>7. /\ KeyHeld(t, k, responses, keyLock')
      /\ RowHeld(t, k, row, review, exclusive', updating')
  BY <1>2, <1>4 DEF KeyHeld, RowHeld, Held, Restore, Kinds
<1>8. UpdateHeld(t, k, updating')
  BY <1>1, <1>2, <1>4, FitsOf DEF UpdateHeld, LocksTyped
<1>9. /\ LockFits(t, k, revisions, revisionLock')
      /\ DeleteFits(t, k, revisions, revisionLock')
      /\ FoundFits(t, k, revisions, revisionLock')
      /\ InsertFits(k, revisions)
  BY <1>1, <1>2, <1>4, FitsOf
     DEF LockFits, Locking, DeleteFits, FoundFits, InsertFits
<1>10. TxFits(t, k, row, revisions, review, responses, exclusive', updating',
              revisionLock', keyLock')
  BY <1>6, <1>7, <1>8, <1>9 DEF TxFits
<1>11. \A u \in Transactions \ {t} : Differ(k, tx[u])
  BY <1>2, <1>4 DEF Differ
<1> QED BY <1>1, <1>4, <1>5, <1>10, <1>11, TxMoves

LEMMA DeleteRowsKeeps ==
  ASSUME PostgresInv, NEW t \in Transactions, DeleteRows(t)
  PROVE  PostgresInv'
<1> DEFINE cmd == tx[t].cmd
           p == cmd.project
<1>1. /\ tx[t].step = "delete" /\ WaitsFor(t) = {} /\ UNCHANGED tables
      /\ revisionLock' = [r \in Revisions |->
           IF r \in OfProject(revisions, p) THEN t ELSE revisionLock[r]]
      /\ Goes(t, "restore")
      /\ UNCHANGED <<exclusive, updating, shared, keyLock>>
  BY DEF DeleteRows, Runs
<1>2. /\ TypeOK /\ LocksTyped /\ cmd \in CallCommands /\ p \in Projects
      /\ cmd.kind = Restore /\ ~tx[t].inserted
      /\ tx[t].snapshot \in Snapshots
  BY <1>1, FitsOf, CallFields DEF Shape, Working, Ended
<1>3. \A r \in OfProject(revisions, p) : revisionLock[r] \in {t, NoTx}
  BY <1>1 DEF WaitsFor
<1>4. PICK k \in TxStates :
        /\ tx' = [tx EXCEPT ![t] = k]
        /\ k.step = "restore" /\ k.cmd = tx[t].cmd
        /\ k.snapshot = tx[t].snapshot /\ k.found = tx[t].found
        /\ k.inserted = tx[t].inserted
  BY <1>1, <1>2, Going DEF Steps
<1>5. LocksTyped' /\ OthersKeep(t)
  BY <1>1, <1>2, <1>3, TransactionsAssumption DEF LocksTyped, OthersKeep
<1>6. Shape(k)
  BY <1>1, <1>2, <1>4, TxFields DEF Shape
<1>7. /\ KeyHeld(t, k, responses, keyLock')
      /\ RowHeld(t, k, row, review, exclusive', updating')
  BY <1>2, <1>4 DEF KeyHeld, RowHeld, Held, Restore, Kinds
<1>8. UpdateHeld(t, k, updating')
  BY <1>1, <1>2, <1>4, FitsOf DEF UpdateHeld, LocksTyped
<1>9. \A r \in OfProject(revisions, p) : revisionLock'[r] = t
  BY <1>1 DEF OfProject
<1>10. LockFits(t, k, revisions, revisionLock')
  BY <1>1, <1>4, FitsOf DEF LockFits, Locking, OfProject
<1>11. /\ DeleteFits(t, k, revisions, revisionLock')
       /\ FoundFits(t, k, revisions, revisionLock')
       /\ InsertFits(k, revisions)
  BY <1>2, <1>4, <1>9 DEF DeleteFits, FoundFits, InsertFits
<1>12. TxFits(t, k, row, revisions, review, responses, exclusive', updating',
              revisionLock', keyLock')
  BY <1>6, <1>7, <1>8, <1>10, <1>11 DEF TxFits
<1>13. \A u \in Transactions \ {t} : Differ(k, tx[u])
  BY <1>2, <1>4 DEF Differ
<1> QED BY <1>1, <1>4, <1>5, <1>12, <1>13, TxMoves

-----------------------------------------------------------------------------
(* A revision is committed.                                                *)

(* The inserted row continues its project's history.                       *)
LEMMA RowFits ==
  ASSUME PostgresInv, NEW t \in Transactions, tx[t].step = "finish",
         NEW new, new = tx[t].cmd.revision, new # None
  PROVE  LET cmd == tx[t].cmd
             p == cmd.project
             found == tx[t].found
         IN
         /\ new \in Revisions /\ p \in Projects /\ p # None
         /\ revisions[new] = Absent /\ row[p] # "missing"
         /\ cmd.sequence \in 1..MaxSequence
         /\ \A r \in OfProject(revisions, p) :
              revisions[r].sequence # cmd.sequence
         /\ \/ found = None /\ cmd.sequence = 1
            \/ /\ found \in OfProject(revisions, p) /\ revisionLock[found] = t
               /\ cmd.sequence = revisions[found].sequence + 1
         /\ found = cmd.parent
         /\ tx[t].inserted
<1> DEFINE cmd == tx[t].cmd
           p == cmd.project
           found == tx[t].found
<1>1. /\ TypeOK /\ cmd \in CallCommands /\ tx[t].inserted /\ found # Gone
      /\ found \in Revisions \cup {None}
  BY FitsOf, TxFields DEF Shape, Working, Ended
<1>2. /\ new \in Revisions /\ p \in Projects /\ p # None
      /\ cmd.sequence \in 1..MaxSequence
  BY <1>1, CallFields
<1>3. /\ revisions[new] = Absent
      /\ \A r \in OfProject(revisions, p) :
           revisions[r].sequence # cmd.sequence
  BY <1>1, FitsOf DEF InsertFits
<1>4. /\ IsNext(cmd, found, SequenceOf(revisions, found))
      /\ found # None => revisionLock[found] = t
  BY FitsOf DEF FoundFits
<1>5. found # None => found \in OfProject(revisions, p)
  BY <1>1, <1>4, FitsOf DEF LockFits, OfProject
<1>6. found = cmd.parent
      /\ cmd.sequence = SequenceOf(revisions, found) + 1
  BY <1>4 DEF IsNext
<1>7. row[p] # "missing"
  BY FitsOf DEF RowHeld
<1>8. found = None => cmd.sequence = 1
  BY <1>6 DEF SequenceOf
<1>9. found # None => cmd.sequence = revisions[found].sequence + 1
  BY <1>6 DEF SequenceOf
<1> QED BY <1>1, <1>2, <1>3, <1>4, <1>5, <1>6, <1>7, <1>8, <1>9

LEMMA CommittedRevisions ==
  ASSUME PostgresInv, NEW t \in Transactions, tx[t].step = "finish",
         NEW revs, revs = WithRevision(revisions, tx[t].cmd)
  PROVE  /\ revs \in [Revisions -> Stored] /\ Sequenced(revs)
         /\ \A r \in Revisions :
              revisions[r].project # None => revs[r] = revisions[r]
         /\ \A r \in Revisions : revs[r] # revisions[r] =>
              /\ r = tx[t].cmd.revision /\ tx[t].inserted
              /\ revs[r].project = tx[t].cmd.project
              /\ revs[r].sequence = tx[t].cmd.sequence
              /\ \/ revs[r].sequence = 1
                 \/ \E q \in OfProject(revisions, tx[t].cmd.project) :
                      /\ revisionLock[q] = t
                      /\ revs[r].sequence = revisions[q].sequence + 1
         /\ \A p \in Projects : row[p] = "missing" => OfProject(revs, p) = {}
<1> DEFINE cmd == tx[t].cmd
           p == cmd.project
           new == cmd.revision
<1>1. TypeOK /\ Sequenced(revisions) /\ None \notin Revisions \cup Projects
      /\ TablesFit(row, revisions, review, baselineRows, changeRows)
  BY NamesAssumption DEF PostgresInv
<1>2. CASE new = None
  <2>1. revs = revisions
    BY <1>2 DEF WithRevision
  <2> QED BY <1>1, <2>1 DEF TypeOK, TablesFit
<1>3. CASE new # None
  <2> DEFINE added == [project |-> p, sequence |-> cmd.sequence]
  <2>1. /\ new \in Revisions /\ p \in Projects /\ p # None
        /\ revisions[new] = Absent /\ row[p] # "missing"
        /\ cmd.sequence \in 1..MaxSequence /\ tx[t].inserted
        /\ \A r \in OfProject(revisions, p) :
             revisions[r].sequence # cmd.sequence
        /\ \/ cmd.sequence = 1
           \/ \E q \in OfProject(revisions, p) :
                /\ revisionLock[q] = t
                /\ cmd.sequence = revisions[q].sequence + 1
    BY <1>3, RowFits
  <2>0. revs = [revisions EXCEPT ![new] = added]
    BY <1>3 DEF WithRevision
  <2>2. /\ added \in Stored /\ added.project = p
        /\ added.sequence = cmd.sequence
    BY <2>1, SequenceAssumption DEF Stored
  <2>3. /\ revs \in [Revisions -> Stored] /\ revs[new] = added
        /\ \A r \in Revisions \ {new} : revs[r] = revisions[r]
    BY <1>1, <2>0, <2>1, <2>2 DEF TypeOK
  <2> HIDE DEF added
  <2>4. revisions[new].project = None
    BY <2>1 DEF Absent
  <2>5. /\ OfProject(revs, p) = OfProject(revisions, p) \cup {new}
        /\ new \notin OfProject(revisions, p)
        /\ \A q \in Projects \ {p} :
             OfProject(revs, q) = OfProject(revisions, q)
    BY <1>1, <2>1, <2>2, <2>3, <2>4 DEF OfProject
  <2>6. Sequenced(revs)
    <3> SUFFICES ASSUME NEW r \in Revisions, revs[r].project # None
                 PROVE
                   /\ revs[r].sequence \in 1..MaxSequence
                   /\ \/ revs[r].sequence = 1
                      \/ \E q \in OfProject(revs, revs[r].project) :
                           revs[r].sequence = revs[q].sequence + 1
                   /\ \A q \in OfProject(revs, revs[r].project) :
                        revs[q].sequence = revs[r].sequence => q = r
      BY DEF Sequenced
    <3>1. CASE r = new
      <4>1. \A q \in OfProject(revisions, p) : q # new /\ q \in Revisions
        BY <2>5 DEF OfProject
      <4>2. /\ revs[r].sequence = cmd.sequence /\ revs[r].project = p
            /\ \A q \in OfProject(revisions, p) :
                 revs[q] = revisions[q] /\ q \in OfProject(revs, p)
        BY <2>2, <2>3, <2>5, <3>1, <4>1
      <4>3. \A q \in OfProject(revs, p) :
              revs[q].sequence = revs[r].sequence => q = r
        BY <2>1, <2>5, <3>1, <4>2
      <4>4. \/ revs[r].sequence = 1
            \/ \E q \in OfProject(revs, p) :
                 revs[r].sequence = revs[q].sequence + 1
        BY <2>1, <4>2
      <4> QED BY <2>1, <4>2, <4>3, <4>4
    <3>2. CASE r # new
      <4>1. /\ revs[r] = revisions[r] /\ revisions[r].project # None
            /\ revisions[r].project \in Projects
        BY <1>1, <2>3, <3>2 DEF TypeOK, Stored
      <4> DEFINE o == revisions[r].project
      <4>2. /\ revisions[r].sequence \in 1..MaxSequence
            /\ \/ revisions[r].sequence = 1
               \/ \E q \in OfProject(revisions, o) :
                    revisions[r].sequence = revisions[q].sequence + 1
            /\ \A q \in OfProject(revisions, o) :
                 revisions[q].sequence = revisions[r].sequence => q = r
        BY <1>1, <4>1 DEF Sequenced
      <4>3. \A q \in OfProject(revisions, o) :
              revs[q] = revisions[q] /\ q \in OfProject(revs, o)
        BY <2>3, <2>4, <4>1 DEF OfProject
      <4>4. \A q \in OfProject(revs, o) :
              revs[q].sequence = revs[r].sequence => q = r
        <5> SUFFICES ASSUME NEW q \in OfProject(revs, o),
                            revs[q].sequence = revs[r].sequence
                     PROVE  q = r
          OBVIOUS
        <5>1. CASE q \in OfProject(revisions, o)
          BY <4>1, <4>2, <4>3, <5>1
        <5>2. CASE q \notin OfProject(revisions, o)
          <6>1. q = new /\ o = p
            BY <2>5, <4>1, <5>2
          <6>2. r \in OfProject(revisions, p)
            BY <6>1 DEF OfProject
          <6> QED BY <2>1, <2>2, <2>3, <4>1, <6>1, <6>2
        <5> QED BY <5>1, <5>2
      <4> QED BY <4>1, <4>2, <4>3, <4>4
    <3> QED BY <3>1, <3>2
  <2>7. \A q \in Projects : row[q] = "missing" => OfProject(revs, q) = {}
    BY <1>1, <2>1, <2>5 DEF TablesFit
  <2> QED BY <2>1, <2>2, <2>3, <2>4, <2>6, <2>7
<1> QED BY <1>2, <1>3

(* The commit of a command or of appendRevision; what it writes besides    *)
(* the revision is its project's, under the lock of the project's row, and *)
(* its key's.                                                              *)
RowCommits(t) ==
  /\ tx[t].step = "finish"
  /\ revisions' = WithRevision(revisions, tx[t].cmd)
  /\ ReleaseLocks(t)
  /\ tx' = [tx EXCEPT ![t] = EndedTx("committed")]
  /\ UNCHANGED row
  /\ review' \in [Projects -> ReviewStates]
  /\ baselineRows' \in [Projects -> SUBSET Baselines]
  /\ changeRows' \in [Projects -> SUBSET Changes]
  /\ responses' \in [Keys -> Responses]
  /\ \A p \in Projects :
       /\ exclusive[p] # t \/ p # tx[t].cmd.project => review'[p] = review[p]
       /\ ChangeIds(review'[p]) \subseteq changeRows'[p]
       /\ review'[p].baseline \in baselineRows'[p] \cup {None}
       /\ review'[p].baseline = None => review'[p].changes = <<>>
  /\ \A key \in Keys : keyLock[key] # t => responses'[key] = responses[key]

LEMMA OthersAtCommit ==
  ASSUME PostgresInv, NEW t \in Transactions, RowCommits(t),
         NEW u \in Transactions, u # t
  PROVE  TxFits(u, tx[u], row', revisions', review', responses', exclusive',
                updating', revisionLock', keyLock')
<1> DEFINE k == tx[u]
           cmd == tx[u].cmd
           p == cmd.project
<1>1. /\ tx[t].step = "finish" /\ row' = row /\ OthersKeep(t)
      /\ revisions' = WithRevision(revisions, tx[t].cmd)
      /\ \A q \in Projects :
           exclusive[q] # t \/ q # tx[t].cmd.project => review'[q] = review[q]
      /\ \A key \in Keys :
           keyLock[key] # t => responses'[key] = responses[key]
  BY Released DEF RowCommits
<1>2. /\ TypeOK /\ Shape(k)
      /\ Working(k) =>
           /\ cmd \in CallCommands /\ p \in Projects /\ p # None
           /\ cmd.key \in Keys \cup {None}
           /\ cmd.revision \in Revisions \cup {None}
      /\ k.found \in Revisions \cup {None, Gone}
  BY FitsOf, CallFields, TxFields DEF Shape
<1>3. /\ revisions' \in [Revisions -> Stored]
      /\ \A r \in Revisions :
           revisions[r].project # None => revisions'[r] = revisions[r]
      /\ \A r \in Revisions : revisions'[r] # revisions[r] =>
           /\ r = tx[t].cmd.revision /\ tx[t].inserted
           /\ revisions'[r].project = tx[t].cmd.project
           /\ revisions'[r].sequence = tx[t].cmd.sequence
           /\ \/ revisions'[r].sequence = 1
              \/ \E q \in OfProject(revisions, tx[t].cmd.project) :
                   /\ revisionLock[q] = t
                   /\ revisions'[r].sequence = revisions[q].sequence + 1
  BY <1>1, CommittedRevisions
<1>4. \A r \in Revisions : revisionLock'[r] = u <=> revisionLock[r] = u
  BY <1>1 DEF OthersKeep
<1>5. KeyHeld(u, k, responses', keyLock')
  <2> SUFFICES ASSUME cmd.kind \in Kinds, cmd.key # None,
                      k.step = "project" \/ Held(k)
               PROVE  keyLock'[cmd.key] = u /\ responses'[cmd.key] = NoResponse
    BY DEF KeyHeld
  <2>1. Working(k)
    BY DEF Working, Held, Ended
  <2>2. keyLock[cmd.key] = u /\ responses[cmd.key] = NoResponse
    BY FitsOf DEF KeyHeld
  <2> QED BY <1>1, <1>2, <2>1, <2>2 DEF OthersKeep
<1>6. RowHeld(u, k, row', review', exclusive', updating')
  <2>1. Held(k) => Working(k)
    BY DEF Working, Held, Ended
  <2>2. RowHeld(u, k, row, review, exclusive, updating)
    BY FitsOf
  <2> QED BY <1>1, <1>2, <2>1, <2>2 DEF RowHeld, OthersKeep
<1>7. UpdateHeld(u, k, updating')
  BY <1>1, FitsOf DEF UpdateHeld, OthersKeep
<1>8. LockFits(u, k, revisions', revisionLock')
  <2>1. k.step \in Locking => Working(k)
    BY DEF Locking, Working, Ended
  <2>2. LockFits(u, k, revisions, revisionLock)
    BY FitsOf
  <2> QED BY <1>2, <1>3, <1>4, <2>1, <2>2 DEF LockFits
<1>9. FoundFits(u, k, revisions', revisionLock')
  <2>1. FoundFits(u, k, revisions, revisionLock)
        /\ LockFits(u, k, revisions, revisionLock)
    BY FitsOf
  <2>2. k.step \in {"lock_latest", "insert", "key_share", "finish"} =>
          Working(k)
    BY DEF Working, Ended
  <2>3. CASE k.step = "lock_latest" /\ k.found # Gone
    <3>1. k.found \in Revisions /\ revisions[k.found].project = p
      BY <1>2, <2>1, <2>3 DEF FoundFits, Shape
    <3> QED BY <1>2, <1>3, <2>2, <2>3, <3>1 DEF FoundFits
  <2>4. CASE /\ k.step \in {"insert", "key_share", "finish"}
             /\ cmd.revision # None
    <3>1. /\ IsNext(cmd, k.found, SequenceOf(revisions, k.found))
          /\ k.found # Gone
          /\ k.found # None => revisionLock[k.found] = u
      BY <1>2, <2>1, <2>4 DEF FoundFits, Shape
    <3>2. k.found # None => revisions[k.found].project = p
      BY <1>2, <2>1, <3>1 DEF LockFits
    <3>3. SequenceOf(revisions', k.found) = SequenceOf(revisions, k.found)
      BY <1>2, <1>3, <2>2, <2>4, <3>1, <3>2 DEF SequenceOf
    <3> QED BY <1>2, <1>4, <2>4, <3>1, <3>3 DEF FoundFits
  <2> QED BY <2>3, <2>4 DEF FoundFits
<1>10. InsertFits(k, revisions')
  <2> SUFFICES ASSUME k.inserted
               PROVE  /\ revisions'[cmd.revision] = Absent
                      /\ \A r \in OfProject(revisions', p) :
                           revisions'[r].sequence # cmd.sequence
    BY DEF InsertFits
  <2>1. Working(k) /\ cmd.revision # None
    BY <1>2 DEF Shape, Working, Ended
  <2>2. /\ revisions[cmd.revision] = Absent
        /\ \A r \in OfProject(revisions, p) :
             revisions[r].sequence # cmd.sequence
    BY FitsOf DEF InsertFits
  <2>3. tx[t].inserted =>
          /\ tx[t].cmd.revision # cmd.revision
          /\ tx[t].cmd.project # p \/ tx[t].cmd.sequence # cmd.sequence
    BY DEF PostgresInv, AllDiffer, Differ
  <2>4. \A r \in OfProject(revisions', p) :
          \/ revisions'[r] = revisions[r] /\ r \in OfProject(revisions, p)
          \/ /\ tx[t].inserted /\ tx[t].cmd.project = p
             /\ revisions'[r].sequence = tx[t].cmd.sequence
    BY <1>3 DEF OfProject
  <2> QED BY <1>2, <1>3, <2>1, <2>2, <2>3, <2>4
<1>11. DeleteFits(u, k, revisions', revisionLock')
  <2> SUFFICES ASSUME k.step = "restore",
                      NEW r \in OfProject(revisions', p)
               PROVE
                 /\ \/ revisionLock'[r] = u
                    \/ revisions'[r].sequence = 1
                    \/ \E q \in OfProject(revisions', p) :
                         /\ revisionLock'[q] # u
                         /\ revisions'[r].sequence =
                              revisions'[q].sequence + 1
                 /\ Raw \notin CallKinds => revisionLock'[r] = u
    BY DEF DeleteFits
  <2>1. Working(k)
    BY DEF Working, Ended
  <2>2. \A q \in OfProject(revisions, p) :
          /\ q \in Revisions /\ revisions'[q] = revisions[q]
          /\ q \in OfProject(revisions', p)
    BY <1>2, <1>3, <2>1 DEF OfProject
  <2>3. CASE r \in OfProject(revisions, p)
    <3>1. /\ \/ revisionLock[r] = u
             \/ revisions[r].sequence = 1
             \/ \E q \in OfProject(revisions, p) :
                  /\ revisionLock[q] # u
                  /\ revisions[r].sequence = revisions[q].sequence + 1
          /\ Raw \notin CallKinds => revisionLock[r] = u
      BY <2>3, FitsOf DEF DeleteFits
    <3> QED BY <1>4, <2>2, <2>3, <3>1
  <2>4. CASE r \notin OfProject(revisions, p)
    <3>1. r \in Revisions /\ revisions'[r] # revisions[r]
          /\ revisions'[r].project = p
      BY <2>4 DEF OfProject
    <3>2. \/ revisions'[r].sequence = 1
          \/ \E q \in OfProject(revisions, p) :
               /\ revisionLock[q] = t
               /\ revisions'[r].sequence = revisions[q].sequence + 1
      BY <1>3, <3>1
    <3>3. Raw \in CallKinds
      <4>1. tx[t].inserted /\ tx[t].cmd.project = p
        BY <1>3, <3>1
      <4>2. updating[p] = u
        BY <1>2, <2>1, FitsOf DEF UpdateHeld
      <4>3. ~Held(tx[t])
        BY <4>1, <4>2, FitsOf, TransactionsAssumption DEF RowHeld
      <4>4. tx[t].cmd \in CallCommands /\ tx[t].cmd.kind \in Kinds \cup {Raw}
        BY <1>1, FitsOf DEF Shape, Working, Ended
      <4>5. tx[t].cmd.kind = Raw
        BY <1>1, <4>3, <4>4 DEF Held
      <4> QED BY <4>4, <4>5, CallFields
    <3> QED BY <1>4, <2>2, <3>2, <3>3
  <2> QED BY <2>3, <2>4
<1> HIDE DEF k
<1> QED BY <1>2, <1>5, <1>6, <1>7, <1>8, <1>9, <1>10, <1>11 DEF TxFits, k

LEMMA RowCommitsKeep ==
  ASSUME PostgresInv, NEW t \in Transactions, RowCommits(t)
  PROVE  PostgresInv'
<1> DEFINE k == EndedTx("committed")
<1>1. /\ tx[t].step = "finish" /\ row' = row
      /\ revisions' = WithRevision(revisions, tx[t].cmd)
      /\ tx' = [tx EXCEPT ![t] = k]
      /\ LocksTyped' /\ OthersKeep(t)
      /\ \A p \in Projects : updating'[p] # t
      /\ \A r \in Revisions : revisionLock'[r] # t
  BY Released DEF RowCommits
<1>2. /\ revisions' \in [Revisions -> Stored] /\ Sequenced(revisions')
      /\ \A p \in Projects :
           row[p] = "missing" => OfProject(revisions', p) = {}
  BY <1>1, CommittedRevisions
<1>3. k \in TxStates /\ k.inserted = FALSE
  BY EndedFields DEF Ended
<1>4. TypeOK /\ RowHeld(t, tx[t], row, review, exclusive, updating)
      /\ TablesFit(row, revisions, review, baselineRows, changeRows)
  BY FitsOf DEF PostgresInv
<1> HIDE DEF k
<1>5. tx'[t] = k /\ \A u \in Transactions \ {t} : tx'[u] = tx[u]
  BY <1>1, <1>4 DEF TypeOK
<1>6. TypeOK'
  BY <1>1, <1>2, <1>3, <1>4 DEF TypeOK, LocksTyped, RowCommits
<1>7. AllFit'
  <2> SUFFICES ASSUME NEW u \in Transactions
               PROVE  TxFits(u, tx[u], row, revisions, review, responses,
                             exclusive, updating, revisionLock, keyLock)'
    BY DEF AllFit
  <2>1. CASE u = t
    <3>1. TxFits(t, k, row', revisions', review', responses', exclusive',
                 updating', revisionLock', keyLock')
      BY <1>1, EndedFits DEF k, Ended
    <3> QED BY <1>5, <2>1, <3>1
  <2>2. CASE u # t
    BY <1>5, <2>2, OthersAtCommit
  <2> QED BY <2>1, <2>2
<1>8. AllDiffer'
  BY <1>3, <1>5 DEF PostgresInv, AllDiffer, Differ
<1>9. TablesFit(row', revisions', review', baselineRows', changeRows')
  <2> SUFFICES ASSUME NEW p \in Projects
               PROVE
                 /\ row'[p] = "missing" =>
                      OfProject(revisions', p) = {} /\ review'[p] = Draft
                 /\ ChangeIds(review'[p]) \subseteq changeRows'[p]
                 /\ review'[p].baseline \in baselineRows'[p] \cup {None}
                 /\ review'[p].baseline = None => review'[p].changes = <<>>
    BY DEF TablesFit
  <2>1. row[p] = "missing" => review[p] = Draft /\ p # tx[t].cmd.project
    BY <1>1, <1>4 DEF TablesFit, RowHeld
  <2>2. /\ p # tx[t].cmd.project => review'[p] = review[p]
        /\ ChangeIds(review'[p]) \subseteq changeRows'[p]
        /\ review'[p].baseline \in baselineRows'[p] \cup {None}
        /\ review'[p].baseline = None => review'[p].changes = <<>>
    BY DEF RowCommits
  <2> QED BY <1>1, <1>2, <2>1, <2>2
<1> QED BY <1>2, <1>6, <1>7, <1>8, <1>9 DEF PostgresInv

LEMMA CommitCommandKeeps ==
  ASSUME PostgresInv, NEW t \in Transactions, CommitCommand(t)
  PROVE  PostgresInv'
<1> DEFINE cmd == tx[t].cmd
           p == cmd.project
           next == Reviewed(review[p], cmd, tx[t].found)
<1>1. /\ tx[t].step = "finish" /\ cmd.kind # Raw /\ RowsFit(cmd)
      /\ revisions' = WithRevision(revisions, cmd)
      /\ review' = [review EXCEPT ![p] = next]
      /\ baselineRows' =
           [baselineRows EXCEPT ![p] = BaselineRowsAfter(cmd)]
      /\ changeRows' =
           [changeRows EXCEPT ![p] = changeRows[p] \cup ChangeIds(review'[p])]
      /\ responses' = Answered(responses, review[p], cmd)
      /\ tx' = [tx EXCEPT ![t] = EndedTx("committed")]
      /\ ReleaseLocks(t) /\ UNCHANGED row
  BY DEF CommitCommand
<1>2. /\ TypeOK /\ cmd \in CallCommands /\ cmd.kind \in Kinds
      /\ cmd \in Commands /\ WellFormed(cmd)
      /\ p \in Projects /\ cmd.key \in Keys \cup {None}
      /\ tx[t].found \in Revisions \cup {None}
  <2>1. /\ cmd \in CallCommands /\ cmd.kind \in Kinds \cup {Raw}
        /\ tx[t].found # Gone
    BY <1>1, FitsOf DEF Shape, Working, Ended
  <2> QED BY <1>1, <2>1, FitsOf, TxFields, CallFields
<1>3. /\ exclusive[p] = t
      /\ cmd.key # None => keyLock[cmd.key] = t
  BY <1>1, <1>2, FitsOf DEF RowHeld, KeyHeld, Held
<1>4. next \in ReviewStates
  BY <1>2, ReviewedTyped DEF TypeOK
<1>5. /\ next.baseline \in {review[p].baseline, cmd.baseline}
      /\ next.baseline # review[p].baseline => cmd.baseline # None
      /\ next.baseline = None =>
           next = review[p] \/ next.changes = <<>>
  BY <1>2 DEF Reviewed, Ready, WithChange, HadBaseline, TypeOK, ReviewStates
<1>6. cmd.baseline \in Baselines \cup {None}
  BY <1>2 DEF Commands
<1>7. responses' \in [Keys -> Responses]
      /\ \A key \in Keys : keyLock[key] # t => responses'[key] = responses[key]
  <2>1. Answered(responses, review[p], cmd) \in [Keys -> Responses]
    BY <1>2, AnsweredTyped DEF TypeOK
  <2>2. \A key \in Keys : keyLock[key] # t =>
          Answered(responses, review[p], cmd)[key] = responses[key]
    BY <1>2, <1>3 DEF Answered, TypeOK
  <2> QED BY <1>1, <2>1, <2>2
<1> HIDE DEF next
<1>8. /\ review' \in [Projects -> ReviewStates] /\ review'[p] = next
      /\ \A q \in Projects : q # p => review'[q] = review[q]
  BY <1>1, <1>2, <1>4 DEF TypeOK
<1>9. /\ ChangeIds(next) \subseteq Changes
      /\ changeRows' \in [Projects -> SUBSET Changes]
      /\ ChangeIds(next) \subseteq changeRows'[p]
      /\ \A q \in Projects : q # p => changeRows'[q] = changeRows[q]
  BY <1>1, <1>2, <1>4, <1>8, IdsAreChanges DEF TypeOK
<1>10. /\ baselineRows' \in [Projects -> SUBSET Baselines]
       /\ baselineRows[p] \subseteq baselineRows'[p]
       /\ cmd.baseline \in baselineRows'[p] \cup {None}
       /\ \A q \in Projects : q # p => baselineRows'[q] = baselineRows[q]
  BY <1>1, <1>2, <1>6 DEF TypeOK, BaselineRowsAfter
<1>11. \A q \in Projects :
         /\ ChangeIds(review[q]) \subseteq changeRows[q]
         /\ review[q].baseline \in baselineRows[q] \cup {None}
         /\ review[q].baseline = None => review[q].changes = <<>>
  BY DEF PostgresInv, TablesFit
<1>12. \A q \in Projects :
         /\ exclusive[q] # t \/ q # p => review'[q] = review[q]
         /\ ChangeIds(review'[q]) \subseteq changeRows'[q]
         /\ review'[q].baseline \in baselineRows'[q] \cup {None}
         /\ review'[q].baseline = None => review'[q].changes = <<>>
  <2> TAKE q \in Projects
  <2>1. CASE q = p
    BY <1>2, <1>3, <1>5, <1>8, <1>9, <1>10, <1>11, <2>1
  <2>2. CASE q # p
    BY <1>8, <1>9, <1>10, <1>11, <2>2
  <2> QED BY <2>1, <2>2
<1>13. RowCommits(t)
  BY <1>1, <1>7, <1>8, <1>9, <1>10, <1>12 DEF RowCommits
<1> QED BY <1>13, RowCommitsKeep

LEMMA CommitAppendKeeps ==
  ASSUME PostgresInv, NEW t \in Transactions, CommitAppend(t)
  PROVE  PostgresInv'
<1>1. RowCommits(t)
  BY FitsOf DEF CommitAppend, RowCommits, TypeOK, PostgresInv, TablesFit
<1> QED BY <1>1, RowCommitsKeep

LEMMA ProjectRowKeeps ==
  ASSUME PostgresInv, NEW p \in Projects, CreateProject(p) \/ DeleteProject(p)
  PROVE  PostgresInv'
<1>1. UNCHANGED <<revisions, review, baselineRows, changeRows, responses,
                  exclusive, updating, shared, revisionLock, keyLock, tx>>
  BY DEF CreateProject, DeleteProject, locks
<1>2. /\ row' \in [Projects -> {"missing", "live", "deleted"}]
      /\ row'[p] # "missing"
      /\ \A q \in Projects \ {p} : row'[q] = row[q]
      /\ exclusive[p] # NoTx => row'[p] = "live"
  BY DEF CreateProject, DeleteProject, PostgresInv, TypeOK
<1>3. TypeOK'
  BY <1>1, <1>2 DEF PostgresInv, TypeOK
<1>4. AllFit'
  <2> SUFFICES ASSUME NEW t \in Transactions
               PROVE  TxFits(t, tx[t], row, revisions, review, responses,
                             exclusive, updating, revisionLock, keyLock)'
    BY DEF AllFit
  <2>1. TxFits(t, tx[t], row, revisions, review, responses, exclusive,
               updating, revisionLock, keyLock)
    BY DEF PostgresInv, AllFit
  <2>2. Held(tx[t]) \/ tx[t].step = "finish" => tx[t].cmd.project \in Projects
    BY FitsOf, CallFields DEF Shape, Working, Ended, Held
  <2>3. RowHeld(t, tx[t], row', review, exclusive, updating)
    BY <1>2, <2>1, <2>2, TransactionsAssumption DEF TxFits, RowHeld
  <2> QED BY <1>1, <2>1, <2>3 DEF TxFits
<1>5. AllDiffer' /\ Sequenced(revisions)'
  BY <1>1 DEF PostgresInv, AllDiffer
<1>6. TablesFit(row, revisions, review, baselineRows, changeRows)'
  BY <1>1, <1>2 DEF PostgresInv, TablesFit
<1> QED BY <1>3, <1>4, <1>5, <1>6 DEF PostgresInv

-----------------------------------------------------------------------------
(* A replacement is committed.                                             *)

(* The sequences of a snapshot are 1, 2, ..., each once.                   *)
LEMMA SnapshotSequences ==
  ASSUME NEW s \in Snapshots
  PROVE  /\ ValidSnapshot(s)
         /\ \A r \in DOMAIN s.sequences :
              /\ r \in Revisions /\ s.sequences[r] \in 1..MaxSequence
              /\ \/ s.sequences[r] = 1
                 \/ \E q \in DOMAIN s.sequences :
                      s.sequences[r] = s.sequences[q] + 1
              /\ \A q \in DOMAIN s.sequences :
                   s.sequences[q] = s.sequences[r] => q = r
<1> DEFINE D == DOMAIN s.sequences
           n == Cardinality(D)
           f == [r \in D |-> s.sequences[r]]
<1>1. ValidSnapshot(s) /\ {s.sequences[r] : r \in D} = 1..n
  BY SnapshotsAssumption, ContiguousAssumption
<1>2. /\ D \subseteq Revisions /\ IsFiniteSet(D)
      /\ \A r \in D : s.sequences[r] \in 1..MaxSequence
  BY <1>1 DEF ValidSnapshot
<1>3. n \in Nat
  BY <1>2, FS_CardinalityType
<1>4. IsFiniteSet(1..n) /\ Cardinality(1..n) = n
  BY <1>3, FS_Interval
<1> HIDE DEF D, n
<1>5. f \in Surjection(D, 1..n)
  BY <1>1 DEF Surjection, f
<1>6. f \in Injection(D, 1..n)
  BY <1>2, <1>4, <1>5, FS_SurjSameCardinalityImpliesInj DEF n
<1>7. \A q, r \in D : s.sequences[q] = s.sequences[r] => q = r
  BY <1>6 DEF Injection, IsInjective, f
<1>8. \A r \in D : \/ s.sequences[r] = 1
                   \/ \E q \in D : s.sequences[r] = s.sequences[q] + 1
  <2> TAKE r \in D
  <2>1. s.sequences[r] \in 1..n
    BY <1>1
  <2>2. s.sequences[r] # 1 => s.sequences[r] - 1 \in 1..n
    BY <1>3, <2>1
  <2>3. s.sequences[r] # 1 =>
          \E q \in D : s.sequences[r] - 1 = s.sequences[q]
    BY <1>1, <2>2
  <2>4. \A q \in D : s.sequences[q] \in Int
    BY <1>2, SequenceAssumption
  <2> QED BY <2>1, <2>3, <2>4
<1> QED BY <1>1, <1>2, <1>7, <1>8 DEF D

LEMMA RestoredRevisions ==
  ASSUME PostgresInv, NEW t \in Transactions, tx[t].step = "restore",
         SnapshotFits(t), NEW revs,
         revs = Restored(AfterDelete(t), tx[t].cmd.project, tx[t].snapshot)
  PROVE  LET p == tx[t].cmd.project
             s == tx[t].snapshot
             D == DOMAIN s.sequences
         IN
         /\ p \in Projects /\ p # None /\ s \in Snapshots
         /\ D \subseteq Revisions
         /\ revs \in [Revisions -> Stored] /\ Sequenced(revs)
         /\ \A r \in D : revs[r].project = p
                         /\ revs[r].sequence = s.sequences[r]
         /\ \A r \in Revisions :
              revisions[r].project # None /\ revisionLock[r] # t =>
                revs[r] = revisions[r] /\ r \notin D
         /\ \A r \in Revisions \ D :
              revisions[r].project = None => revs[r] = revisions[r]
         /\ \A r \in Revisions \ D :
              revisionLock[r] = t => revs[r] = Absent
         /\ \A r \in Revisions : revisionLock[r] = t =>
              revisions[r].project = p
         /\ \A q \in Projects \ {p} :
              /\ OfProject(revs, q) = OfProject(revisions, q)
              /\ \A r \in OfProject(revs, q) : revs[r] = revisions[r]
         /\ Raw \notin CallKinds => OfProject(revs, p) = D
<1> DEFINE p == tx[t].cmd.project
           s == tx[t].snapshot
           D == DOMAIN s.sequences
           rest == AfterDelete(t)
           Left == {r \in OfProject(revisions, p) : revisionLock[r] # t}
<1>1. /\ TypeOK /\ p \in Projects /\ p # None /\ s \in Snapshots
      /\ Sequenced(revisions)
      /\ LockFits(t, tx[t], revisions, revisionLock)
      /\ DeleteFits(t, tx[t], revisions, revisionLock)
  BY FitsOf, CallFields DEF Shape, Working, Ended, PostgresInv
<1>2. /\ ValidSnapshot(s) /\ D \subseteq Revisions
      /\ \A r \in D :
           /\ s.sequences[r] \in 1..MaxSequence
           /\ \/ s.sequences[r] = 1
              \/ \E q \in D : s.sequences[r] = s.sequences[q] + 1
           /\ \A q \in D : s.sequences[q] = s.sequences[r] => q = r
  BY <1>1, SnapshotSequences
<1>3. /\ \A r \in D : rest[r] = Absent
      /\ \A r \in D : \A o \in OfProject(rest, p) :
           rest[o].sequence # s.sequences[r]
  BY DEF SnapshotFits
<1>4. \A r \in Revisions : revisionLock[r] = t => revisions[r].project = p
  BY <1>1 DEF LockFits
<1>5. \A r \in Revisions :
        rest[r] = IF revisionLock[r] = t THEN Absent ELSE revisions[r]
  BY <1>4 DEF AfterDelete
<1>6. \A r \in Revisions :
        revs[r] = IF r \in D THEN [project |-> p, sequence |-> s.sequences[r]]
                  ELSE rest[r]
  BY DEF Restored
<1>7. Absent \in Stored /\ Absent.project = None
  BY DEF Absent, Stored
<1>8. \A r \in D : /\ [project |-> p, sequence |-> s.sequences[r]] \in Stored
                   /\ revs[r].project = p
                   /\ revs[r].sequence = s.sequences[r]
  <2> TAKE r \in D
  <2>1. s.sequences[r] \in Nat
    BY <1>2, SequenceAssumption
  <2>2. revs[r] = [project |-> p, sequence |-> s.sequences[r]]
    BY <1>2, <1>6
  <2> QED BY <1>1, <2>1, <2>2 DEF Stored
<1> HIDE DEF rest, D
<1>9. revs \in [Revisions -> Stored]
  <2>1. \A r \in Revisions : revs[r] \in Stored
    BY <1>1, <1>5, <1>6, <1>7, <1>8 DEF TypeOK
  <2>2. revs = [r \in Revisions |-> revs[r]]
    BY DEF Restored, D
  <2> QED BY <2>1, <2>2
<1>10. \A r \in Revisions :
         revisions[r].project # None /\ revisionLock[r] # t =>
           revs[r] = revisions[r] /\ r \notin D
  BY <1>3, <1>5, <1>6, <1>7
<1>11. \A r \in Revisions \ D :
         /\ revisions[r].project = None => revs[r] = revisions[r]
         /\ revisionLock[r] = t => revs[r] = Absent
  BY <1>1, <1>4, <1>5, <1>6
<1>12. OfProject(revs, p) = D \cup Left
  <2>1. \A r \in D : r \in OfProject(revs, p)
    BY <1>2, <1>8 DEF OfProject
  <2>2. \A r \in Left : r \in OfProject(revs, p)
    BY <1>1, <1>10 DEF OfProject
  <2>3. \A r \in OfProject(revs, p) : r \in D \/ r \in Left
    BY <1>1, <1>5, <1>6, <1>7 DEF OfProject
  <2> QED BY <2>1, <2>2, <2>3
<1>13. \A r \in Left : r \in Revisions /\ r \in OfProject(rest, p)
                       /\ revs[r] = revisions[r] /\ rest[r] = revisions[r]
  BY <1>1, <1>5, <1>10 DEF OfProject
<1>14. \A r \in Left :
         /\ revisions[r].sequence \in 1..MaxSequence
         /\ \/ revisions[r].sequence = 1
            \/ \E q \in Left :
                 revisions[r].sequence = revisions[q].sequence + 1
         /\ \A q \in Left :
              revisions[q].sequence = revisions[r].sequence => q = r
  BY <1>1 DEF Sequenced, DeleteFits, OfProject
<1>15. Raw \notin CallKinds => Left = {}
  BY <1>1 DEF DeleteFits
<1> HIDE DEF Left
<1>16. \A r \in OfProject(revs, p) :
         /\ revs[r].sequence \in 1..MaxSequence
         /\ \/ revs[r].sequence = 1
            \/ \E q \in OfProject(revs, p) :
                 revs[r].sequence = revs[q].sequence + 1
         /\ \A q \in OfProject(revs, p) :
              revs[q].sequence = revs[r].sequence => q = r
  <2> TAKE r \in OfProject(revs, p)
  <2>1. CASE r \in D
    <3>1. revs[r].sequence = s.sequences[r]
      BY <1>8, <2>1
    <3>2. \A q \in Left : revs[q].sequence # revs[r].sequence
      BY <1>3, <1>13, <2>1, <3>1
    <3>3. \A q \in D : revs[q].sequence = s.sequences[q]
      BY <1>8
    <3> QED BY <1>2, <1>12, <2>1, <3>1, <3>2, <3>3
  <2>2. CASE r \in Left
    <3>1. \A q \in D : revs[q].sequence # revs[r].sequence
      <4>1. \A q \in D : revs[q].sequence = s.sequences[q]
        BY <1>8
      <4> QED BY <1>3, <1>13, <2>2, <4>1
    <3> QED BY <1>12, <1>13, <1>14, <2>2, <3>1
  <2> QED BY <1>12, <2>1, <2>2
<1>17. \A q \in Projects \ {p} :
         /\ OfProject(revs, q) = OfProject(revisions, q)
         /\ \A r \in OfProject(revs, q) : revs[r] = revisions[r]
  <2> TAKE q \in Projects \ {p}
  <2>1. q # None
    BY NamesAssumption
  <2>2. \A r \in Revisions : revs[r].project = q =>
          revs[r] = revisions[r]
    BY <1>5, <1>6, <1>7, <1>8, <2>1
  <2>3. \A r \in Revisions : revisions[r].project = q =>
          revs[r] = revisions[r]
    BY <1>4, <1>10, <2>1
  <2> QED BY <2>2, <2>3 DEF OfProject
<1>18. Sequenced(revs)
  <2> SUFFICES ASSUME NEW r \in Revisions, revs[r].project # None
               PROVE
                 /\ revs[r].sequence \in 1..MaxSequence
                 /\ \/ revs[r].sequence = 1
                    \/ \E q \in OfProject(revs, revs[r].project) :
                         revs[r].sequence = revs[q].sequence + 1
                 /\ \A q \in OfProject(revs, revs[r].project) :
                      revs[q].sequence = revs[r].sequence => q = r
    BY DEF Sequenced
  <2> DEFINE o == revs[r].project
  <2>1. o \in Projects /\ r \in OfProject(revs, o)
    BY <1>9 DEF Stored, OfProject
  <2>2. CASE o = p
    <3>1. r \in OfProject(revs, p)
      BY <2>1, <2>2
    <3>2. /\ revs[r].sequence \in 1..MaxSequence
          /\ \/ revs[r].sequence = 1
             \/ \E q \in OfProject(revs, p) :
                  revs[r].sequence = revs[q].sequence + 1
          /\ \A q \in OfProject(revs, p) :
               revs[q].sequence = revs[r].sequence => q = r
      BY <1>16, <3>1
    <3> QED BY <2>2, <3>2
  <2>3. CASE o # p
    <3>1. /\ revs[r] = revisions[r] /\ revisions[r].project = o
          /\ OfProject(revs, o) = OfProject(revisions, o)
          /\ \A q \in OfProject(revs, o) : revs[q] = revisions[q]
      BY <1>17, <2>1, <2>3
    <3>2. /\ revisions[r].sequence \in 1..MaxSequence
          /\ \/ revisions[r].sequence = 1
             \/ \E q \in OfProject(revisions, o) :
                  revisions[r].sequence = revisions[q].sequence + 1
          /\ \A q \in OfProject(revisions, o) :
               revisions[q].sequence = revisions[r].sequence => q = r
      BY <1>1, <3>1 DEF Sequenced
    <3> HIDE DEF o
    <3>3. /\ revs[r].sequence \in 1..MaxSequence
          /\ \/ revs[r].sequence = 1
             \/ \E q \in OfProject(revs, o) :
                  revs[r].sequence = revs[q].sequence + 1
          /\ \A q \in OfProject(revs, o) :
               revs[q].sequence = revs[r].sequence => q = r
      BY <3>1, <3>2
    <3> QED BY <3>3 DEF o
  <2> QED BY <2>2, <2>3
<1> QED BY <1>1, <1>2, <1>4, <1>8, <1>9, <1>10, <1>11, <1>12, <1>15, <1>17,
           <1>18 DEF D

(* Whoever had picked a deleted row finds it gone; nobody else notices.    *)
AfterRestore(t, u) ==
  IF /\ tx[u].step = "lock_latest" /\ tx[u].found \in Revisions
     /\ revisionLock[tx[u].found] = t
  THEN [tx[u] EXCEPT !.found = Gone] ELSE tx[u]

LEMMA AfterRestoreFields ==
  ASSUME TypeOK, NEW t \in Transactions, NEW u \in Transactions
  PROVE  LET k == AfterRestore(t, u) IN
         /\ k \in TxStates /\ k.step = tx[u].step /\ k.cmd = tx[u].cmd
         /\ k.snapshot = tx[u].snapshot /\ k.inserted = tx[u].inserted
         /\ k.step # "lock_latest" => k.found = tx[u].found
         /\ k.step = "lock_latest" /\ k.found \in Revisions =>
              k.found = tx[u].found /\ revisionLock[k.found] # t
         /\ k.found = tx[u].found \/ k.found = Gone
<1>1. tx[u] \in TxStates
  BY TxFields
<1>2. CASE /\ tx[u].step = "lock_latest" /\ tx[u].found \in Revisions
           /\ revisionLock[tx[u].found] = t
  <2> DEFINE k == [tx[u] EXCEPT !.found = Gone]
  <2>1. AfterRestore(t, u) = k
    BY <1>2 DEF AfterRestore
  <2>2. /\ k \in TxStates /\ k.step = tx[u].step /\ k.cmd = tx[u].cmd
        /\ k.snapshot = tx[u].snapshot /\ k.inserted = tx[u].inserted
        /\ k.found = Gone
    BY <1>1 DEF TxStates
  <2> QED BY <1>2, <2>1, <2>2, GoneAssumption
<1>3. CASE ~(/\ tx[u].step = "lock_latest" /\ tx[u].found \in Revisions
             /\ revisionLock[tx[u].found] = t)
  <2>1. AfterRestore(t, u) = tx[u]
    BY <1>3 DEF AfterRestore
  <2> QED BY <1>1, <1>3, <2>1
<1> QED BY <1>2, <1>3

LEMMA OthersAtRestore ==
  ASSUME PostgresInv, NEW t \in Transactions, CommitRestore(t),
         NEW u \in Transactions, u # t
  PROVE  TxFits(u, AfterRestore(t, u), row', revisions', review', responses',
                exclusive', updating', revisionLock', keyLock')
<1> DEFINE k == AfterRestore(t, u)
           cmd == tx[u].cmd
           p == cmd.project
           op == tx[t].cmd.project
           s == tx[t].snapshot
           D == DOMAIN s.sequences
<1>1. /\ tx[t].step = "restore" /\ WaitsFor(t) = {} /\ SnapshotFits(t)
      /\ row' = [row EXCEPT ![op] = "live"]
      /\ revisions' = Restored(AfterDelete(t), op, s)
      /\ review' = [review EXCEPT ![op] = s.review]
      /\ ReleaseLocks(t) /\ responses' = responses
  BY DEF CommitRestore, Runs
<1>2. /\ TypeOK /\ Shape(tx[u])
      /\ Working(tx[u]) =>
           /\ cmd \in CallCommands /\ p \in Projects /\ p # None
           /\ cmd.revision \in Revisions \cup {None}
           /\ cmd.key \in Keys \cup {None}
      /\ tx[u].found \in Revisions \cup {None, Gone}
      /\ KeyHeld(u, tx[u], responses, keyLock)
      /\ RowHeld(u, tx[u], row, review, exclusive, updating)
      /\ UpdateHeld(u, tx[u], updating)
      /\ FoundFits(u, tx[u], revisions, revisionLock)
      /\ LockFits(u, tx[u], revisions, revisionLock)
      /\ InsertFits(tx[u], revisions)
      /\ DeleteFits(u, tx[u], revisions, revisionLock)
  BY FitsOf, CallFields, TxFields DEF Shape
<1>3. /\ op \in Projects /\ op # None /\ s \in Snapshots
      /\ D \subseteq Revisions
      /\ revisions' \in [Revisions -> Stored]
      /\ \A r \in D : revisions'[r].project = op
                      /\ revisions'[r].sequence = s.sequences[r]
      /\ \A r \in Revisions :
           revisions[r].project # None /\ revisionLock[r] # t =>
             revisions'[r] = revisions[r] /\ r \notin D
      /\ \A r \in Revisions \ D :
           revisions[r].project = None => revisions'[r] = revisions[r]
      /\ \A r \in Revisions \ D :
           revisionLock[r] = t => revisions'[r] = Absent
      /\ \A r \in Revisions : revisionLock[r] = t =>
           revisions[r].project = op
  BY <1>1, RestoredRevisions
<1>4. OthersKeep(t)
      /\ \A r \in Revisions : revisionLock'[r] = u <=> revisionLock[r] = u
  BY <1>1, Released DEF OthersKeep
<1>5. /\ k \in TxStates /\ k.step = tx[u].step /\ k.cmd = cmd
      /\ k.snapshot = tx[u].snapshot /\ k.inserted = tx[u].inserted
      /\ k.step # "lock_latest" => k.found = tx[u].found
      /\ k.step = "lock_latest" /\ k.found \in Revisions =>
           k.found = tx[u].found /\ revisionLock[k.found] # t
      /\ k.found = tx[u].found \/ k.found = Gone
  BY <1>2, AfterRestoreFields
<1> HIDE DEF k, D
<1>6. updating[op] = t
  BY <1>1, <1>3, FitsOf DEF UpdateHeld
<1>7. Held(k) \/ k.step = "restore" => p # op
  <2>1. k.step = "restore" => Working(tx[u]) /\ p \in Projects
    BY <1>2, <1>5 DEF Working, Ended
  <2>2. k.step = "restore" => updating[p] = u
    BY <1>2, <1>5, <2>1 DEF UpdateHeld
  <2>3. Held(k) => updating[p] = NoTx
    BY <1>2, <1>5 DEF RowHeld, Held
  <2> QED BY <1>6, <2>2, <2>3, TransactionsAssumption
<1>8. Shape(k)
  <2>1. None # Gone
    BY DEF None, Gone
  <2>2. Shape(tx[u])
    BY <1>2
  <2> QED BY <1>5, <2>1, <2>2 DEF Shape, Working, Ended
<1>9. KeyHeld(u, k, responses', keyLock')
  <2>1. k.step = "project" \/ Held(k) => Working(tx[u])
    BY <1>5 DEF Working, Held, Ended
  <2> QED BY <1>1, <1>2, <1>4, <1>5, <2>1 DEF KeyHeld, Held, OthersKeep
<1>10. RowHeld(u, k, row', review', exclusive', updating')
  <2>1. Held(k) \/ k.step = "finish" => Working(tx[u])
    BY <1>5 DEF Working, Held, Ended
  <2>2. /\ p # op /\ p \in Projects =>
             row'[p] = row[p] /\ review'[p] = review[p]
        /\ row'[op] = "live"
    BY <1>1, <1>2, <1>3 DEF TypeOK
  <2>3. Held(k) =>
          /\ exclusive'[p] = u /\ updating'[p] = NoTx
          /\ row'[p] = "live" /\ MetadataFits(review'[p], cmd)
    BY <1>2, <1>4, <1>5, <1>7, <2>1, <2>2 DEF RowHeld, Held, OthersKeep
  <2>4. k.step = "finish" => row'[p] # "missing"
    BY <1>2, <1>5, <2>1, <2>2 DEF RowHeld
  <2> QED BY <1>5, <2>3, <2>4 DEF RowHeld
<1>11. UpdateHeld(u, k, updating')
  BY <1>2, <1>4, <1>5 DEF UpdateHeld, OthersKeep
<1>12. LockFits(u, k, revisions', revisionLock')
  <2>1. tx[u].step \in Locking => Working(tx[u])
    BY DEF Locking, Working, Ended
  <2> QED BY <1>2, <1>3, <1>4, <1>5, <2>1 DEF LockFits
<1>13. FoundFits(u, k, revisions', revisionLock')
  <2>1. k.step \in {"lock_latest", "insert", "key_share", "finish"} =>
          Working(tx[u])
    BY <1>5 DEF Working, Ended
  <2>2. CASE k.step = "lock_latest" /\ k.found # Gone
    <3>1. /\ k.found = tx[u].found /\ k.found \in Revisions
          /\ revisions[k.found].project = p /\ revisionLock[k.found] # t
      BY <1>2, <1>5, <2>2 DEF FoundFits, Shape
    <3> QED BY <1>2, <1>3, <1>5, <2>1, <2>2, <3>1 DEF FoundFits
  <2>3. CASE /\ k.step \in {"insert", "key_share", "finish"}
             /\ cmd.revision # None
    <3>1. /\ k.found = tx[u].found /\ k.found \in Revisions \cup {None}
          /\ IsNext(cmd, k.found, SequenceOf(revisions, k.found))
          /\ k.found # None => revisionLock[k.found] = u
      BY <1>2, <1>5, <2>3 DEF FoundFits, Shape
    <3>2. k.found # None => revisions[k.found].project = p
      BY <1>2, <3>1 DEF LockFits
    <3>3. SequenceOf(revisions', k.found) = SequenceOf(revisions, k.found)
      BY <1>2, <1>3, <2>1, <2>3, <3>1, <3>2 DEF SequenceOf
    <3> QED BY <1>4, <1>5, <2>3, <3>1, <3>3 DEF FoundFits
  <2> QED BY <1>5, <2>2, <2>3 DEF FoundFits
<1>14. InsertFits(k, revisions')
  <2> SUFFICES ASSUME k.inserted
               PROVE  /\ revisions'[cmd.revision] = Absent
                      /\ \A r \in OfProject(revisions', p) :
                           revisions'[r].sequence # cmd.sequence
    BY <1>5 DEF InsertFits
  <2>1. /\ tx[u].inserted /\ Working(tx[u]) /\ cmd.revision # None
    BY <1>2, <1>5 DEF Shape, Working, Ended
  <2>2. /\ revisions[cmd.revision] = Absent
        /\ \A r \in OfProject(revisions, p) :
             revisions[r].sequence # cmd.sequence
    BY <1>2, <2>1 DEF InsertFits
  <2>3. \A r \in D : ~Inserted(u, r, op, s.sequences[r])
    <3>1. u # NoTx
      BY TransactionsAssumption
    <3> QED BY <1>1, <3>1 DEF WaitsFor, D
  <2>4. cmd.revision \notin D
    BY <2>1, <2>3 DEF Inserted
  <2>5. revisions'[cmd.revision] = Absent
    BY <1>2, <1>3, <2>1, <2>2, <2>4 DEF Absent
  <2>6. \A r \in OfProject(revisions', p) :
          \/ r \in D /\ p = op /\ revisions'[r].sequence = s.sequences[r]
          \/ revisions'[r] = revisions[r] /\ r \in OfProject(revisions, p)
    BY <1>2, <1>3, <2>1 DEF OfProject, Absent
  <2>7. \A r \in D : p = op => s.sequences[r] # cmd.sequence
    BY <2>1, <2>3 DEF Inserted
  <2> QED BY <2>2, <2>5, <2>6, <2>7
<1>15. DeleteFits(u, k, revisions', revisionLock')
  <2> SUFFICES ASSUME k.step = "restore",
                      NEW r \in OfProject(revisions', p)
               PROVE
                 /\ \/ revisionLock'[r] = u
                    \/ revisions'[r].sequence = 1
                    \/ \E q \in OfProject(revisions', p) :
                         /\ revisionLock'[q] # u
                         /\ revisions'[r].sequence =
                              revisions'[q].sequence + 1
                 /\ Raw \notin CallKinds => revisionLock'[r] = u
    BY <1>5 DEF DeleteFits
  <2>1. Working(tx[u]) /\ p # op /\ p # None
    BY <1>2, <1>5, <1>7 DEF Working, Ended
  <2>2. \A q \in OfProject(revisions, p) :
          /\ q \in Revisions /\ revisions'[q] = revisions[q]
          /\ q \in OfProject(revisions', p)
    BY <1>3, <2>1 DEF OfProject
  <2>3. r \in OfProject(revisions, p)
    BY <1>3, <2>1 DEF OfProject, Absent
  <2>4. /\ \/ revisionLock[r] = u
           \/ revisions[r].sequence = 1
           \/ \E q \in OfProject(revisions, p) :
                /\ revisionLock[q] # u
                /\ revisions[r].sequence = revisions[q].sequence + 1
        /\ Raw \notin CallKinds => revisionLock[r] = u
    BY <1>2, <1>5, <2>3 DEF DeleteFits
  <2> QED BY <1>4, <2>2, <2>3, <2>4
<1> QED BY <1>8, <1>9, <1>10, <1>11, <1>12, <1>13, <1>14, <1>15
        DEF TxFits, k

LEMMA CommitRestoreKeeps ==
  ASSUME PostgresInv, NEW t \in Transactions, CommitRestore(t)
  PROVE  PostgresInv'
<1> DEFINE k == EndedTx("committed")
           p == tx[t].cmd.project
           s == tx[t].snapshot
<1>1. /\ tx[t].step = "restore" /\ SnapshotFits(t)
      /\ row' = [row EXCEPT ![p] = "live"]
      /\ revisions' = Restored(AfterDelete(t), p, s)
      /\ review' = [review EXCEPT ![p] = s.review]
      /\ baselineRows' =
           [baselineRows EXCEPT ![p] = {s.review.baseline} \ {None}]
      /\ changeRows' = [changeRows EXCEPT ![p] = ChangeIds(s.review)]
      /\ tx' = [u \in Transactions |->
                  IF u = t THEN k ELSE AfterRestore(t, u)]
      /\ responses' = responses
      /\ LocksTyped' /\ OthersKeep(t)
      /\ \A q \in Projects : updating'[q] # t
      /\ \A r \in Revisions : revisionLock'[r] # t
  BY Released DEF CommitRestore, Runs, AfterRestore
<1>2. /\ p \in Projects /\ s \in Snapshots
      /\ revisions' \in [Revisions -> Stored] /\ Sequenced(revisions')
      /\ \A r \in Revisions : revisions'[r].project \in Projects \ {p} =>
           revisions'[r] = revisions[r]
  <2>1. /\ p \in Projects /\ s \in Snapshots /\ p # None
        /\ revisions' \in [Revisions -> Stored] /\ Sequenced(revisions')
        /\ \A r \in DOMAIN s.sequences : revisions'[r].project = p
        /\ \A r \in Revisions :
             revisions[r].project # None /\ revisionLock[r] # t =>
               revisions'[r] = revisions[r]
        /\ \A r \in Revisions \ DOMAIN s.sequences :
             revisions[r].project = None => revisions'[r] = revisions[r]
        /\ \A r \in Revisions \ DOMAIN s.sequences :
             revisionLock[r] = t => revisions'[r] = Absent
    BY <1>1, RestoredRevisions
  <2>2. \A r \in Revisions : revisions'[r].project \in Projects \ {p} =>
          revisions'[r] = revisions[r]
    BY <2>1, NamesAssumption DEF Absent
  <2> QED BY <2>1, <2>2
<1>3. s.review \in ReviewStates /\ ChangeIds(s.review) \subseteq Changes
  BY <1>2, SnapshotsAssumption, IdsAreChanges DEF ValidSnapshot
<1>4. k \in TxStates /\ k.inserted = FALSE
  BY EndedFields DEF Ended
<1>5. TypeOK /\ TablesFit(row, revisions, review, baselineRows, changeRows)
  BY FitsOf DEF PostgresInv
<1> HIDE DEF k
<1>6. tx'[t] = k /\ \A u \in Transactions \ {t} : tx'[u] = AfterRestore(t, u)
  BY <1>1
<1>7. \A u \in Transactions :
        AfterRestore(t, u) \in TxStates
        /\ AfterRestore(t, u).inserted = tx[u].inserted
        /\ AfterRestore(t, u).cmd = tx[u].cmd
  BY <1>5, AfterRestoreFields
<1>8. s.review.baseline \in Baselines \cup {None}
  BY <1>3 DEF ReviewStates
<1>9. TypeOK'
  <2>1. tx' \in [Transactions -> TxStates]
    BY <1>1, <1>4, <1>7
  <2>2. /\ row' \in [Projects -> {"missing", "live", "deleted"}]
        /\ review' \in [Projects -> ReviewStates]
        /\ baselineRows' \in [Projects -> SUBSET Baselines]
        /\ changeRows' \in [Projects -> SUBSET Changes]
        /\ responses' \in [Keys -> Responses]
    BY <1>1, <1>2, <1>3, <1>5, <1>8 DEF TypeOK
  <2> QED BY <1>1, <1>2, <2>1, <2>2 DEF TypeOK, LocksTyped
<1>10. AllFit'
  <2> SUFFICES ASSUME NEW u \in Transactions
               PROVE  TxFits(u, tx[u], row, revisions, review, responses,
                             exclusive, updating, revisionLock, keyLock)'
    BY DEF AllFit
  <2>1. CASE u = t
    <3>1. TxFits(t, k, row', revisions', review', responses', exclusive',
                 updating', revisionLock', keyLock')
      BY <1>1, EndedFits DEF k, Ended
    <3> QED BY <1>6, <2>1, <3>1
  <2>2. CASE u # t
    BY <1>6, <2>2, OthersAtRestore
  <2> QED BY <2>1, <2>2
<1>11. AllDiffer'
  BY <1>4, <1>6, <1>7 DEF PostgresInv, AllDiffer, Differ
<1>12. TablesFit(row', revisions', review', baselineRows', changeRows')
  <2> SUFFICES ASSUME NEW q \in Projects
               PROVE
                 /\ row'[q] = "missing" =>
                      OfProject(revisions', q) = {} /\ review'[q] = Draft
                 /\ ChangeIds(review'[q]) \subseteq changeRows'[q]
                 /\ review'[q].baseline \in baselineRows'[q] \cup {None}
                 /\ review'[q].baseline = None => review'[q].changes = <<>>
    BY DEF TablesFit
  <2>1. CASE q = p
    <3>1. s.review.baseline = None => s.review.changes = <<>>
      BY <1>2, SnapshotsAssumption DEF ValidSnapshot, ValidReview, Draft
    <3> QED BY <1>1, <1>2, <1>5, <2>1, <3>1 DEF TypeOK
  <2>2. CASE q # p
    <3>1. \A r \in OfProject(revisions', q) : r \in OfProject(revisions, q)
      BY <1>2, <2>2 DEF OfProject
    <3> QED BY <1>1, <1>5, <2>2, <3>1 DEF TablesFit, TypeOK
  <2> QED BY <2>1, <2>2
<1> QED BY <1>2, <1>9, <1>10, <1>11, <1>12 DEF PostgresInv

-----------------------------------------------------------------------------
(* The invariant, and what follows from it.                                *)

LEMMA InvStarts == Init => PostgresInv
<1> SUFFICES ASSUME Init PROVE PostgresInv
  OBVIOUS
<1>1. /\ NewTx \in TxStates /\ NewTx.step = "idle" /\ NewTx.inserted = FALSE
      /\ NewTx.cmd = NoCommand /\ NoCommand.key = None
  BY DEF NewTx, TxStates, Steps, NoCommand
<1>2. /\ Absent \in Stored /\ Absent.project = None
      /\ NoResponse \in Responses
  BY DEF Absent, Stored, NoResponse, Responses
<1>3. TypeOK
  BY <1>1, <1>2, DraftListsNothing DEF Init, TypeOK
<1>4. AllFit
  <2> SUFFICES ASSUME NEW t \in Transactions
               PROVE  TxFits(t, tx[t], row, revisions, review, responses,
                             exclusive, updating, revisionLock, keyLock)
    BY DEF AllFit
  <2> DEFINE k == tx[t]
  <2>1. /\ k.step = "idle" /\ k.inserted = FALSE /\ k.cmd = NoCommand
        /\ \A p \in Projects : updating[p] # t
        /\ \A r \in Revisions : revisionLock[r] # t
    BY <1>1, TransactionsAssumption DEF Init
  <2> HIDE DEF k
  <2>2. Shape(k)
    BY <2>1 DEF Shape, Working
  <2>3. /\ KeyHeld(t, k, responses, keyLock)
        /\ RowHeld(t, k, row, review, exclusive, updating)
    BY <1>1, <2>1 DEF KeyHeld, RowHeld, Held
  <2>4. /\ UpdateHeld(t, k, updating)
        /\ FoundFits(t, k, revisions, revisionLock)
        /\ LockFits(t, k, revisions, revisionLock)
        /\ InsertFits(k, revisions)
        /\ DeleteFits(t, k, revisions, revisionLock)
    BY <2>1 DEF UpdateHeld, FoundFits, LockFits, InsertFits, DeleteFits
  <2> QED BY <2>2, <2>3, <2>4 DEF TxFits, k
<1>5. AllDiffer
  BY <1>1 DEF Init, AllDiffer, Differ
<1>6. Sequenced(revisions)
  BY <1>2 DEF Init, Sequenced
<1>7. TablesFit(row, revisions, review, baselineRows, changeRows)
  BY <1>2, DraftListsNothing, NamesAssumption
     DEF Init, TablesFit, OfProject, Draft
<1> QED BY <1>3, <1>4, <1>5, <1>6, <1>7 DEF PostgresInv

LEMMA StepKeeps ==
  ASSUME PostgresInv, NEW t \in Transactions, Step(t)
  PROVE  PostgresInv'
<1>1. CASE Abort(t)
  BY <1>1, AbortKeeps
<1>2. CASE ~Abort(t)
  <2>1. CASE LockKey(t)
    BY <2>1, LockKeyKeeps
  <2>2. CASE LockProject(t)
    BY <2>2, LockProjectKeeps
  <2>3. CASE PickLatest(t)
    BY <2>3, PickLatestKeeps
  <2>4. CASE NoLatest(t)
    BY <2>4, NoLatestKeeps
  <2>5. CASE LockLatest(t)
    BY <2>5, LockLatestKeeps
  <2>6. CASE Insert(t)
    BY <2>6, InsertKeeps
  <2>7. CASE ShareProject(t)
    BY <2>7, ShareProjectKeeps
  <2>8. CASE CommitCommand(t)
    BY <2>8, CommitCommandKeeps
  <2>9. CASE CommitAppend(t)
    BY <2>9, CommitAppendKeeps
  <2>10. CASE Upsert(t)
    BY <2>10, UpsertKeeps
  <2>11. CASE DeleteRows(t)
    BY <2>11, DeleteRowsKeeps
  <2>12. CASE CommitRestore(t)
    BY <2>12, CommitRestoreKeeps
  <2> QED BY <1>2, <2>1, <2>2, <2>3, <2>4, <2>5, <2>6, <2>7, <2>8, <2>9,
             <2>10, <2>11, <2>12
          DEF Step, ProjectRefused, InsertRefused, CommitRefused,
              RestoreRefused
<1> QED BY <1>1, <1>2

LEMMA InvStep == PostgresInv /\ [Next]_vars => PostgresInv'
<1> SUFFICES ASSUME PostgresInv, [Next]_vars PROVE PostgresInv'
  OBVIOUS
<1>1. CASE UNCHANGED vars
  BY <1>1 DEF vars, tables, locks, PostgresInv, TypeOK, AllFit, AllDiffer
<1>2. CASE Next
  <2>1. ASSUME NEW t \in Transactions, NEW cmd \in CallCommands,
               NEW s \in Snapshots \cup {EmptySnapshot}, Begin(t, cmd, s)
        PROVE  PostgresInv'
    BY <2>1, BeginKeeps
  <2>2. ASSUME NEW t \in Transactions, Step(t) PROVE PostgresInv'
    BY <2>2, StepKeeps
  <2>3. ASSUME NEW t \in Transactions, Lost(t) PROVE PostgresInv'
    BY <2>3, AbortKeeps DEF Lost
  <2>4. ASSUME NEW p \in Projects, CreateProject(p) \/ DeleteProject(p)
        PROVE  PostgresInv'
    BY <2>4, ProjectRowKeeps
  <2> QED BY <1>2, <2>1, <2>2, <2>3, <2>4 DEF Next
<1> QED BY <1>1, <1>2

LEMMA Invariant == Spec => []PostgresInv
BY InvStarts, InvStep, PTL DEF Spec

(* Whatever statements overlap and are lost, the tables, the locks and the *)
(* transactions stay well-formed.                                          *)
THEOREM TypeCorrect == Spec => []TypeOK
<1>1. PostgresInv => TypeOK
  BY DEF PostgresInv
<1> QED BY <1>1, Invariant, PTL

(* The lock of an idempotency key is held from the look at its response to *)
(* the commit that stores one, so no retry meets a stored response in      *)
(* between.                                                                *)
THEOREM OverlappingRetriesReplay == Spec => []RetriesReplay
<1>1. PostgresInv => RetriesReplay
  <2> SUFFICES ASSUME PostgresInv, NEW t \in Transactions,
                      tx[t].step \in {"insert", "key_share", "finish"},
                      tx[t].cmd.key # None
               PROVE  responses[tx[t].cmd.key] = NoResponse
    BY DEF RetriesReplay
  <2>1. tx[t].cmd \in CallCommands
    BY FitsOf DEF Shape, Working, Ended
  <2>2. tx[t].cmd.kind \in Kinds
    BY <2>1, CallFields
  <2> QED BY <2>2, FitsOf DEF KeyHeld, Held
<1> QED BY <1>1, Invariant, PTL

(* A revision that continues the sequence of the one found, and whose      *)
(* sequence is free, finds the latest: a later one would have a            *)
(* predecessor, and so on down to the one in its place.                    *)
LEMMA LatestAtCommit ==
  ASSUME PostgresInv, NEW t \in Transactions, tx[t].step = "finish",
         tx[t].cmd.revision # None
  PROVE  /\ Latest(revisions, tx[t].cmd.project) = tx[t].found
         /\ tx[t].found = tx[t].cmd.parent
<1> DEFINE cmd == tx[t].cmd
           p == cmd.project
           found == tx[t].found
           own == OfProject(revisions, p)
           s == SequenceOf(revisions, found)
           T == {revisions[r].sequence : r \in {q \in own :
                                                 revisions[q].sequence > s}}
<1>1. /\ p \in Projects /\ p # None
      /\ \A r \in own : revisions[r].sequence # cmd.sequence
      /\ \/ found = None /\ cmd.sequence = 1
         \/ found \in own /\ cmd.sequence = revisions[found].sequence + 1
      /\ found = cmd.parent
  BY RowFits
<1>2. revisions \in [Revisions -> Stored] /\ Sequenced(revisions)
  BY DEF PostgresInv, TypeOK
<1>3. \A r \in own :
        /\ r \in Revisions /\ r # None
        /\ revisions[r].sequence \in 1..MaxSequence
        /\ \/ revisions[r].sequence = 1
           \/ \E q \in own : revisions[r].sequence = revisions[q].sequence + 1
        /\ \A q \in own :
             revisions[q].sequence = revisions[r].sequence => q = r
  <2> TAKE r \in own
  <2>1. r \in Revisions /\ r # None /\ revisions[r].project = p
    BY NamesAssumption DEF OfProject
  <2> QED BY <1>1, <1>2, <2>1 DEF Sequenced
<1>4. s \in Nat /\ cmd.sequence = s + 1
  <2>1. CASE found = None
    BY <1>1, <2>1, NamesAssumption DEF SequenceOf, OfProject
  <2>2. CASE found # None
    <3>1. found \in own /\ cmd.sequence = revisions[found].sequence + 1
      BY <1>1, <2>2
    <3>2. revisions[found].sequence \in Nat
      BY <1>3, <3>1, SequenceAssumption
    <3> QED BY <2>2, <3>1, <3>2 DEF SequenceOf
  <2> QED BY <2>1, <2>2
<1> HIDE DEF s, own
<1>5. T = {}
  <2> SUFFICES ASSUME T # {} PROVE FALSE
    OBVIOUS
  <2>1. T \in SUBSET Nat
    BY <1>3, SequenceAssumption
  <2>2. PICK x \in T : \A y \in T : x <= y
    <3> HIDE DEF T
    <3> QED BY <2>1, LeastOf
  <2>3. PICK r \in own : x = revisions[r].sequence /\ x > s
    BY <2>2
  <2>4. x # s + 1 /\ x \in 1..MaxSequence
    BY <1>1, <1>3, <1>4, <2>3
  <2>5. PICK q \in own : x = revisions[q].sequence + 1
    BY <1>3, <1>4, <2>3, <2>4, SequenceAssumption
  <2>6. revisions[q].sequence \in Nat /\ revisions[q].sequence > s
    BY <1>3, <1>4, <2>3, <2>4, <2>5, SequenceAssumption
  <2>7. revisions[q].sequence \in T
    BY <2>6
  <2>8. x <= revisions[q].sequence
    BY <2>2, <2>7
  <2> HIDE DEF T
  <2> QED BY <2>5, <2>6, <2>8
<1>6. \A r \in own : revisions[r].sequence <= s
  <2> TAKE r \in own
  <2>1. ~(revisions[r].sequence > s)
    BY <1>5
  <2> QED BY <1>3, <1>4, <2>1, SequenceAssumption
<1>7. CASE found = None
  <2>1. s = 0
    BY <1>7 DEF s, SequenceOf
  <2>2. own = {}
    BY <1>3, <1>6, <2>1, SequenceAssumption
  <2> QED BY <1>1, <1>7, <2>2 DEF Latest, own
<1>8. CASE found \in own
  <2>1. s = revisions[found].sequence
    BY <1>3, <1>8 DEF s, SequenceOf
  <2>2. /\ Latest(revisions, p) \in own
        /\ \A r \in own :
             revisions[r].sequence <=
               revisions[Latest(revisions, p)].sequence
    BY <1>1, <1>2, <1>8, LatestFits DEF own
  <2> DEFINE latest == Latest(revisions, p)
  <2> HIDE DEF latest
  <2>3. latest \in own
        /\ revisions[found].sequence <= revisions[latest].sequence
    BY <1>8, <2>2 DEF latest
  <2>4. revisions[latest].sequence = revisions[found].sequence
    BY <1>3, <1>6, <1>8, <2>1, <2>3, SequenceAssumption
  <2>5. latest = found
    BY <1>3, <1>8, <2>3, <2>4
  <2> QED BY <1>1, <2>5 DEF latest
<1> QED BY <1>1, <1>7, <1>8

(* Only the step that commits a transaction leaves it committed.           *)
LEMMA CommitsAtFinish ==
  ASSUME PostgresInv, Next, NEW t \in Transactions, tx[t].inserted,
         tx'[t].step = "committed"
  PROVE  tx[t].step = "finish"
<1>1. TypeOK /\ tx[t].step \in {"key_share", "finish"}
  BY FitsOf DEF Shape
<1>2. SUFFICES ASSUME tx[t].step = "key_share" PROVE FALSE
  BY <1>1
<1>3. ASSUME NEW u \in Transactions, Abort(u) PROVE FALSE
  <2>1. tx'[u].step = "aborted" /\ \A v \in Transactions \ {u} : tx'[v] = tx[v]
    BY <1>1, <1>3, EndedFields DEF Abort, TypeOK, Ended
  <2> QED BY <1>2, <2>1
<1>4. ASSUME NEW u \in Transactions, u # t, Step(u) PROVE FALSE
  <2>1. CASE CommitRestore(u)
    <3>1. tx'[t].step = tx[t].step
      BY <1>1, <1>4, <2>1, AfterRestoreFields
         DEF CommitRestore, AfterRestore
    <3> QED BY <1>2, <3>1
  <2>2. CASE ~CommitRestore(u)
    <3>1. tx'[t] = tx[t]
      BY <1>1, <1>4, <2>2
         DEF Step, Abort, Goes, LockKey, LockProject, ProjectRefused,
             PickLatest, NoLatest, LockLatest, Insert, InsertRefused,
             ShareProject, CommitCommand, CommitRefused, CommitAppend,
             Upsert, DeleteRows, RestoreRefused, TypeOK
    <3> QED BY <1>2, <3>1
  <2> QED BY <2>1, <2>2
<1>5. ASSUME Step(t) PROVE FALSE
  <2>1. ShareProject(t)
    BY <1>2, <1>3, <1>5
       DEF Step, Runs, LockKey, LockProject, ProjectRefused, PickLatest,
           NoLatest, LockLatest, Insert, InsertRefused, CommitCommand,
           CommitRefused, CommitAppend, Upsert, DeleteRows, CommitRestore,
           RestoreRefused
  <2>2. Goes(t, "finish")
    BY <1>3, <2>1 DEF ShareProject
  <2>3. tx'[t].step = "finish"
    BY <1>1, <2>2, Going DEF Steps, TypeOK
  <2> QED BY <2>3
<1>6. ASSUME NEW u \in Transactions, NEW cmd \in CallCommands,
             NEW s \in Snapshots \cup {EmptySnapshot}, Begin(u, cmd, s)
      PROVE  FALSE
  <2>1. u # t
    BY <1>2, <1>6 DEF Begin
  <2>2. tx'[t] = tx[t]
    BY <1>1, <1>6, <2>1 DEF Begin, TypeOK
  <2> QED BY <1>2, <2>2
<1>7. ASSUME NEW p \in Projects, CreateProject(p) \/ DeleteProject(p)
      PROVE  FALSE
  BY <1>2, <1>7 DEF CreateProject, DeleteProject
<1> QED BY <1>3, <1>4, <1>5, <1>6, <1>7 DEF Next, Lost

(* A revision is committed only onto the latest one of its project,        *)
(* although its caller read that one many statements earlier, for          *)
(* appendRevision as for commitDesignRevision and in any order of their    *)
(* statements.                                                             *)
THEOREM RevisionsFollowTheLatest == Spec => AppendsAtLatest
<1>1. PostgresInv /\ [Next]_vars =>
        [\A t \in Transactions :
           LET cmd == tx[t].cmd IN
           tx[t].inserted /\ tx'[t].step = "committed"
           => Latest(revisions, cmd.project) = cmd.parent]_vars
  <2> SUFFICES ASSUME PostgresInv, Next, NEW t \in Transactions,
                      tx[t].inserted, tx'[t].step = "committed"
               PROVE  Latest(revisions, tx[t].cmd.project) = tx[t].cmd.parent
    OBVIOUS
  <2>1. tx[t].step = "finish"
    BY CommitsAtFinish
  <2>2. tx[t].cmd.revision # None
    BY FitsOf DEF Shape
  <2> QED BY <2>1, <2>2, LatestAtCommit
<1> QED BY <1>1, Invariant, PTL DEF Spec, AppendsAtLatest

-----------------------------------------------------------------------------
(* The latest revision, before and after.                                  *)

LEMMA LatestIs ==
  ASSUME NEW revs \in [Revisions -> Stored], Sequenced(revs),
         NEW p, p # None, NEW r \in OfProject(revs, p),
         \A q \in OfProject(revs, p) : revs[q].sequence <= revs[r].sequence
  PROVE  Latest(revs, p) = r
<1> DEFINE latest == Latest(revs, p)
<1>1. /\ latest \in OfProject(revs, p)
      /\ \A q \in OfProject(revs, p) :
           revs[q].sequence <= revs[latest].sequence
  BY LatestFits
<1> HIDE DEF latest
<1>2. revs[latest].sequence = revs[r].sequence
  <2>1. revs[latest].sequence \in Nat /\ revs[r].sequence \in Nat
    BY <1>1 DEF OfProject, Stored
  <2>2. /\ revs[latest].sequence <= revs[r].sequence
        /\ revs[r].sequence <= revs[latest].sequence
    BY <1>1
  <2> QED BY <2>1, <2>2
<1>3. revs[r].project = p /\ r \in Revisions
  BY DEF OfProject
<1>4. latest = r
  BY <1>1, <1>2, <1>3 DEF Sequenced
<1> QED BY <1>4 DEF latest

LEMMA SameLatest ==
  ASSUME NEW revs \in [Revisions -> Stored], Sequenced(revs),
         NEW next \in [Revisions -> Stored], Sequenced(next),
         NEW p, p # None, OfProject(next, p) = OfProject(revs, p),
         \A r \in OfProject(revs, p) : next[r] = revs[r]
  PROVE  Latest(next, p) = Latest(revs, p)
<1>1. CASE OfProject(revs, p) = {}
  BY <1>1 DEF Latest
<1>2. CASE OfProject(revs, p) # {}
  <2> DEFINE latest == Latest(revs, p)
  <2>1. /\ latest \in OfProject(revs, p)
        /\ \A q \in OfProject(revs, p) :
             revs[q].sequence <= revs[latest].sequence
    BY <1>2, LatestFits
  <2> HIDE DEF latest
  <2>2. /\ latest \in OfProject(next, p)
        /\ \A q \in OfProject(next, p) :
             next[q].sequence <= next[latest].sequence
    BY <2>1
  <2>3. Latest(next, p) = latest
    BY <2>2, LatestIs
  <2> QED BY <2>3 DEF latest
<1> QED BY <1>1, <1>2

LEMMA LatestAfterCommit ==
  ASSUME PostgresInv, NEW t \in Transactions, tx[t].step = "finish",
         NEW revs, revs = WithRevision(revisions, tx[t].cmd)
  PROVE  /\ \A q \in Projects \ {tx[t].cmd.project} :
              Latest(revs, q) = Latest(revisions, q)
         /\ tx[t].cmd.revision = None => revs = revisions
         /\ tx[t].cmd.revision # None =>
              Latest(revs, tx[t].cmd.project) = tx[t].cmd.revision
<1> DEFINE cmd == tx[t].cmd
           p == cmd.project
           new == cmd.revision
<1>1. /\ revisions \in [Revisions -> Stored] /\ Sequenced(revisions)
      /\ revs \in [Revisions -> Stored] /\ Sequenced(revs)
      /\ \A r \in Revisions :
           revisions[r].project # None => revs[r] = revisions[r]
      /\ \A r \in Revisions : revs[r] # revisions[r] =>
           r = new /\ revs[r].project = p
  BY CommittedRevisions DEF PostgresInv, TypeOK
<1>2. \A q \in Projects \ {p} : Latest(revs, q) = Latest(revisions, q)
  <2> TAKE q \in Projects \ {p}
  <2>1. q # None
    BY NamesAssumption
  <2>2. OfProject(revs, q) = OfProject(revisions, q)
        /\ \A r \in OfProject(revisions, q) : revs[r] = revisions[r]
    BY <1>1, <2>1 DEF OfProject
  <2> QED BY <1>1, <2>1, <2>2, SameLatest
<1>3. new = None => revs = revisions
  BY DEF WithRevision
<1>4. ASSUME new # None PROVE Latest(revs, p) = new
  <2> DEFINE s == SequenceOf(revisions, tx[t].found)
  <2>1. /\ new \in Revisions /\ p # None /\ cmd.sequence \in 1..MaxSequence
        /\ \/ tx[t].found = None /\ cmd.sequence = 1
           \/ /\ tx[t].found \in OfProject(revisions, p)
              /\ cmd.sequence = revisions[tx[t].found].sequence + 1
    BY <1>4, RowFits
  <2>2. revs = [revisions EXCEPT ![new] =
                  [project |-> p, sequence |-> cmd.sequence]]
    BY <1>4 DEF WithRevision
  <2>3. revs[new].project = p /\ revs[new].sequence = cmd.sequence
    BY <1>1, <2>1, <2>2
  <2>4. new \in OfProject(revs, p)
    BY <2>1, <2>3 DEF OfProject
  <2>5. \A r \in OfProject(revs, p) :
          r = new \/ (r \in OfProject(revisions, p) /\ revs[r] = revisions[r])
    BY <1>1 DEF OfProject
  <2>6. Latest(revisions, p) = tx[t].found
    BY <1>4, LatestAtCommit
  <2>7. \A r \in OfProject(revisions, p) :
          revisions[r].sequence <= cmd.sequence
    <3> SUFFICES ASSUME NEW r \in OfProject(revisions, p)
                 PROVE  revisions[r].sequence <= cmd.sequence
      OBVIOUS
    <3> DEFINE found == Latest(revisions, p)
    <3>1. /\ found # None /\ found \in Revisions
          /\ revisions[r].sequence <= revisions[found].sequence
      BY <1>1, <2>1, LatestFits
    <3>2. revisions[r].sequence \in Nat /\ revisions[found].sequence \in Nat
      BY <1>1, <3>1 DEF OfProject, Stored
    <3>3. cmd.sequence = revisions[found].sequence + 1
      BY <2>1, <2>6, <3>1
    <3> QED BY <3>1, <3>2, <3>3
  <2>8. \A r \in OfProject(revs, p) : revs[r].sequence <= revs[new].sequence
    <3> TAKE r \in OfProject(revs, p)
    <3>1. CASE r = new
      BY <2>1, <2>3, <3>1, SequenceAssumption
    <3>2. CASE r # new
      BY <2>3, <2>5, <2>7, <3>2
    <3> QED BY <3>1, <3>2
  <2> QED BY <1>1, <2>1, <2>4, <2>8, LatestIs
<1> QED BY <1>2, <1>3, <1>4

-----------------------------------------------------------------------------
(* The changes lead to the latest revision.                                *)

LeadsTo(ch, r) ==
  ch # <<>> =>
    /\ ch[Len(ch)].current = r
    /\ \A i \in 1..Len(ch) - 1 : ch[i].current = ch[i + 1].before

(* Snapshots as they are exported: their changes lead to their latest      *)
(* revision.  validateCollaborationSnapshot() does not ask for that.       *)
Exported(s) ==
  s.review.changes # <<>> =>
    \E r \in DOMAIN s.sequences :
      /\ \A q \in DOMAIN s.sequences : s.sequences[q] <= s.sequences[r]
      /\ LeadsTo(s.review.changes, r)

LEMMA ChainGrows ==
  ASSUME NEW ch \in Seq(ChangeRecords), NEW c \in ChangeRecords,
         LeadsTo(ch, c.before)
  PROVE  LeadsTo(Append(ch, c), c.current)
<1> DEFINE n == Len(ch)
           more == Append(ch, c)
<1>1. /\ n \in Nat /\ Len(more) = n + 1 /\ more[n + 1] = c
      /\ \A i \in 1..n : more[i] = ch[i]
      /\ ch # <<>> => n # 0
  OBVIOUS
<1>2. more[Len(more)].current = c.current
  BY <1>1
<1>3. ASSUME NEW i \in 1..Len(more) - 1
      PROVE  more[i].current = more[i + 1].before
  <2>1. i \in 1..n
    BY <1>1, <1>3
  <2>2. ch # <<>>
    BY <2>1
  <2>3. CASE i = n
    BY <1>1, <2>1, <2>2, <2>3 DEF LeadsTo
  <2>4. CASE i # n
    <3>1. i \in 1..n - 1 /\ i + 1 \in 1..n
      BY <1>1, <2>1, <2>4
    <3> QED BY <1>1, <2>1, <2>2, <3>1 DEF LeadsTo
  <2> QED BY <2>3, <2>4
<1> QED BY <1>2, <1>3 DEF LeadsTo

LEMMA ChangesLead ==
  ChangesLeadToLatest <=>
    \A p \in Projects : LeadsTo(review[p].changes, Latest(revisions, p))
BY DEF ChangesLeadToLatest, LeadsTo

LEMMA CommandLeads ==
  ASSUME PostgresInv, NEW t \in Transactions, tx[t].step = "finish",
         tx[t].cmd.kind # Raw, ChangesLeadToLatest,
         NEW revs, revs = WithRevision(revisions, tx[t].cmd),
         NEW next,
         next = Reviewed(review[tx[t].cmd.project], tx[t].cmd, tx[t].found)
  PROVE  LeadsTo(next.changes, Latest(revs, tx[t].cmd.project))
<1> DEFINE cmd == tx[t].cmd
           p == cmd.project
           state == review[p]
           found == tx[t].found
<1>1. /\ cmd \in CallCommands /\ cmd.kind \in Kinds /\ p \in Projects
      /\ cmd \in Commands /\ WellFormed(cmd)
      /\ found \in Revisions \cup {None} /\ TypeOK
  <2>1. /\ cmd \in CallCommands /\ cmd.kind \in Kinds \cup {Raw}
        /\ found # Gone
    BY FitsOf DEF Shape, Working, Ended
  <2> QED BY <2>1, FitsOf, TxFields, CallFields
<1>2. /\ state \in ReviewStates
      /\ state.baseline = None => state.changes = <<>>
      /\ LeadsTo(state.changes, Latest(revisions, p))
      /\ MetadataFits(state, cmd)
  BY <1>1, ChangesLead, FitsOf
     DEF PostgresInv, TablesFit, TypeOK, RowHeld, Held
<1>3. state.changes \in Seq(ChangeRecords)
  BY <1>2 DEF ReviewStates
<1> HIDE DEF state
<1>4. CASE cmd.baseline # None
  BY <1>4 DEF Reviewed, Ready, LeadsTo, state
<1>5. CASE cmd.baseline = None
  <2>1. cmd.revision # None /\ cmd.revision \in Revisions
    BY <1>1, <1>5 DEF WellFormed, Commands, Kinds
  <2>2. /\ Latest(revs, p) = cmd.revision
        /\ Latest(revisions, p) = found
    BY <2>1, LatestAfterCommit, LatestAtCommit
  <2>3. cmd.change # None <=> state.baseline # None
    BY <1>2, <1>5, <2>1 DEF MetadataFits, HadBaseline
  <2>4. CASE cmd.change = None
    BY <1>2, <1>5, <2>3, <2>4 DEF Reviewed, HadBaseline, LeadsTo, state
  <2>5. CASE cmd.change # None /\ found = None
    <3>1. state.changes = <<>>
      <4> SUFFICES ASSUME state.changes # <<>> PROVE FALSE
        OBVIOUS
      <4>1. state.changes[Len(state.changes)] \in ChangeRecords
        BY <1>3
      <4>2. state.changes[Len(state.changes)].current \in Revisions
        BY <4>1 DEF ChangeRecords
      <4> QED BY <1>2, <2>2, <2>5, <4>2, NamesAssumption DEF LeadsTo
    <3> QED BY <1>5, <2>5, <3>1 DEF Reviewed, LeadsTo, state
  <2>6. CASE cmd.change # None /\ found # None
    <3> DEFINE c == [id |-> cmd.change, before |-> found,
                     current |-> cmd.revision]
    <3>1. c \in ChangeRecords /\ c.before = found /\ c.current = cmd.revision
      BY <1>1, <2>1, <2>6 DEF ChangeRecords, Commands
    <3>2. HadBaseline(state, cmd)
      BY <1>5, <2>3, <2>6 DEF HadBaseline
    <3>3. next = WithChange(state, cmd, found)
      BY <1>5, <2>6, <3>2 DEF Reviewed, state
    <3>4. next.changes = Append(state.changes, c)
      BY <1>2, <3>3 DEF WithChange, ReviewStates
    <3> HIDE DEF c
    <3>5. LeadsTo(Append(state.changes, c), c.current)
      BY <1>2, <1>3, <2>2, <3>1, ChainGrows
    <3> QED BY <2>2, <3>1, <3>4, <3>5
  <2> QED BY <2>4, <2>5, <2>6
<1> QED BY <1>4, <1>5

(* Which steps change a table.                                             *)
LEMMA CommitsWrite ==
  ASSUME [Next]_vars
  PROVE  \/ UNCHANGED tables
         \/ \E t \in Transactions :
              CommitCommand(t) \/ CommitRestore(t) \/ CommitAppend(t)
         \/ \E p \in Projects : CreateProject(p) \/ DeleteProject(p)
<1>1. ASSUME NEW t \in Transactions, Step(t)
      PROVE  \/ UNCHANGED tables
             \/ CommitCommand(t) \/ CommitRestore(t) \/ CommitAppend(t)
  BY <1>1
     DEF Step, Abort, LockKey, LockProject, ProjectRefused, PickLatest,
         NoLatest, LockLatest, Insert, InsertRefused, ShareProject,
         CommitRefused, Upsert, DeleteRows, RestoreRefused
<1>2. ASSUME NEW t \in Transactions, NEW cmd, NEW s,
             Begin(t, cmd, s) \/ Lost(t)
      PROVE  UNCHANGED tables
  BY <1>2 DEF Begin, Lost, Abort
<1>3. CASE UNCHANGED vars
  BY <1>3 DEF vars
<1> QED BY <1>1, <1>2, <1>3 DEF Next

LEMMA ChangesLeadStep ==
  ASSUME PostgresInv, [Next]_vars, ChangesLeadToLatest,
         Raw \notin CallKinds, \A s \in Snapshots : Exported(s)
  PROVE  ChangesLeadToLatest'
<1>1. CASE UNCHANGED <<revisions, review>>
  BY <1>1 DEF ChangesLeadToLatest
<1>2. ASSUME NEW t \in Transactions, CommitCommand(t)
      PROVE  ChangesLeadToLatest'
  <2> DEFINE p == tx[t].cmd.project
             next == Reviewed(review[p], tx[t].cmd, tx[t].found)
             revs == WithRevision(revisions, tx[t].cmd)
  <2>1. /\ tx[t].step = "finish" /\ tx[t].cmd.kind # Raw
        /\ revisions' = revs /\ review' = [review EXCEPT ![p] = next]
    BY <1>2 DEF CommitCommand
  <2>2. LeadsTo(next.changes, Latest(revs, p))
    BY <2>1, CommandLeads
  <2>3. \A q \in Projects \ {p} : Latest(revs, q) = Latest(revisions, q)
    BY <2>1, LatestAfterCommit
  <2> HIDE DEF next, revs
  <2>4. \A q \in Projects : LeadsTo(review[q].changes, Latest(revisions, q))
    BY ChangesLead
  <2>5. \A q \in Projects :
          LeadsTo(review'[q].changes, Latest(revisions', q))
    BY <2>1, <2>2, <2>3, <2>4 DEF PostgresInv, TypeOK
  <2> QED BY <2>5 DEF ChangesLeadToLatest, LeadsTo
<1>3. ASSUME NEW t \in Transactions, CommitRestore(t)
      PROVE  ChangesLeadToLatest'
  <2> DEFINE p == tx[t].cmd.project
             s == tx[t].snapshot
             D == DOMAIN s.sequences
             revs == Restored(AfterDelete(t), p, s)
  <2>1. /\ tx[t].step = "restore" /\ SnapshotFits(t)
        /\ revisions' = revs /\ review' = [review EXCEPT ![p] = s.review]
    BY <1>3 DEF CommitRestore, Runs
  <2>2. /\ p \in Projects /\ p # None /\ s \in Snapshots
        /\ revs \in [Revisions -> Stored] /\ Sequenced(revs)
        /\ \A r \in D : revs[r].sequence = s.sequences[r]
        /\ \A q \in Projects \ {p} :
             /\ OfProject(revs, q) = OfProject(revisions, q)
             /\ \A r \in OfProject(revs, q) : revs[r] = revisions[r]
        /\ OfProject(revs, p) = D
    BY <2>1, RestoredRevisions
  <2>3. \A q \in Projects \ {p} : Latest(revs, q) = Latest(revisions, q)
    BY <2>2, SameLatest, NamesAssumption DEF PostgresInv, TypeOK
  <2> HIDE DEF revs, D
  <2>4. LeadsTo(s.review.changes, Latest(revs, p))
    <3>1. CASE s.review.changes = <<>>
      BY <3>1 DEF LeadsTo
    <3>2. CASE s.review.changes # <<>>
      <4>1. PICK r \in D :
              /\ \A q \in D : s.sequences[q] <= s.sequences[r]
              /\ LeadsTo(s.review.changes, r)
        BY <2>2, <3>2 DEF Exported, D
      <4>2. Latest(revs, p) = r
        BY <2>2, <4>1, LatestIs
      <4> QED BY <4>1, <4>2
    <3> QED BY <3>1, <3>2
  <2>5. \A q \in Projects : LeadsTo(review[q].changes, Latest(revisions, q))
    BY ChangesLead
  <2>6. \A q \in Projects :
          LeadsTo(review'[q].changes, Latest(revisions', q))
    BY <2>1, <2>2, <2>3, <2>4, <2>5 DEF PostgresInv, TypeOK
  <2> QED BY <2>6 DEF ChangesLeadToLatest, LeadsTo
<1>4. ASSUME NEW t \in Transactions, CommitAppend(t) PROVE FALSE
  <2>1. tx[t].cmd \in CallCommands /\ tx[t].cmd.kind = Raw
    BY <1>4, FitsOf DEF CommitAppend, Shape, Working, Ended
  <2> QED BY <2>1, CallFields
<1>5. \/ UNCHANGED <<revisions, review>>
      \/ \E t \in Transactions :
           CommitCommand(t) \/ CommitRestore(t) \/ CommitAppend(t)
  BY CommitsWrite DEF tables, CreateProject, DeleteProject
<1> QED BY <1>1, <1>2, <1>3, <1>4, <1>5

(* For callers who use commitDesignRevision() and replaceProject() with    *)
(* snapshots as they are exported: however the calls overlap, the changes  *)
(* since a baseline lead, without a gap, to the project's latest revision. *)
THEOREM ChangesFollowRevisions ==
  ASSUME Raw \notin CallKinds, \A s \in Snapshots : Exported(s)
  PROVE  Spec => []ChangesLeadToLatest
<1>1. Init => ChangesLeadToLatest
  BY DEF Init, ChangesLeadToLatest, Draft
<1>2. PostgresInv /\ ChangesLeadToLatest /\ [Next]_vars =>
        ChangesLeadToLatest'
  BY ChangesLeadStep
<1> QED BY <1>1, <1>2, Invariant, PTL DEF Spec

-----------------------------------------------------------------------------
(* The atomic repository.                                                  *)

ShownRevisions ==
  [r \in Revisions |->
     IF revisions[r].project \in Live THEN revisions[r] ELSE Absent]
ShownReview == [p \in Projects |-> IF p \in Live THEN review[p] ELSE Draft]

LEMMA ShownFits ==
  ASSUME PostgresInv
  PROVE  /\ ShownRevisions \in [Revisions -> Stored]
         /\ ShownReview \in [Projects -> ReviewStates]
         /\ \A p \in Live :
              /\ ShownReview[p] = review[p]
              /\ Latest(ShownRevisions, p) = Latest(revisions, p)
              /\ \A r \in OfProject(revisions, p) :
                   ShownRevisions[r] = revisions[r]
<1>1. /\ TypeOK /\ Sequenced(revisions) /\ Live \subseteq Projects
      /\ None \notin Live /\ Absent \in Stored /\ Absent.project = None
  BY NamesAssumption DEF PostgresInv, Live, Absent, Stored
<1>2. /\ ShownRevisions \in [Revisions -> Stored]
      /\ ShownReview \in [Projects -> ReviewStates]
  BY <1>1, DraftListsNothing DEF ShownRevisions, ShownReview, TypeOK
<1>3. \A p \in Live :
        /\ OfProject(ShownRevisions, p) = OfProject(revisions, p)
        /\ \A r \in OfProject(revisions, p) :
             ShownRevisions[r] = revisions[r]
  BY <1>1 DEF ShownRevisions, OfProject
<1>4. Sequenced(ShownRevisions)
  <2> SUFFICES ASSUME NEW r \in Revisions, ShownRevisions[r].project # None
               PROVE
                 LET p == ShownRevisions[r].project IN
                 /\ ShownRevisions[r].sequence \in 1..MaxSequence
                 /\ \/ ShownRevisions[r].sequence = 1
                    \/ \E q \in OfProject(ShownRevisions, p) :
                         ShownRevisions[r].sequence =
                           ShownRevisions[q].sequence + 1
                 /\ \A q \in OfProject(ShownRevisions, p) :
                      ShownRevisions[q].sequence = ShownRevisions[r].sequence
                      => q = r
    BY DEF Sequenced
  <2>1. ShownRevisions[r] = revisions[r] /\ revisions[r].project \in Live
    BY <1>1 DEF ShownRevisions
  <2>2. revisions[r].project # None
    BY <1>1, <2>1
  <2> QED BY <1>1, <1>3, <2>1, <2>2 DEF Sequenced
<1>5. \A p \in Live : Latest(ShownRevisions, p) = Latest(revisions, p)
  <2> TAKE p \in Live
  <2>1. /\ revisions \in [Revisions -> Stored] /\ p # None
        /\ OfProject(ShownRevisions, p) = OfProject(revisions, p)
        /\ \A r \in OfProject(revisions, p) :
             ShownRevisions[r] = revisions[r]
    BY <1>1, <1>3 DEF TypeOK
  <2> QED BY <1>1, <1>2, <1>4, <2>1, SameLatest
<1> QED BY <1>1, <1>2, <1>3, <1>5 DEF ShownReview

LEMMA HistoryReads ==
  ASSUME NEW revs, NEW p
  PROVE  /\ History!Latest(revs, p) = Latest(revs, p)
         /\ \A r : History!SequenceOf(revs, r) = SequenceOf(revs, r)
BY DEF History!Latest, Latest, History!SequenceOf, SequenceOf,
       History!OfProject, OfProject, History!None, None

LEMMA HistoryDoes ==
  ASSUME NEW revs, NEW rvs, NEW state, NEW cmd, NEW before, NEW resps, NEW p,
         NEW s
  PROVE  /\ History!WithRevision(revs, cmd) = WithRevision(revs, cmd)
         /\ History!Reviewed(state, cmd, before) = Reviewed(state, cmd, before)
         /\ History!Answered(resps, state, cmd) = Answered(resps, state, cmd)
         /\ History!MetadataFits(state, cmd) <=> MetadataFits(state, cmd)
         /\ History!TargetFits(revs, cmd) <=> TargetFits(revs, cmd)
         /\ History!ChangeIds(state) = ChangeIds(state)
         /\ History!Cleared(revs, p) = Cleared(revs, p)
         /\ History!Replaced(revs, p, s) = Replaced(revs, p, s)
         /\ History!MayReplace(revs, rvs, p, s) <=> MayReplace(revs, rvs, p, s)
         /\ History!Draft = Draft /\ History!Absent = Absent
         /\ History!NoResponse = NoResponse
         /\ History!None = None
<1>1. History!WithRevision(revs, cmd) = WithRevision(revs, cmd)
  BY DEF History!WithRevision, WithRevision, History!None, None
<1>2. History!Reviewed(state, cmd, before) = Reviewed(state, cmd, before)
  BY DEF History!Reviewed, Reviewed, History!HadBaseline, HadBaseline,
         History!Ready, Ready, History!WithChange, WithChange,
         History!None, None
<1>3. History!Answered(resps, state, cmd) = Answered(resps, state, cmd)
  BY DEF History!Answered, Answered, History!Response, Response,
         History!HadBaseline, HadBaseline, History!None, None
<1>4. /\ History!MetadataFits(state, cmd) <=> MetadataFits(state, cmd)
      /\ History!TargetFits(revs, cmd) <=> TargetFits(revs, cmd)
  BY DEF History!MetadataFits, MetadataFits, History!HadBaseline,
         HadBaseline, History!TargetFits, TargetFits, History!None, None
<1>5. /\ History!ChangeIds(state) = ChangeIds(state)
      /\ History!MayReplace(revs, rvs, p, s) <=> MayReplace(revs, rvs, p, s)
  BY DEF History!ChangeIds, ChangeIds, History!MayReplace, MayReplace,
         History!ListedOnce, ListedOnce, History!None, None
<1>6. /\ History!Cleared(revs, p) = Cleared(revs, p)
      /\ History!Replaced(revs, p, s) = Replaced(revs, p, s)
      /\ History!Draft = Draft /\ History!Absent = Absent
      /\ History!NoResponse = NoResponse
  BY DEF History!Cleared, Cleared, History!Replaced, Replaced,
         History!Restored, Restored, History!Draft, Draft, History!Absent,
         Absent, History!NoResponse, NoResponse, History!None, None
<1> QED BY <1>1, <1>2, <1>3, <1>4, <1>5, <1>6 DEF History!None, None

(* The command, of what a caller finds in revs, that RevisionHistory       *)
(* makes of its parts.                                                     *)
CommandOn(revs, p, r, change, b, target, key) ==
  [kind |-> IF r = None THEN "mark-ready"
            ELSE IF b = None THEN "append-revision"
            ELSE "append-revision-and-mark-ready",
   project |-> p, revision |-> r,
   sequence |-> IF r = None THEN 0
                ELSE SequenceOf(revs, Latest(revs, p)) + 1,
   parent |-> IF r = None THEN None ELSE Latest(revs, p),
   change |-> change, baseline |-> b, target |-> target, key |-> key]

LEMMA HistoryCommand ==
  ASSUME NEW p, NEW r, NEW change, NEW b, NEW target, NEW key
  PROVE  History!Command(p, r, change, b, target, key)
           = CommandOn(ShownRevisions, p, r, change, b, target, key)
<1> DEFINE revs == ShownRevisions
<1>1. /\ History!Latest(revs, p) = Latest(revs, p)
      /\ History!SequenceOf(revs, Latest(revs, p))
           = SequenceOf(revs, Latest(revs, p))
  BY HistoryReads
<1> QED BY <1>1 DEF History!Command, CommandOn, ShownRevisions,
                    History!None, None

LEMMA CommandHasParts ==
  ASSUME NEW cmd \in Commands, WellFormed(cmd), NEW revs,
         LET before == Latest(revs, cmd.project) IN
         IsNext(cmd, before, SequenceOf(revs, before))
  PROVE  /\ cmd.kind = "append-revision" =>
              /\ cmd.revision \in Revisions
              /\ cmd = CommandOn(revs, cmd.project, cmd.revision, cmd.change,
                                 None, None, cmd.key)
         /\ cmd.kind = "mark-ready" =>
              /\ cmd.baseline \in Baselines /\ cmd.target \in Revisions
              /\ cmd = CommandOn(revs, cmd.project, None, None, cmd.baseline,
                                 cmd.target, cmd.key)
         /\ cmd.kind = "append-revision-and-mark-ready" =>
              /\ cmd.revision \in Revisions
              /\ cmd.baseline \in Baselines /\ cmd.target \in Revisions
              /\ cmd = CommandOn(revs, cmd.project, cmd.revision, None,
                                 cmd.baseline, cmd.target, cmd.key)
BY CommandIsNext, NamesAssumption DEF CommandOn

LEMMA HistoryCommits ==
  ASSUME NEW cmd \in CallCommands, cmd.kind \in Kinds,
         LET before == Latest(ShownRevisions, cmd.project) IN
         IsNext(cmd, before, SequenceOf(ShownRevisions, before)),
         History!Commit(cmd)
  PROVE  History!Next
<1> DEFINE p == cmd.project
<1>1. /\ cmd \in Commands /\ WellFormed(cmd) /\ cmd.kind \in Kinds
      /\ p \in Projects /\ cmd.key \in Keys \cup {None}
      /\ cmd.change \in Changes \cup {None}
  BY CallFields DEF Commands
<1>2. CASE cmd.kind = "append-revision"
  <2>1. /\ cmd.revision \in Revisions
        /\ cmd = History!Command(p, cmd.revision, cmd.change, None, None,
                                 cmd.key)
    BY <1>1, <1>2, CommandHasParts, HistoryCommand
  <2>2. History!AppendDesign(p, cmd.revision, cmd.change, cmd.key)
    BY <2>1 DEF History!AppendDesign, History!Commit, History!None, None
  <2> QED BY <1>1, <2>1, <2>2 DEF History!Next, History!None, None
<1>3. CASE cmd.kind = "mark-ready"
  <2>1. /\ cmd.baseline \in Baselines /\ cmd.target \in Revisions
        /\ cmd = History!Command(p, None, None, cmd.baseline, cmd.target,
                                 cmd.key)
    BY <1>1, <1>3, CommandHasParts, HistoryCommand
  <2>2. History!MarkReady(p, cmd.baseline, cmd.target, cmd.key)
    BY <2>1 DEF History!MarkReady, History!Commit, History!None, None
  <2> QED BY <1>1, <2>1, <2>2 DEF History!Next, History!None, None
<1>4. CASE cmd.kind = "append-revision-and-mark-ready"
  <2>1. /\ cmd.revision \in Revisions
        /\ cmd.baseline \in Baselines /\ cmd.target \in Revisions
        /\ cmd = History!Command(p, cmd.revision, None, cmd.baseline,
                                 cmd.target, cmd.key)
    BY <1>1, <1>4, CommandHasParts, HistoryCommand
  <2>2. History!AppendAndMarkReady(p, cmd.revision, cmd.baseline, cmd.target,
                                   cmd.key)
    BY <2>1 DEF History!AppendAndMarkReady, History!Commit, History!None, None
  <2> QED BY <1>1, <2>1, <2>2 DEF History!Next, History!None, None
<1> QED BY <1>1, <1>2, <1>3, <1>4 DEF Kinds

LEMMA HistoryBegins == Init => History!Init
<1> SUFFICES ASSUME Init PROVE History!Init
  OBVIOUS
<1>1. Live = {}
  BY DEF Init, Live
<1>2. ShownRevisions = [r \in Revisions |-> Absent]
  BY <1>1 DEF Init, ShownRevisions
<1>3. ShownReview = [p \in Projects |-> Draft]
  BY <1>1 DEF ShownReview
<1> QED
  BY <1>1, <1>2, <1>3, HistoryDoes
     DEF History!Init, Init, ShownRevisions, ShownReview

LEMMA HistoryCommitIs ==
  ASSUME NEW cmd, cmd.project \in Live,
         cmd.key # None => responses[cmd.key] = NoResponse,
         cmd.revision # None => ShownRevisions[cmd.revision] = Absent,
         MetadataFits(ShownReview[cmd.project], cmd),
         TargetFits(ShownRevisions, cmd),
         \A q \in Projects : cmd.change \notin ChangeIds(ShownReview[q]),
         \A q \in Projects :
           cmd.baseline # None => ShownReview[q].baseline # cmd.baseline,
         ShownRevisions' = WithRevision(ShownRevisions, cmd),
         ShownReview' =
           [ShownReview EXCEPT ![cmd.project] =
              Reviewed(ShownReview[cmd.project], cmd,
                       Latest(ShownRevisions, cmd.project))],
         responses' = Answered(responses, ShownReview[cmd.project], cmd),
         Live' = Live
  PROVE  History!Commit(cmd)
<1>1. /\ History!MetadataFits(ShownReview[cmd.project], cmd)
      /\ History!TargetFits(ShownRevisions, cmd)
      /\ \A q \in Projects :
           cmd.change \notin History!ChangeIds(ShownReview[q])
      /\ cmd.revision # History!None =>
           ShownRevisions[cmd.revision] = History!Absent
      /\ cmd.key # History!None => responses[cmd.key] = History!NoResponse
      /\ \A q \in Projects :
           cmd.baseline # History!None =>
             ShownReview[q].baseline # cmd.baseline
  BY HistoryDoes
<1>2. /\ ShownRevisions' = History!WithRevision(ShownRevisions, cmd)
      /\ ShownReview' =
           [ShownReview EXCEPT ![cmd.project] =
              History!Reviewed(ShownReview[cmd.project], cmd,
                               History!Latest(ShownRevisions, cmd.project))]
      /\ responses' =
           History!Answered(responses, ShownReview[cmd.project], cmd)
  BY HistoryDoes, HistoryReads
<1> QED BY <1>1, <1>2 DEF History!Commit, ShownRevisions, ShownReview

(* What has to hold of a command when its transaction commits.             *)
LEMMA CommitReads ==
  ASSUME PostgresInv, NEW t \in Transactions, CommitCommand(t),
         NEW cmd, cmd = tx[t].cmd
  PROVE  /\ cmd \in CallCommands /\ cmd.kind \in Kinds
         /\ cmd \in Commands /\ WellFormed(cmd)
         /\ cmd.project \in Live /\ cmd.project \in Projects
         /\ MetadataFits(review[cmd.project], cmd)
         /\ cmd.key # None => responses[cmd.key] = NoResponse
         /\ cmd.revision # None =>
              /\ revisions[cmd.revision] = Absent
              /\ cmd.revision \in Revisions
              /\ Latest(revisions, cmd.project) = tx[t].found
              /\ IsNext(cmd, tx[t].found,
                        SequenceOf(revisions, tx[t].found))
         /\ TargetFits(revisions, cmd)
         /\ \A q \in Projects :
              /\ cmd.change \notin ChangeIds(review[q])
              /\ cmd.baseline # None => review[q].baseline # cmd.baseline
<1>1. /\ tx[t].step = "finish" /\ cmd.kind # Raw /\ RowsFit(cmd)
  BY DEF CommitCommand
<1>2. /\ cmd \in CallCommands /\ cmd.kind \in Kinds
      /\ cmd \in Commands /\ WellFormed(cmd) /\ cmd.project \in Projects
  <2>1. cmd \in CallCommands /\ cmd.kind \in Kinds \cup {Raw}
    BY <1>1, FitsOf DEF Shape, Working, Ended
  <2> QED BY <1>1, <2>1, CallFields
<1>3. cmd.project \in Live /\ MetadataFits(review[cmd.project], cmd)
  BY <1>1, <1>2, FitsOf DEF RowHeld, Held, Live
<1>4. cmd.revision # None =>
        /\ revisions[cmd.revision] = Absent
        /\ cmd.revision \in Revisions
  BY <1>1, RowFits
<1>5. cmd.revision # None => Latest(revisions, cmd.project) = tx[t].found
  BY <1>1, LatestAtCommit
<1>6. cmd.revision # None =>
        IsNext(cmd, tx[t].found, SequenceOf(revisions, tx[t].found))
  BY <1>1, FitsOf DEF FoundFits
<1>7. \A q \in Projects :
        /\ cmd.change \notin ChangeIds(review[q])
        /\ cmd.baseline # None => review[q].baseline # cmd.baseline
  BY <1>1 DEF RowsFit, PostgresInv, TablesFit
<1>8. /\ TargetFits(revisions, cmd)
      /\ cmd.key # None => responses[cmd.key] = NoResponse
  BY <1>1 DEF RowsFit
<1> QED BY <1>2, <1>3, <1>4, <1>5, <1>6, <1>7, <1>8

LEMMA HistoryEnds ==
  ASSUME PostgresInv, NEW t \in Transactions, CommitCommand(t)
  PROVE  History!Next
<1>0. PICK cmd : cmd = tx[t].cmd
  OBVIOUS
<1> DEFINE p == cmd.project
           new == cmd.revision
           before == Latest(ShownRevisions, p)
           state == ShownReview[p]
<1>1. /\ cmd \in CallCommands /\ cmd.kind \in Kinds
      /\ cmd \in Commands /\ WellFormed(cmd)
      /\ p \in Live /\ p \in Projects
      /\ MetadataFits(review[p], cmd)
      /\ cmd.key # None => responses[cmd.key] = NoResponse
      /\ new # None =>
           /\ revisions[new] = Absent /\ new \in Revisions
           /\ Latest(revisions, p) = tx[t].found
           /\ IsNext(cmd, tx[t].found, SequenceOf(revisions, tx[t].found))
      /\ TargetFits(revisions, cmd)
      /\ \A q \in Projects :
           /\ cmd.change \notin ChangeIds(review[q])
           /\ cmd.baseline # None => review[q].baseline # cmd.baseline
  BY <1>0, CommitReads
<1>2. /\ TypeOK /\ None \notin Live
      /\ Absent.project = None
      /\ state = review[p] /\ before = Latest(revisions, p)
      /\ ShownReview \in [Projects -> ReviewStates]
      /\ ShownRevisions \in [Revisions -> Stored]
      /\ \A r \in OfProject(revisions, p) : ShownRevisions[r] = revisions[r]
  BY <1>1, ShownFits, NamesAssumption DEF PostgresInv, Live, Absent
<1>3. /\ revisions' = WithRevision(revisions, cmd)
      /\ review' = [review EXCEPT ![p] = Reviewed(review[p], cmd, tx[t].found)]
      /\ responses' = Answered(responses, review[p], cmd)
      /\ row' = row
  BY <1>0 DEF CommitCommand
<1>4. Live' = Live
  BY <1>3 DEF Live
<1>5. new # None => ShownRevisions[new] = Absent
  BY <1>1, <1>2 DEF ShownRevisions
<1>6. TargetFits(ShownRevisions, cmd)
  <2>1. cmd.target # None => cmd.target \in Revisions
    BY <1>1 DEF Commands
  <2> QED BY <1>1, <1>2, <2>1 DEF TargetFits, OfProject
<1>7. \A q \in Projects :
        /\ cmd.change \notin ChangeIds(ShownReview[q])
        /\ cmd.baseline # None => ShownReview[q].baseline # cmd.baseline
  <2> TAKE q \in Projects
  <2>1. CASE q \in Live
    BY <1>1, <2>1 DEF ShownReview
  <2>2. CASE q \notin Live
    BY <2>2, DraftListsNothing DEF ShownReview, Draft
  <2> QED BY <2>1, <2>2
<1>8. IsNext(cmd, before, SequenceOf(ShownRevisions, before))
  <2> SUFFICES ASSUME new # None
               PROVE  IsNext(cmd, before, SequenceOf(ShownRevisions, before))
    BY DEF IsNext
  <2>1. /\ before = tx[t].found
        /\ IsNext(cmd, before, SequenceOf(revisions, before))
    BY <1>1, <1>2
  <2>2. CASE before = None
    BY <2>1, <2>2 DEF SequenceOf
  <2>3. CASE before # None
    <3>1. before \in OfProject(revisions, p)
      BY <1>1, <1>2, <2>3, LatestFits, NamesAssumption
         DEF PostgresInv, TypeOK, Latest
    <3> QED BY <1>2, <2>1, <2>3, <3>1 DEF SequenceOf
  <2> QED BY <2>2, <2>3
<1>9. ShownRevisions' = WithRevision(ShownRevisions, cmd)
  <2>1. ShownRevisions' =
          [r \in Revisions |->
             IF revisions'[r].project \in Live THEN revisions'[r] ELSE Absent]
    BY <1>4 DEF ShownRevisions
  <2>2. CASE new = None
    BY <1>3, <2>1, <2>2 DEF WithRevision, ShownRevisions
  <2>3. CASE new # None
    <3> DEFINE added == [project |-> p, sequence |-> cmd.sequence]
    <3>1. revisions' = [revisions EXCEPT ![new] = added]
          /\ added.project = p
      BY <1>3, <2>3 DEF WithRevision
    <3>2. WithRevision(ShownRevisions, cmd) =
            [ShownRevisions EXCEPT ![new] = added]
      BY <2>3 DEF WithRevision
    <3> HIDE DEF added
    <3>3. \A r \in Revisions :
            (IF revisions'[r].project \in Live THEN revisions'[r] ELSE Absent)
              = [ShownRevisions EXCEPT ![new] = added][r]
      BY <1>1, <1>2, <2>3, <3>1 DEF ShownRevisions, TypeOK
    <3> QED BY <1>2, <2>1, <3>2, <3>3
  <2> QED BY <2>2, <2>3
<1>10. Reviewed(review[p], cmd, tx[t].found) = Reviewed(state, cmd, before)
  <2>1. CASE cmd.baseline # None
    BY <1>2, <2>1 DEF Reviewed
  <2>2. CASE cmd.baseline = None
    BY <1>1, <1>2, <2>2 DEF Kinds, WellFormed
  <2> QED BY <2>1, <2>2
<1>11. ShownReview' =
         [ShownReview EXCEPT ![p] = Reviewed(state, cmd, before)]
  <2> DEFINE next == Reviewed(state, cmd, before)
  <2>1. review' = [review EXCEPT ![p] = next]
    BY <1>3, <1>10
  <2> HIDE DEF next
  <2>2. ShownReview' = [q \in Projects |-> IF q \in Live THEN review'[q]
                                           ELSE Draft]
    BY <1>4 DEF ShownReview
  <2>3. ShownReview' = [ShownReview EXCEPT ![p] = next]
    BY <1>1, <1>2, <2>1, <2>2 DEF ShownReview, TypeOK
  <2> QED BY <2>3 DEF next
<1>12. /\ cmd.key # None => responses[cmd.key] = NoResponse
       /\ MetadataFits(state, cmd)
       /\ responses' = Answered(responses, state, cmd)
  BY <1>1, <1>2, <1>3
<1> HIDE DEF before, state
<1>13. History!Commit(cmd)
  BY <1>1, <1>4, <1>5, <1>6, <1>7, <1>9, <1>11, <1>12, HistoryCommitIs
     DEF before, state
<1> QED BY <1>1, <1>8, <1>13, HistoryCommits DEF before

LEMMA HistoryReplaces ==
  ASSUME PostgresInv, NEW t \in Transactions, CommitRestore(t),
         Raw \notin CallKinds
  PROVE  History!Next
<1>0. PICK p, s : p = tx[t].cmd.project /\ s = tx[t].snapshot
  OBVIOUS
<1> DEFINE D == DOMAIN s.sequences
           revs == Restored(AfterDelete(t), p, s)
<1>1. /\ tx[t].step = "restore" /\ SnapshotFits(t)
      /\ row' = [row EXCEPT ![p] = "live"]
      /\ revisions' = revs
      /\ review' = [review EXCEPT ![p] = s.review]
      /\ responses' = responses
  BY <1>0 DEF CommitRestore, Runs
<1>2. /\ p \in Projects /\ p # None /\ s \in Snapshots /\ D \subseteq Revisions
      /\ \A r \in Revisions :
           revisions[r].project # None /\ revisionLock[r] # t =>
             revs[r] = revisions[r] /\ r \notin D
      /\ \A r \in Revisions \ D :
           revisions[r].project = None => revs[r] = revisions[r]
      /\ \A r \in Revisions \ D : revisionLock[r] = t => revs[r] = Absent
      /\ \A r \in Revisions : revisionLock[r] = t => revisions[r].project = p
      /\ OfProject(revs, p) = D
  BY <1>0, <1>1, RestoredRevisions
<1>3. \A r \in D : revs[r] = [project |-> p, sequence |-> s.sequences[r]]
  BY <1>2 DEF Restored
<1>4. /\ TypeOK /\ None \notin Live /\ Absent.project = None
      /\ TablesFit(row, revisions, review, baselineRows, changeRows)
  BY NamesAssumption DEF PostgresInv, Live, Absent
<1>5. Live' = Live \cup {p}
  BY <1>1, <1>2, <1>4 DEF Live, TypeOK
<1>6. MayReplace(ShownRevisions, ShownReview, p, s)
  <2>1. ListedOnce(s.review)
    BY <1>0, <1>1 DEF SnapshotFits
  <2>2. \A r \in D : ShownRevisions[r].project \in {p, None}
    BY <1>2, <1>4 DEF ShownRevisions
  <2>3. \A q \in Projects \ {p} :
          ChangeIds(ShownReview[q]) \cap ChangeIds(s.review) = {}
    <3> TAKE q \in Projects \ {p}
    <3>1. ChangeIds(s.review) \cap changeRows[q] = {}
      BY <1>0, <1>1 DEF SnapshotFits
    <3>2. ChangeIds(review[q]) \subseteq changeRows[q]
      BY <1>4 DEF TablesFit
    <3>3. ChangeIds(ShownReview[q]) \subseteq changeRows[q]
      BY <3>2, DraftListsNothing DEF ShownReview
    <3> QED BY <3>1, <3>3
  <2> QED BY <2>1, <2>2, <2>3 DEF MayReplace
<1>7. ShownRevisions' = Replaced(ShownRevisions, p, s)
  <2> HIDE DEF revs, D
  <2>1. ShownRevisions' =
          [r \in Revisions |->
             IF revs[r].project \in Live \cup {p} THEN revs[r] ELSE Absent]
    BY <1>1, <1>5 DEF ShownRevisions
  <2>2. ASSUME NEW r \in Revisions
        PROVE  (IF revs[r].project \in Live \cup {p} THEN revs[r] ELSE Absent)
                 = Replaced(ShownRevisions, p, s)[r]
    <3>1. CASE r \in D
      <4>1. revs[r] = [project |-> p, sequence |-> s.sequences[r]]
            /\ revs[r].project = p
        BY <1>3, <3>1
      <4>2. Replaced(ShownRevisions, p, s)[r]
              = [project |-> p, sequence |-> s.sequences[r]]
        BY <2>2, <3>1 DEF Replaced, Restored, D
      <4> QED BY <4>1, <4>2
    <3>2. CASE r \notin D
      <4>1. Replaced(ShownRevisions, p, s)[r] =
              IF ShownRevisions[r].project = p THEN Absent
              ELSE ShownRevisions[r]
        BY <2>2, <3>2 DEF Replaced, Restored, Cleared, D
      <4>2. revs[r].project # p
        BY <1>2, <2>2, <3>2 DEF OfProject
      <4>3. CASE revisions[r].project = None
        BY <1>2, <1>4, <2>2, <3>2, <4>1, <4>3 DEF ShownRevisions
      <4>4. CASE revisionLock[r] = t
        BY <1>2, <1>4, <2>2, <3>2, <4>1, <4>4 DEF ShownRevisions
      <4>5. CASE revisions[r].project # None /\ revisionLock[r] # t
        BY <1>2, <1>4, <2>2, <4>1, <4>2, <4>5 DEF ShownRevisions
      <4> QED BY <4>3, <4>4, <4>5
    <3> QED BY <3>1, <3>2
  <2>3. Replaced(ShownRevisions, p, s) =
          [r \in Revisions |-> Replaced(ShownRevisions, p, s)[r]]
    BY DEF Replaced, Restored
  <2> QED BY <2>1, <2>2, <2>3
<1>8. ShownReview' = [ShownReview EXCEPT ![p] = s.review]
  <2>1. ShownReview' = [q \in Projects |-> IF q \in Live \cup {p}
                                           THEN review'[q] ELSE Draft]
    BY <1>5 DEF ShownReview
  <2> QED BY <1>1, <1>2, <1>4, <2>1 DEF ShownReview, TypeOK
<1>9. History!ReplaceProject(p, s)
  <2>1. /\ History!MayReplace(ShownRevisions, ShownReview, p, s)
        /\ ShownRevisions' = History!Replaced(ShownRevisions, p, s)
    BY <1>6, <1>7, HistoryDoes
  <2> QED BY <1>1, <1>5, <1>8, <2>1
          DEF History!ReplaceProject, ShownRevisions, ShownReview
<1> QED BY <1>2, <1>9 DEF History!Next

LEMMA HistoryCreates ==
  ASSUME PostgresInv, NEW p \in Projects, CreateProject(p)
  PROVE  History!Next
<1>1. /\ TypeOK /\ None \notin Live /\ row[p] = "missing"
      /\ row' = [row EXCEPT ![p] = "live"]
      /\ revisions' = revisions /\ review' = review
      /\ responses' = responses
      /\ OfProject(revisions, p) = {} /\ review[p] = Draft
  BY NamesAssumption DEF CreateProject, PostgresInv, TablesFit, Live
<1>2. Live' = Live \cup {p} /\ p \notin Live
  BY <1>1 DEF Live, TypeOK
<1>3. ShownRevisions' = ShownRevisions
  BY <1>1, <1>2 DEF ShownRevisions, OfProject
<1>4. ShownReview' = ShownReview
  BY <1>1, <1>2 DEF ShownReview
<1>5. History!CreateProject(p)
  BY <1>1, <1>2, <1>3, <1>4
     DEF History!CreateProject, ShownRevisions, ShownReview
<1> QED BY <1>5 DEF History!Next

LEMMA HistoryDeletes ==
  ASSUME PostgresInv, NEW p \in Projects, DeleteProject(p)
  PROVE  History!Next
<1>1. /\ TypeOK /\ None \notin Live /\ row[p] = "live"
      /\ row' = [row EXCEPT ![p] = "deleted"]
      /\ revisions' = revisions /\ review' = review
      /\ responses' = responses /\ Absent.project = None
  BY NamesAssumption DEF DeleteProject, PostgresInv, Live, Absent
<1>2. Live' = Live \ {p} /\ p \in Live
  BY <1>1 DEF Live, TypeOK
<1>3. ShownRevisions' = Cleared(ShownRevisions, p)
  BY <1>1, <1>2 DEF ShownRevisions, Cleared
<1>4. ShownReview' = [ShownReview EXCEPT ![p] = Draft]
  BY <1>1, <1>2 DEF ShownReview
<1>5. /\ ShownRevisions' = History!Cleared(ShownRevisions, p)
      /\ ShownReview' = [ShownReview EXCEPT ![p] = History!Draft]
  BY <1>3, <1>4, HistoryDoes
<1>6. History!DeleteProject(p)
  BY <1>1, <1>2, <1>5
     DEF History!DeleteProject, ShownRevisions, ShownReview
<1> QED BY <1>6 DEF History!Next

LEMMA HistoryStep ==
  ASSUME PostgresInv, [Next]_vars, Raw \notin CallKinds
  PROVE  [History!Next]_(History!vars)
<1>1. CASE UNCHANGED <<row, revisions, review, responses>>
  BY <1>1 DEF History!vars, Live
<1>2. ASSUME NEW t \in Transactions, CommitAppend(t) PROVE FALSE
  <2>1. tx[t].cmd \in CallCommands /\ tx[t].cmd.kind = Raw
    BY <1>2, FitsOf DEF CommitAppend, Shape, Working, Ended
  <2> QED BY <2>1, CallFields
<1>3. \/ UNCHANGED <<row, revisions, review, responses>>
      \/ \E t \in Transactions :
           CommitCommand(t) \/ CommitRestore(t) \/ CommitAppend(t)
      \/ \E p \in Projects : CreateProject(p) \/ DeleteProject(p)
  BY CommitsWrite DEF tables
<1> QED BY <1>1, <1>2, <1>3, HistoryEnds, HistoryReplaces, HistoryCreates,
           HistoryDeletes

(* For callers who use commitDesignRevision() and replaceProject(): what   *)
(* they see of the tables is the atomic repository, though each call is a  *)
(* transaction of many statements that interleave, wait, are lost or find  *)
(* the row they had picked deleted.                                        *)
THEOREM TransactionsAreAtomic ==
  ASSUME Raw \notin CallKinds
  PROVE  Spec => ImplementsHistory
<1>1. Init => History!Init
  BY HistoryBegins
<1>2. PostgresInv /\ [Next]_vars => [History!Next]_(History!vars)
  BY HistoryStep
<1> QED BY <1>1, <1>2, Invariant, PTL DEF Spec, ImplementsHistory, History!Spec
=============================================================================
