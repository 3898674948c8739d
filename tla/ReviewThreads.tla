---------------------------- MODULE ReviewThreads ---------------------------
(***************************************************************************)
(* Review threads: the HTTP handlers of the collaboration service and both *)
(* repositories.  In memory a method runs without interruption.  In        *)
(* PostgreSQL mutateReviewThread is a transaction that locks the thread's  *)
(* row, its project and the scope of its receipts, and the other methods   *)
(* read the thread and then update the row if its version is still the one *)
(* they read.  The database is external: see PostgresRevisions.            *)
(*                                                                         *)
(* The identifier of a message is that of the operation that writes it, so *)
(* two requests with one operation differ in kind or expected version.     *)
(***************************************************************************)
EXTENDS Integers, Sequences, FiniteSets, SequencesExt

CONSTANTS
  Threads,      \* identifiers of review threads, all of one project
  Operations,   \* identifiers of operations, chosen by clients
  Revisions,    \* the project's revisions
  Calls,        \* requests to the service; each is made at most once
  Kinds,        \* the requests that are made
  MaxReceipts,  \* receipts kept for a thread: 100 in the code
  None

Mutations == {"create", "reply", "resolve", "reopen"}
Direct == {"append", "react", "read", "move", "close", "open"}
Whole == {"export", "replace", "delete"}

ASSUME KindsAssumption == Kinds \subseteq Mutations \cup Direct \cup Whole
ASSUME NoneAssumption ==
  None \notin Calls \cup Operations \cup Revisions \cup Threads
ASSUME CallsAssumption == IsFiniteSet(Calls)
ASSUME ReceiptsAssumption == MaxReceipts \in Nat \ {0}

(* A call raises a version by one at most.                                 *)
MaxVersion == Cardinality(Calls) + 1

VARIABLES
  repository,  \* "memory" or "postgres"; never changes
  live,        \* whether the project exists and is not deleted
  threads,     \* the stored threads
  receipts,    \* the receipts of each thread, oldest first
  backup,      \* what the last export holds of each thread
  rowLock,     \* PostgreSQL: who has locked a thread's row
  projectLock, \* who has locked the project's row for update
  keyShare,    \* who holds it with KEY SHARE
  scopeLock,   \* who holds the advisory lock of a thread's receipts
  call,        \* each request
  applied,     \* history: the calls whose changes each thread contains
  base,        \* history: each thread's version before those changes
  ever,        \* history: the operations ever applied to a thread
  crossed      \* history: a replacement came between a read and its update

store == <<live, threads, receipts>>
locks == <<rowLock, projectLock, keyShare, scopeLock>>
history == <<applied, base, ever, crossed>>
vars == <<repository, store, backup, locks, call, history>>

(* A thread as far as concurrent changes can tell: bound is the revision   *)
(* of its hosted binding, marks are reactions and read marks.              *)
ThreadValues ==
  [version : 1..MaxVersion, lifecycle : {"open", "resolved"},
   messages : SUBSET Operations, marks : SUBSET Calls,
   revision : Revisions, bound : Revisions \cup {None}]

Receipts ==
  [operation : Operations, kind : Mutations, expected : 0..MaxVersion]

Phases == {"idle", "calling", "row", "project", "scope", "read", "done"}
Answers == {"none", "applied", "replayed", "conflict", "refused", "unknown"}

(* A request, the thread its method has read, and the answer.              *)
NewCall ==
  [phase |-> "idle", kind |-> "export", thread |-> None, operation |-> None,
   expected |-> 0, revision |-> None, bound |-> None, seen |-> None,
   answer |-> "none"]
CallValues ==
  [phase : Phases, kind : Mutations \cup Direct \cup Whole,
   thread : Threads \cup {None}, operation : Operations \cup {None},
   expected : 0..MaxVersion, revision : Revisions \cup {None},
   bound : Revisions \cup {None}, seen : ThreadValues \cup {None},
   answer : Answers]

Copy(value, done, before) ==
  [thread |-> value, applied |-> done, base |-> before]
NoCopy == Copy(None, {}, 0)

TypeOK ==
  /\ repository \in {"memory", "postgres"}
  /\ live \in BOOLEAN
  /\ threads \in [Threads -> ThreadValues \cup {None}]
  /\ receipts \in [Threads -> Seq(Receipts)]
  /\ \A t \in Threads : Len(receipts[t]) <= MaxReceipts
  /\ backup \in [Threads -> [thread : ThreadValues \cup {None},
                             applied : SUBSET Calls, base : 0..MaxVersion]]
  /\ rowLock \in [Threads -> Calls \cup {None}]
  /\ projectLock \in Calls \cup {None} /\ keyShare \in SUBSET Calls
  /\ scopeLock \in [Threads -> Calls \cup {None}]
  /\ call \in [Calls -> CallValues]
  /\ applied \in [Threads -> SUBSET Calls]
  /\ base \in [Threads -> 0..MaxVersion]
  /\ ever \in [Threads -> SUBSET Operations]
  /\ crossed \in BOOLEAN

(* A thread that exists at the start has a first message without a name    *)
(* here and is part of the last export.                                    *)
Existing ==
  {[version |-> 1, lifecycle |-> "open", messages |-> {}, marks |-> {},
    revision |-> pair[1], bound |-> pair[2]] :
     pair \in {p \in Revisions \X (Revisions \cup {None}) :
                 p[2] \in {p[1], None}}}

Init ==
  /\ repository \in {"memory", "postgres"}
  /\ live = TRUE
  /\ threads \in [Threads -> {None} \cup Existing]
  /\ receipts = [t \in Threads |-> <<>>]
  /\ backup = [t \in Threads |-> IF threads[t] = None THEN NoCopy
                                 ELSE Copy(threads[t], {}, 1)]
  /\ rowLock = [t \in Threads |-> None]
  /\ projectLock = None /\ keyShare = {}
  /\ scopeLock = [t \in Threads |-> None]
  /\ call = [c \in Calls |-> NewCall]
  /\ applied = [t \in Threads |-> {}]
  /\ base = [t \in Threads |-> backup[t].base]
  /\ ever = [t \in Threads |-> {}]
  /\ crossed = FALSE

-----------------------------------------------------------------------------
(* The handlers.  All but creation read the thread first; a hosted one     *)
(* compares the thread's binding with the published one, which the host    *)
(* resolves anew for each request.  The version a change expects is the    *)
(* client's, who has seen it, or the one just read.  A request refused     *)
(* here (identity, access, shape) changes nothing and is left out.         *)
Request(c, request) ==
  /\ call[c].phase = "idle"
  /\ call' = [call EXCEPT ![c] = request]
  /\ UNCHANGED <<repository, store, backup, locks, history>>

Create(c, t, o, r, hosted) ==
  /\ "create" \in Kinds
  /\ Request(c, [NewCall EXCEPT
       !.phase = "calling", !.kind = "create", !.thread = t, !.operation = o,
       !.revision = r, !.bound = IF hosted THEN r ELSE None])

Change(c, k, t, o, v, hosted) ==
  /\ k \in Kinds \cap (Mutations \ {"create"})
  /\ threads[t] # None /\ v <= threads[t].version
  /\ hosted => threads[t].bound # None
  /\ Request(c, [NewCall EXCEPT
       !.phase = "calling", !.kind = k, !.thread = t, !.operation = o,
       !.expected = v])

Touch(c, k, t, o, r) ==
  /\ k \in Kinds \cap Direct
  /\ threads[t] # None
  /\ Request(c, [NewCall EXCEPT
       !.phase = "calling", !.kind = k, !.thread = t, !.operation = o,
       !.revision = r])

Manage(c, k) ==
  /\ k \in Kinds \cap Whole
  /\ Request(c, [NewCall EXCEPT !.phase = "calling", !.kind = k])

-----------------------------------------------------------------------------
(* What both repositories compute.                                         *)
Receipt(c) ==
  [operation |-> call[c].operation, kind |-> call[c].kind,
   expected |-> call[c].expected]

ReceiptsOf(c) ==
  {r \in ToSet(receipts[call[c].thread]) : r.operation = call[c].operation}

(* Mutant: a receipt is honoured whatever has happened since.              *)
AlwaysApplied(r, thread) == r.kind = "reopen" => thread.lifecycle = "open"

StillApplied(r, thread) ==
  /\ r.kind = "resolve" => thread.lifecycle = "resolved"
  /\ r.kind = "reopen" => thread.lifecycle = "open"
  /\ r.kind = "reply" => r.operation \in thread.messages

Remember(t, r) ==
  LET all == Append(receipts[t], r) IN
  IF Len(all) > MaxReceipts THEN Tail(all) ELSE all

NewThread(c) ==
  [version |-> 1, lifecycle |-> "open", messages |-> {call[c].operation},
   marks |-> {}, revision |-> call[c].revision, bound |-> call[c].bound]

(* validateReviewThread: identifiers of messages are unique, and a hosted  *)
(* thread is anchored in the revision it is bound to.                      *)
Valid(c, thread) ==
  /\ call[c].kind \in {"reply", "append"} =>
       call[c].operation \notin thread.messages
  /\ call[c].kind = "move" /\ thread.bound # None =>
       call[c].revision = thread.bound
  /\ call[c].kind # "move" /\ thread.bound # None =>
       thread.revision = thread.bound

FromLifecycle(kind) ==
  CASE kind \in {"resolve", "close"} -> {"open"}
    [] kind \in {"reopen", "open"} -> {"resolved"}
    [] OTHER -> {"open", "resolved"}

Changed(c, thread) ==
  LET k == call[c].kind
      next == [thread EXCEPT !.version = @ + 1] IN
  CASE k \in {"reply", "append"} ->
         [next EXCEPT !.messages = @ \cup {call[c].operation}]
    [] k \in {"resolve", "close"} -> [next EXCEPT !.lifecycle = "resolved"]
    [] k \in {"reopen", "open"} -> [next EXCEPT !.lifecycle = "open"]
    [] k \in {"react", "read"} -> [next EXCEPT !.marks = @ \cup {c}]
    [] k = "move" -> [next EXCEPT !.revision = call[c].revision]

(* Mutant: the lifecycle is compared and the version is not.               *)
AsLifecycle(c) ==
  LET current == threads[call[c].thread] IN
  IF call[c].kind = "create" THEN current = None
  ELSE current.lifecycle \in FromLifecycle(call[c].kind)

AsExpected(c) ==
  LET current == threads[call[c].thread] IN
  IF call[c].kind = "create" THEN current = None
  ELSE /\ current.version = call[c].expected
       /\ current.lifecycle \in FromLifecycle(call[c].kind)

(* mutateReviewThread's answer; exists says whether it found the project.  *)
(* Only the in-memory repository creates a thread anew that a replacement  *)
(* has removed and whose receipt it still has.                             *)
Outcome(c, exists) ==
  LET current == threads[call[c].thread]
      creates == call[c].kind = "create"
      new == \/ ReceiptsOf(c) = {}
             \/ repository = "memory" /\ current = None
  IN
  IF ~creates /\ current = None THEN "conflict"
  ELSE IF ~exists THEN "refused"
  ELSE IF /\ current # None
          /\ \E r \in ReceiptsOf(c) :
               r = Receipt(c) /\ StillApplied(r, current)
       THEN "replayed"
  ELSE IF ~(new /\ AsExpected(c)) THEN "conflict"
  ELSE IF creates \/ Valid(c, current) THEN "applied" ELSE "refused"

(* A host effect that was abandoned, at its deadline or with its client,   *)
(* has the same effects, and its caller learns nothing.  What the handler  *)
(* does with an answer, its event, is the subject of ServiceWrites.        *)
Answer(c, answer) ==
  \E told \in {answer, "unknown"} :
    call' = [call EXCEPT ![c].phase = "done", ![c].answer = told,
                         ![c].seen = None]

Put(c, thread) ==
  LET t == call[c].thread IN
  /\ threads' = [threads EXCEPT ![t] = thread]
  /\ applied' = [applied EXCEPT
                   ![t] = IF threads[t] = None THEN {c} ELSE @ \cup {c}]
  /\ base' = [base EXCEPT ![t] = IF threads[t] = None THEN 0 ELSE @]

(* What mutateReviewThread writes.                                         *)
Write(c, exists) ==
  LET t == call[c].thread
      answer == Outcome(c, exists) IN
  /\ IF answer # "applied"
     THEN UNCHANGED <<threads, receipts, applied, base, ever>>
     ELSE /\ Put(c, IF call[c].kind = "create" THEN NewThread(c)
                    ELSE Changed(c, threads[t]))
          /\ receipts' = [receipts EXCEPT ![t] = Remember(t, Receipt(c))]
          /\ ever' = [ever EXCEPT ![t] = @ \cup {call[c].operation}]
  /\ UNCHANGED <<repository, live, backup, crossed>>

Restored ==
  /\ live' = TRUE
  /\ threads' = [t \in Threads |-> backup[t].thread]
  /\ applied' = [t \in Threads |-> backup[t].applied]
  /\ base' = [t \in Threads |-> backup[t].base]
  /\ crossed' = (crossed \/ \E c \in Calls : call[c].phase = "read")
  /\ UNCHANGED <<repository, receipts, backup, ever>>

Export(c) ==
  /\ call[c].phase = "calling" /\ call[c].kind = "export"
  /\ backup' = IF ~live THEN backup
               ELSE [t \in Threads |->
                       IF threads[t] = None THEN NoCopy
                       ELSE Copy(threads[t], applied[t], base[t])]
  /\ Answer(c, IF live THEN "applied" ELSE "refused")
  /\ UNCHANGED <<repository, store, locks, history>>

-----------------------------------------------------------------------------
(* The in-memory repository.                                               *)
InMemory(c) == repository = "memory" /\ call[c].phase = "calling"

MutateInMemory(c) ==
  /\ InMemory(c) /\ call[c].kind \in Mutations
  /\ Write(c, live)
  /\ Answer(c, Outcome(c, live))
  /\ UNCHANGED locks

(* appendReviewThreadMessage and the five methods that follow it.          *)
TouchInMemory(c) ==
  LET current == threads[call[c].thread]
      fits == /\ current # None
              /\ current.lifecycle \in FromLifecycle(call[c].kind)
              /\ Valid(c, current) IN
  /\ InMemory(c) /\ call[c].kind \in Direct
  /\ IF fits THEN Put(c, Changed(c, current))
     ELSE UNCHANGED <<threads, applied, base>>
  /\ Answer(c, IF fits THEN "applied" ELSE "refused")
  /\ UNCHANGED <<repository, live, receipts, backup, locks, ever, crossed>>

ReplaceInMemory(c) ==
  /\ InMemory(c) /\ call[c].kind = "replace"
  /\ Restored
  /\ Answer(c, "applied")
  /\ UNCHANGED locks

(* clearProject removes the threads and leaves the receipts.               *)
DeleteInMemory(c) ==
  /\ InMemory(c) /\ call[c].kind = "delete"
  /\ live' = FALSE
  /\ threads' = [t \in Threads |-> None]
  /\ applied' = [t \in Threads |-> {}]
  /\ base' = [t \in Threads |-> 0]
  /\ Answer(c, "applied")
  /\ UNCHANGED <<repository, receipts, backup, locks, ever, crossed>>

-----------------------------------------------------------------------------
(* The PostgreSQL repository.                                              *)
Postgres(c, phase) == repository = "postgres" /\ call[c].phase = phase

Released(c) ==
  /\ rowLock' = [t \in Threads |-> IF rowLock[t] = c THEN None ELSE rowLock[t]]
  /\ scopeLock' =
       [t \in Threads |-> IF scopeLock[t] = c THEN None ELSE scopeLock[t]]
  /\ projectLock' = IF projectLock = c THEN None ELSE projectLock
  /\ keyShare' = keyShare \ {c}

(* A transaction ends without effect.                                      *)
RollBack(c, answer) ==
  /\ Answer(c, answer)
  /\ Released(c)
  /\ UNCHANGED <<repository, store, backup, history>>

LockRow(c) ==
  LET t == call[c].thread IN
  /\ Postgres(c, "calling") /\ call[c].kind \in Mutations \ {"create"}
  /\ rowLock[t] = None
  /\ IF threads[t] = None THEN RollBack(c, "conflict")
     ELSE /\ rowLock' = [rowLock EXCEPT ![t] = c]
          /\ call' = [call EXCEPT ![c].phase = "row"]
          /\ UNCHANGED <<repository, store, backup, projectLock, keyShare,
                         scopeLock, history>>

LockProject(c) ==
  /\ \/ Postgres(c, "row")
     \/ Postgres(c, "calling") /\ call[c].kind = "create"
  /\ projectLock = None
  /\ IF ~live THEN RollBack(c, "refused")
     ELSE /\ keyShare' = keyShare \cup {c}
          /\ call' = [call EXCEPT ![c].phase = "project"]
          /\ UNCHANGED <<repository, store, backup, rowLock, projectLock,
                         scopeLock, history>>

LockScope(c) ==
  /\ Postgres(c, "project") /\ call[c].kind \in Mutations
  /\ scopeLock[call[c].thread] = None
  /\ scopeLock' = [scopeLock EXCEPT ![call[c].thread] = c]
  /\ call' = [call EXCEPT ![c].phase = "scope"]
  /\ UNCHANGED <<repository, store, backup, rowLock, projectLock, keyShare,
                 history>>

(* From the receipt's SELECT to the commit; a creation that finds the      *)
(* thread's row waits for it.                                              *)
CommitMutation(c) ==
  /\ Postgres(c, "scope")
  /\ rowLock[call[c].thread] \in {None, c}
  /\ Write(c, TRUE)
  /\ Answer(c, Outcome(c, TRUE))
  /\ Released(c)

(* The other methods read the thread and compute its next value from that. *)
(* moveReviewThread does not validate the thread that results.             *)
ReadThread(c) ==
  LET current == threads[call[c].thread]
      fits == /\ current # None
              /\ current.lifecycle \in FromLifecycle(call[c].kind)
              /\ call[c].kind = "move" \/ Valid(c, current) IN
  /\ Postgres(c, "calling") /\ call[c].kind \in Direct
  /\ \/ fits /\ call' = [call EXCEPT ![c].seen = current,
                                      ![c].phase = "read"]
     \/ ~fits /\ Answer(c, "refused")
  /\ UNCHANGED <<repository, store, backup, locks, history>>

(* Mutant: the update does not compare versions.                           *)
StillThere(c) == threads[call[c].thread] # None

(* UPDATE ... WHERE version = the version read, in the columns that the    *)
(* method names.                                                           *)
StillRead(c) ==
  LET current == threads[call[c].thread] IN
  /\ current # None /\ current.version = call[c].seen.version
  /\ current.lifecycle \in FromLifecycle(call[c].kind)

UpdateRow(c) ==
  LET t == call[c].thread
      current == threads[t]
      next == Changed(c, call[c].seen)
      row == CASE call[c].kind \in {"append", "react", "read"} ->
                    [current EXCEPT !.version = next.version,
                                    !.messages = next.messages,
                                    !.marks = next.marks]
               [] call[c].kind \in {"close", "open"} ->
                    [current EXCEPT !.version = next.version,
                                    !.lifecycle = next.lifecycle]
               [] call[c].kind = "move" ->
                    [current EXCEPT !.version = next.version,
                                    !.revision = next.revision] IN
  /\ Postgres(c, "read") /\ rowLock[t] = None
  /\ IF StillRead(c) THEN Put(c, row)
     ELSE UNCHANGED <<threads, applied, base>>
  /\ Answer(c, IF StillRead(c) THEN "applied" ELSE "conflict")
  /\ UNCHANGED <<repository, live, receipts, backup, locks, ever, crossed>>

LockForReplacement(c) ==
  /\ Postgres(c, "calling") /\ call[c].kind = "replace"
  /\ projectLock = None /\ keyShare = {}
  /\ projectLock' = c
  /\ call' = [call EXCEPT ![c].phase = "project"]
  /\ UNCHANGED <<repository, store, backup, rowLock, keyShare, scopeLock,
                 history>>

DeleteRow(c, t) ==
  /\ Postgres(c, "project") /\ call[c].kind = "replace"
  /\ threads[t] # None /\ rowLock[t] = None
  /\ rowLock' = [rowLock EXCEPT ![t] = c]
  /\ UNCHANGED <<repository, store, backup, projectLock, keyShare, scopeLock,
                 call, history>>

CommitReplacement(c) ==
  /\ Postgres(c, "project") /\ call[c].kind = "replace"
  /\ \A t \in Threads : threads[t] # None => rowLock[t] = c
  /\ Restored
  /\ Answer(c, "applied")
  /\ Released(c)

(* The project is marked; its threads stay.                                *)
MarkDeleted(c) ==
  /\ Postgres(c, "calling") /\ call[c].kind = "delete"
  /\ projectLock = None
  /\ live' = FALSE
  /\ Answer(c, "applied")
  /\ UNCHANGED <<repository, threads, receipts, backup, locks, history>>

(* The connection, the process or the database fails.                      *)
Lose(c) ==
  /\ repository = "postgres"
  /\ call[c].phase \in {"calling", "row", "project", "scope", "read"}
  /\ RollBack(c, "unknown")

(* Whose locks keep the next statement of a transaction waiting.           *)
WaitsFor(c) ==
  LET t == call[c].thread
      k == call[c].kind
      rows == IF k = "replace"
              THEN {rowLock[u] : u \in {v \in Threads : threads[v] # None}}
              ELSE IF t = None THEN {} ELSE {rowLock[t]}
      holders ==
        CASE call[c].phase = "calling" /\ k = "create" -> {projectLock}
          [] call[c].phase = "calling" /\ k = "replace" ->
               {projectLock} \cup keyShare
          [] call[c].phase = "calling" /\ k = "delete" -> {projectLock}
          [] call[c].phase = "calling" /\ k \in Mutations \ {"create"} -> rows
          [] call[c].phase = "row" -> {projectLock}
          [] call[c].phase = "project" /\ k = "replace" -> rows
          [] call[c].phase = "project" /\ k # "replace" -> {scopeLock[t]}
          [] call[c].phase = "scope" -> rows
          [] call[c].phase = "read" -> rows
          [] OTHER -> {} IN
  holders \ {None, c}

(* PostgreSQL ends one transaction of a cycle.                             *)
Victim(c) ==
  /\ repository = "postgres"
  /\ \E S \in SUBSET Calls :
       c \in S /\ \A d \in S : WaitsFor(d) \cap S # {}
  /\ RollBack(c, "unknown")

-----------------------------------------------------------------------------
Progress(c) ==
  \/ Export(c)
  \/ MutateInMemory(c) \/ TouchInMemory(c)
  \/ ReplaceInMemory(c) \/ DeleteInMemory(c)
  \/ LockRow(c) \/ LockProject(c) \/ LockScope(c) \/ CommitMutation(c)
  \/ ReadThread(c) \/ UpdateRow(c)
  \/ LockForReplacement(c) \/ \E t \in Threads : DeleteRow(c, t)
  \/ CommitReplacement(c) \/ MarkDeleted(c) \/ Victim(c)

Asked(c) ==
  \/ \E t \in Threads, o \in Operations, r \in Revisions, h \in BOOLEAN :
       Create(c, t, o, r, h)
  \/ \E t \in Threads, o \in Operations, k \in Mutations,
        v \in 1..MaxVersion, h \in BOOLEAN : Change(c, k, t, o, v, h)
  \/ \E t \in Threads, o \in Operations, k \in Direct, r \in Revisions :
       Touch(c, k, t, o, r)
  \/ \E k \in Whole : Manage(c, k)

Next == \E c \in Calls : Asked(c) \/ Progress(c) \/ Lose(c)

Spec == Init /\ [][Next]_vars

-----------------------------------------------------------------------------
(* What an acknowledged change wrote is in the thread until a replacement  *)
(* takes it back, and the version counts the changes: of two changes made  *)
(* from one version, in whatever way, one is refused.  A replacement that  *)
(* comes between a read and its update is the exception: it may rewind the *)
(* version to the one that was read.  However often a client repeats a     *)
(* mutation, also when its receipt has been pruned, a thread does not      *)
(* contain it twice (mutateReviewThread).                                  *)
ChangesKept ==
  /\ ~crossed =>
       \A t \in Threads : threads[t] # None =>
         /\ threads[t].version = base[t] + Cardinality(applied[t])
         /\ \A c \in applied[t] :
              /\ call[c].kind \in {"create", "reply", "append"} =>
                   call[c].operation \in threads[t].messages
              /\ call[c].kind \in {"react", "read"} =>
                   c \in threads[t].marks
  /\ \A t \in Threads : \A c, d \in applied[t] :
       {call[c].kind, call[d].kind} \subseteq Mutations
         /\ Receipt(c) = Receipt(d) => c = d

(* A client is told that its operation had been applied before only if it  *)
(* was and its effect still holds when the answer is made: a resolution is *)
(* not confirmed after a reopening, nor a reply that a replacement took    *)
(* back (mutateReviewThread's stillApplied).                               *)
ReplayHolds ==
  [][\A c \in Calls :
       call[c].answer # "replayed" /\ call'[c].answer = "replayed" =>
         LET t == call[c].thread IN
         /\ call[c].operation \in ever[t]
         /\ threads[t] # None
         /\ call[c].kind = "reply" =>
              call[c].operation \in threads[t].messages
         /\ call[c].kind = "resolve" => threads[t].lifecycle = "resolved"
         /\ call[c].kind = "reopen" => threads[t].lifecycle = "open"]_vars

=============================================================================
