--------------------------- MODULE DesignerProject ---------------------------
(***************************************************************************)
(* One local project as the desktop's designer service holds it in memory  *)
(* and as the lifecycle service keeps it in one file.                      *)
(*                                                                         *)
(* Every operation runs in one first-in first-out queue (graphOperation),  *)
(* except that an AI request leaves the queue while its agent works:       *)
(* requestAIChange is three queued operations (start, stage, record) with  *)
(* unqueued code between them, and its catch block changes the             *)
(* conversation while another operation may be saving.  A save replaces    *)
(* the file by a rename, then synchronises the directory, so it can fail   *)
(* before the rename ("lost") or after it ("unsure").  A crash loses the   *)
(* memory and keeps the file.                                              *)
(*                                                                         *)
(* The flow graph is read by itself, and a read that fails does not keep   *)
(* the project from opening: the memory then has a fresh graph, revision   *)
(* 0, and is in recovery until the graph is read again or given up.        *)
(*                                                                         *)
(* A revision is its number, and so is a flow graph; comments, baselines   *)
(* and design inputs are left out, as nothing here reads them back, and so *)
(* is the older file of a flow graph no record has yet.  The lifecycle     *)
(* workspace and the last revision of its designer state are one field:    *)
(* every write checks that they agree (validateDesignerStateCurrent).      *)
(***************************************************************************)
EXTENDS Integers, Sequences

CONSTANTS
  Requests,      \* the AI requests a user may make
  MaxRevisions,  \* bound: revisions in a history
  MaxGraph,      \* bound: saves of the flow graph
  MaxQueued,     \* bound: operations waiting in the queue
  None

VARIABLES
  stored,   \* the project's record on disk
  memory,   \* the designer service's fields
  queue,    \* graphOperation: the operations waiting, in order
  op,       \* the operation that runs, or None
  call,     \* where each requestAIChange call is
  asked,    \* sourceRevisionId: the revision its agent was given
  aborted,  \* the requests whose AbortController has fired
  doubt     \* history: a save failed after its rename, since the last open

vars == <<stored, memory, queue, op, call, asked, aborted, doubt>>

RevisionIds == 1..MaxRevisions
Lifecycles  == {"none", "running", "failed", "cancelled", "applied", "undone"}
Entries     == [id : RevisionIds, by : Requests \cup {None}]
Proposals   == [request : Requests, base : RevisionIds,
                candidate : RevisionIds, asked : RevisionIds]
Kinds == {"start", "stage", "record", "accept", "reject", "undoAI", "edit",
          "undo", "graph", "hydrate", "recover", "review", "ready", "open",
          "leave"}
Calls == {"idle", "starting", "answering", "answered", "failing",
          "recording", "ended"}

Parts == [revs : Seq(Entries), requests : [Requests -> Lifecycles],
          pending : Proposals \cup {None}, graph : 0..MaxGraph]
Memories == [revs : Seq(Entries), requests : [Requests -> Lifecycles],
             pending : Proposals \cup {None}, graph : 0..MaxGraph,
             recovering : BOOLEAN, active : Requests \cup {None},
             same : BOOLEAN, open : BOOLEAN]
Operations == [kind : Kinds, request : Requests \cup {None},
               phase : {"compiling", "writing"}, before : Memories,
               payload : Parts \cup {None}]

TypeOK ==
  /\ stored \in Parts
  /\ memory \in Memories
  /\ \A i \in DOMAIN queue : queue[i].kind \in Kinds
  /\ op \in Operations \cup {None}
  /\ call \in [Requests -> Calls]
  /\ asked \in [Requests -> RevisionIds]
  /\ aborted \subseteq Requests
  /\ doubt \in BOOLEAN

Head1(s) == s[Len(s)]
Source(part) == Head1(part.revs).id   \* source.revision.id

\* guidanceState, persistProjectState: what a save writes of the memory.
Part(m) == [revs |-> m.revs, requests |-> m.requests,
            pending |-> m.pending, graph |-> m.graph]

Created == [revs |-> <<[id |-> 1, by |-> None]>>,
            requests |-> [q \in Requests |-> "none"],
            pending |-> None, graph |-> 0]

\* The service while another project, or the sample, is open in it.
Closed == [revs |-> Created.revs, requests |-> Created.requests,
           pending |-> None, graph |-> 0, recovering |-> FALSE,
           active |-> None, same |-> FALSE, open |-> FALSE]

\* hydratePrototypeGraphUnlocked: the stored graph, or a fresh one when it
\* cannot be read.  Another project's graph is none of this record's.
Hydrations(m) ==
  {[m EXCEPT !.graph = IF m.open THEN stored.graph ELSE 0,
             !.recovering = FALSE],
   [m EXCEPT !.graph = 0, !.recovering = TRUE]}

Init ==
  /\ stored = Created
  /\ memory \in Hydrations(Closed)
  /\ queue = <<>>
  /\ op = None
  /\ call = [q \in Requests |-> "idle"]
  /\ asked = [q \in Requests |-> 1]
  /\ aborted = {}
  /\ doubt = FALSE

-----------------------------------------------------------------------------
(* The queue.                                                              *)

Entry(kind, request, base) ==
  [kind |-> kind, request |-> request, base |-> base]

Enqueue(entry) == queue' = Append(queue, entry)

\* A revision identifier nobody has used: the code draws a random one.
Fresh ==
  LET used == {stored.revs[i].id : i \in DOMAIN stored.revs}
                \cup {memory.revs[i].id : i \in DOMAIN memory.revs}
                \cup {p.candidate : p \in {stored.pending, memory.pending}
                                            \ {None}}
  IN  {i \in RevisionIds \ used : \A j \in RevisionIds \ used : i <= j}

\* The user's calls, as the renderer can make them: an edit carries the
\* revision its capability was minted for, a decision names the proposal on
\* screen, an open carries the workspace the lifecycle service just read.
UserEntries ==
  {Entry(k, None, 0) : k \in {"undo", "graph", "hydrate", "review", "ready",
                              "undoAI", "leave"}
                               \cup IF memory.recovering THEN {"recover"}
                                    ELSE {}}
    \cup {Entry("edit", None, Source(memory)),
          Entry("open", None, Source(stored))}
    \cup {Entry(k, memory.pending.request, memory.pending.candidate) :
            k \in IF memory.pending = None THEN {} ELSE {"accept", "reject"}}

Ask ==
  /\ Len(queue) < MaxQueued
  /\ \E entry \in UserEntries :
        /\ entry.kind \notin {"open", "hydrate"} => memory.open
        /\ Enqueue(entry)
  /\ UNCHANGED <<stored, memory, op, call, asked, aborted, doubt>>

RequestAIChange(q) ==
  /\ call[q] = "idle" /\ memory.open
  /\ Len(queue) < MaxQueued
  /\ Enqueue(Entry("start", q, 0))
  /\ call' = [call EXCEPT ![q] = "starting"]
  /\ UNCHANGED <<stored, memory, op, asked, aborted, doubt>>

-----------------------------------------------------------------------------
(* What each operation asks for before it changes anything.                *)

NoAgent    == memory.active = None
NoProposal == memory.pending = None

\* requirePendingAIProposal
Decides(entry) ==
  /\ memory.pending # None
  /\ memory.pending.request = entry.request
  /\ memory.pending.candidate = entry.base
  /\ memory.pending.base = Source(memory)

\* A slip: only the project is compared, as if an edit could not intervene.
SameProject(q) == q \notin aborted /\ memory.open /\ memory.same

\* The agent's result still belongs to the open project and its revision.
Fitting(q) ==
  /\ q \notin aborted
  /\ memory.open /\ memory.same
  /\ Source(memory) = asked[q]

Permitted(entry) ==
  LET kind == entry.kind IN
  /\ kind \notin {"open", "leave", "hydrate"} => memory.open
  /\ kind \in {"start", "accept", "reject", "undo", "undoAI", "graph",
               "recover", "open", "leave"} => NoAgent
  /\ kind \in {"start", "undo", "undoAI", "graph", "recover", "open",
               "leave", "edit", "ready"} => NoProposal
  /\ kind \in {"graph", "open", "leave"} => ~memory.recovering
  /\ kind = "recover" => memory.recovering /\ stored.graph < MaxGraph
  /\ kind \in {"accept", "reject"} => Decides(entry)
  /\ kind = "accept" => memory.requests[entry.request] = "running"
  /\ kind = "stage" => Fitting(entry.request)
  /\ kind = "edit" => entry.base = Source(memory)
  /\ kind = "undo" => Len(memory.revs) > 1
  /\ kind = "undoAI" =>
       LET last == Head1(memory.revs) IN
       last.by # None /\ memory.requests[last.by] = "applied"
  /\ kind \in {"edit", "undo", "undoAI"} => Fresh # {}
  /\ kind = "graph" => memory.graph < MaxGraph

-----------------------------------------------------------------------------
(* The operations.  The running one keeps `before`, the fields             *)
(* captureMutationState copies, and `payload`, what it hands to the        *)
(* lifecycle service; an operation that compiles first has none yet.       *)

Turn(kind) == op = None /\ queue # <<>> /\ Head(queue).kind = kind
                /\ Permitted(Head(queue))

Running(entry, phase, payload) ==
  [kind |-> entry.kind, request |-> entry.request, phase |-> phase,
   before |-> memory, payload |-> payload]

\* A change made in memory first, then saved (mutateDurably).
Change(entry, next) ==
  /\ queue' = Tail(queue)
  /\ memory' = next
  /\ op' = Running(entry, "writing", Part(next))
  /\ UNCHANGED <<stored, call, aborted, doubt>>

Appended(part, id, by) ==
  [part EXCEPT !.revs = Append(@, [id |-> id, by |-> by])]

\* requestAIChange, first operation.
Start ==
  /\ Turn("start")
  /\ LET q == Head(queue).request IN
     /\ asked' = [asked EXCEPT ![q] = Source(memory)]
     /\ Change(Head(queue), [memory EXCEPT !.requests[q] = "running",
                                           !.active = q, !.same = TRUE])

\* acceptPendingAIProposal
Accept ==
  /\ Turn("accept")
  /\ LET p == memory.pending IN
     Change(Head(queue),
            [Appended(memory, p.candidate, p.request) EXCEPT
               !.pending = None, !.requests[p.request] = "applied"])
  /\ UNCHANGED asked

\* rejectPendingAIProposal
Reject ==
  /\ Turn("reject")
  /\ Change(Head(queue),
            [memory EXCEPT !.pending = None,
                           !.requests[memory.pending.request] = "cancelled"])
  /\ UNCHANGED asked

\* undoLastAppliedAIChange
UndoAI ==
  /\ Turn("undoAI")
  /\ \E id \in Fresh :
       Change(Head(queue),
              [Appended(memory, id, None) EXCEPT
                 !.requests[Head1(memory.revs).by] = "undone"])
  /\ UNCHANGED asked

\* The review thread operations, markReady, and the save that ends a failed
\* request (persistProjectStateSerialized): nothing modelled changes.
Save ==
  /\ Turn("review") \/ Turn("ready") \/ Turn("record")
  /\ Change(Head(queue), memory)
  /\ UNCHANGED asked

\* savePrototypeGraph: the memory follows once the record is written.
SaveGraph ==
  /\ Turn("graph")
  /\ queue' = Tail(queue)
  /\ op' = Running(Head(queue), "writing",
                   [Part(memory) EXCEPT !.graph = @ + 1])
  /\ UNCHANGED <<stored, memory, call, asked, aborted, doubt>>

\* recoverPrototypeGraphFromFixture: a fresh graph succeeds the stored one,
\* if what is stored can be set aside and read.
Recover ==
  /\ Turn("recover")
  /\ queue' = Tail(queue)
  /\ op' = Running(Head(queue), "writing",
                   [Part(memory) EXCEPT !.graph = stored.graph + 1])
  /\ UNCHANGED <<stored, memory, call, asked, aborted, doubt>>

\* retryPrototypeGraphHydration
Hydrate ==
  /\ Turn("hydrate")
  /\ queue' = Tail(queue)
  /\ memory' \in Hydrations(memory)
  /\ UNCHANGED <<stored, op, call, asked, aborted, doubt>>

\* A manual edit, its undo, and the staging of an agent's patch compile a
\* candidate before they write anything.
Compile ==
  /\ Turn("edit") \/ Turn("undo") \/ Turn("stage")
  /\ queue' = Tail(queue)
  /\ op' = Running(Head(queue), "compiling", None)
  /\ UNCHANGED <<stored, memory, call, asked, aborted, doubt>>

\* A slip: every running request is over.
AllRunning == {q \in Requests : stored.requests[q] = "running"}

\* hydrateProjectState: a request that was running when the old process
\* ended is over, unless its compiled proposal was saved.
Interrupted ==
  {q \in Requests : /\ stored.requests[q] = "running"
                    /\ stored.pending = None \/ stored.pending.request # q}

Hydrated ==
  [revs |-> stored.revs, pending |-> stored.pending, graph |-> stored.graph,
   recovering |-> FALSE,
   requests |-> [q \in Requests |-> IF q \in Interrupted THEN "failed"
                                    ELSE stored.requests[q]],
   active |-> None, same |-> FALSE, open |-> TRUE]

\* openProjectWorkspace: the workspace read before the call was queued must
\* still be the stored one.  Interrupted requests are saved at once, and so
\* are scenarios the revision does not name yet.
Opens ==
  /\ Head(queue).base = Source(stored)
  /\ memory' \in Hydrations(Hydrated)
  /\ \/ Interrupted = {} /\ op' = op /\ doubt' = FALSE
     \/ /\ op' = Running(Head(queue), "writing", Part(memory'))
        /\ UNCHANGED doubt

\* The designer state cannot be read, or belongs to another workspace; what
\* was open stays open.
NotOpened == UNCHANGED <<memory, op, doubt>>

Open ==
  /\ Turn("open")
  /\ queue' = Tail(queue)
  /\ Opens \/ NotOpened
  /\ UNCHANGED <<stored, call, asked, aborted>>

\* openProjectWorkspace for another project.
Leaves == memory' \in Hydrations(Closed) /\ op' = op /\ doubt' = FALSE

Leave ==
  /\ Turn("leave")
  /\ queue' = Tail(queue)
  /\ Leaves \/ NotOpened
  /\ UNCHANGED <<stored, call, asked, aborted>>

\* Whose promise an operation that is refused rejects.
Rejected(entry) ==
  CASE entry.kind = "start" -> [call EXCEPT ![entry.request] = "ended"]
    [] entry.kind = "stage" -> [call EXCEPT ![entry.request] = "failing"]
    [] OTHER -> call

\* An operation that is refused, or throws before it changed anything.
Refuse ==
  /\ op = None /\ queue # <<>> /\ ~Permitted(Head(queue))
  /\ queue' = Tail(queue)
  /\ call' = Rejected(Head(queue))
  /\ UNCHANGED <<stored, memory, op, asked, aborted, doubt>>

-----------------------------------------------------------------------------
(* The candidate is compiled, or is not.  A cancellation may have arrived  *)
(* while a proposal compiled; nothing but a crash ends the other two.      *)

Uncancelled(q) == q \notin aborted

CompileFails ==
  /\ op # None /\ op.phase = "compiling"
  /\ op' = None
  /\ memory' = IF op.kind = "edit" THEN memory ELSE op.before
  /\ call' = IF op.kind = "stage"
             THEN [call EXCEPT ![op.request] = "failing"] ELSE call
  /\ UNCHANGED <<stored, queue, asked, aborted, doubt>>

StageProposal ==
  /\ op # None /\ op.phase = "compiling" /\ op.kind = "stage"
  /\ Uncancelled(op.request)
  /\ \E id \in Fresh :
       LET next == [memory EXCEPT !.pending =
                      [request |-> op.request, base |-> Source(memory),
                       candidate |-> id, asked |-> asked[op.request]]]
       IN  /\ memory' = next
           /\ op' = [op EXCEPT !.phase = "writing", !.payload = Part(next)]
  /\ UNCHANGED <<stored, queue, call, asked, aborted, doubt>>

\* The manual edit's commit port, and restoreManualDesignHistory.
CommitCandidate ==
  /\ op # None /\ op.phase = "compiling" /\ op.kind \in {"edit", "undo"}
  /\ \E id \in Fresh :
       op' = [op EXCEPT !.phase = "writing",
                        !.payload = Appended(Part(memory), id, None)]
  /\ UNCHANGED <<stored, memory, queue, call, asked, aborted, doubt>>

-----------------------------------------------------------------------------
(* The lifecycle service and its file.                                     *)

Advances(kind) == kind \in {"accept", "undoAI", "edit", "undo"}

\* validateDesignerStateCurrent: the proposal is based on the revision.
FitsProposal(p) == p.pending # None => p.pending.base = Source(p)

\* A slip: only the identifier has to be new.
NewIdentifier(p) ==
  \A i \in DOMAIN stored.revs : stored.revs[i].id # Source(p)

\* commitDesignerRevision: a new child of the stored revision.
Succeeds(p) ==
  /\ Len(p.revs) > 1
  /\ p.revs[Len(p.revs) - 1].id = Source(stored)
  /\ NewIdentifier(p)

\* validateDesignerStateGraphFence: a save brings the stored graph along;
\* commitPrototypeGraph makes its successor.
FitsGraph(p) ==
  p.graph = stored.graph + (IF op.kind \in {"graph", "recover"} THEN 1 ELSE 0)

\* saveDesignerState, commitDesignerRevision, commitPrototypeGraph
Valid ==
  LET p == op.payload IN
  /\ FitsProposal(p) /\ FitsGraph(p)
  /\ IF Advances(op.kind) THEN Succeeds(p) ELSE Source(p) = Source(stored)

Writing == op # None /\ op.phase = "writing"

\* The call has ended: its request's finally block, where it is one.
Finished(m, q) == IF q = None THEN m ELSE [m EXCEPT !.active = None]

\* The write is durable and the operation returns; the operations that
\* write first now bring the memory up to date.
Saved ==
  /\ Writing /\ Valid
  /\ stored' = op.payload
  /\ op' = None
  /\ LET adopted == CASE op.kind \in {"edit", "undo"} ->
                           [memory EXCEPT !.revs = op.payload.revs]
                      [] op.kind \in {"graph", "recover"} ->
                           [memory EXCEPT !.graph = op.payload.graph,
                                          !.recovering = FALSE]
                      [] OTHER -> memory
     IN  memory' = Finished(adopted, IF op.kind \in {"stage", "record"}
                                     THEN op.request ELSE None)
  /\ call' = CASE op.kind = "start" ->
                    [call EXCEPT ![op.request] = "answering"]
               [] op.kind \in {"stage", "record"} ->
                    [call EXCEPT ![op.request] = "ended"]
               [] OTHER -> call
  /\ doubt' = (doubt /\ op.kind # "open")
  /\ UNCHANGED <<queue, asked, aborted>>

\* A slip: the pending proposal is not among the captured fields.
WithoutProposal ==
  IF op.kind \in {"edit", "graph", "recover", "record"} THEN memory
  ELSE [op.before EXCEPT !.pending = memory.pending]

\* restoreMutationState, and the catch block of openProjectWorkspace.
RolledBack ==
  IF op.kind \in {"edit", "graph", "recover", "record"} THEN memory
  ELSE op.before

\* The write is refused, or fails before or after its rename.
SaveFails ==
  /\ Writing
  /\ \/ UNCHANGED <<stored, doubt>>
     \/ Valid /\ stored' = op.payload /\ doubt' = TRUE
  /\ op' = None
  /\ memory' = Finished(RolledBack, IF op.kind = "record" THEN op.request
                                    ELSE None)
  /\ call' = CASE op.kind \in {"start", "record"} ->
                    [call EXCEPT ![op.request] = "ended"]
               [] op.kind = "stage" -> [call EXCEPT ![op.request] = "failing"]
               [] OTHER -> call
  /\ UNCHANGED <<queue, asked, aborted>>

-----------------------------------------------------------------------------
(* The agent, outside the queue.                                           *)

\* The adapter proposes a patch for a request that is still wanted.
AgentAnswers(q) ==
  /\ call[q] = "answering" /\ Fitting(q)
  /\ call' = [call EXCEPT ![q] = "answered"]
  /\ Enqueue(Entry("stage", q, 0))
  /\ UNCHANGED <<stored, memory, op, asked, aborted, doubt>>

\* A slip: an agent whose request was cancelled is waited for.
LeftWaiting(q) ==
  /\ call[q] = "answering" /\ q \notin aborted
  /\ call' = [call EXCEPT ![q] = "failing"]
  /\ UNCHANGED <<stored, memory, queue, op, asked, aborted, doubt>>

\* The adapter fails, or its answer comes too late.
AgentFails(q) ==
  /\ call[q] = "answering"
  /\ call' = [call EXCEPT ![q] = "failing"]
  /\ UNCHANGED <<stored, memory, queue, op, asked, aborted, doubt>>

\* requestAIChange, catch: the conversation is changed at once, the save is
\* queued behind whatever is running.
RecordFailure(q) ==
  /\ call[q] = "failing"
  /\ call' = [call EXCEPT ![q] = "recording"]
  /\ memory' = [memory EXCEPT !.requests[q] =
                  IF q \in aborted THEN "cancelled" ELSE "failed"]
  /\ Enqueue(Entry("record", q, 0))
  /\ UNCHANGED <<stored, op, asked, aborted, doubt>>

\* cancel: refused once the proposal is being saved.
Cancel(q) ==
  /\ memory.active = q /\ q \notin aborted
  /\ memory.pending # None => memory.pending.request # q
  /\ aborted' = aborted \cup {q}
  /\ UNCHANGED <<stored, memory, queue, op, call, asked, doubt>>

\* The process dies; a write under way is either not renamed or complete.
Crash ==
  /\ stored' \in IF Writing /\ Valid THEN {stored, op.payload} ELSE {stored}
  /\ memory' \in Hydrations(Closed)
  /\ queue' = <<>>
  /\ op' = None
  /\ call' = [q \in Requests |-> IF call[q] = "idle" THEN "idle" ELSE "ended"]
  /\ aborted' = {}
  /\ doubt' = FALSE
  /\ UNCHANGED asked

-----------------------------------------------------------------------------
Begin == Start \/ Accept \/ Reject \/ UndoAI \/ Save \/ SaveGraph \/ Recover
           \/ Hydrate \/ Compile \/ Open \/ Leave \/ Refuse
Proceed == CompileFails \/ StageProposal \/ CommitCandidate \/ Saved
             \/ SaveFails

Next ==
  \/ Ask \/ Begin \/ Proceed \/ Crash
  \/ \E q \in Requests : RequestAIChange(q) \/ AgentAnswers(q)
                           \/ AgentFails(q) \/ RecordFailure(q) \/ Cancel(q)

\* The event loop runs what is ready, a file operation and a compilation end,
\* and an adapter's answer is bounded by its own timeout.
Fairness ==
  /\ WF_vars(Begin) /\ WF_vars(Proceed)
  /\ \A q \in Requests : WF_vars(AgentAnswers(q) \/ AgentFails(q))
                           /\ WF_vars(RecordFailure(q))

Spec == Init /\ [][Next]_vars
FairSpec == Spec /\ Fairness

-----------------------------------------------------------------------------
(* What the project promises.                                              *)

(***************************************************************************)
(* No save, refused or failed save, crash or reopened project ever drops   *)
(* or rewrites a revision of the record on disk, or takes its flow graph   *)
(* back: a service whose memory is behind the file (a save failed after    *)
(* its rename), or that shows a fresh graph since the stored one could not *)
(* be read, cannot commit over it (commitDesignerRevision,                 *)
(* validateDesignerStateGraphFence).                                       *)
(***************************************************************************)
HistoryOnlyGrows ==
  [][/\ Len(stored.revs) <= Len(stored'.revs)
     /\ \A i \in DOMAIN stored.revs : stored.revs[i] = stored'.revs[i]
     /\ stored.graph <= stored'.graph]_vars

(***************************************************************************)
(* Between operations the memory holds the history and the proposal that   *)
(* are on disk, and the flow graph unless the session says that it has to  *)
(* be recovered, whatever was refused, failed or rolled back, as long as   *)
(* no save failed after its rename (mutateDurably, restoreMutationState,   *)
(* hydratePrototypeGraphUnlocked, the adoption after a commit).            *)
(***************************************************************************)
AgreesWithStore ==
  memory.open /\ op = None /\ ~doubt =>
    /\ memory.revs = stored.revs
    /\ memory.pending = stored.pending
    /\ ~memory.recovering => memory.graph = stored.graph

(***************************************************************************)
(* A proposal on screen can be accepted: its request is still running in   *)
(* the conversation, also when the proposal was saved by a process that    *)
(* then died (hydrateProjectState), and it is based on the open revision,  *)
(* the one the agent was shown though manual edits go on while it works.   *)
(* Until the project is opened again, it is never the answer to a request  *)
(* that was cancelled (requestAIChange, cancel).                           *)
(***************************************************************************)
ProposalIsAcceptable ==
  memory.open /\ memory.pending # None =>
    LET p == memory.pending IN
    /\ memory.requests[p.request] = "running"
    /\ p.base = Source(memory) /\ p.base = p.asked
    /\ memory.same => p.request \notin aborted

(***************************************************************************)
(* What the session shows is what is stored, and can be decided upon       *)
(* (mutateDurably, requestAIChange, hydrateProjectState).                  *)
(***************************************************************************)
SessionIsSound == AgreesWithStore /\ ProposalIsAcceptable

\* An operation of a request waits in the queue or runs.
Carried(kind, q) ==
  \/ \E i \in DOMAIN queue : queue[i].kind = kind /\ queue[i].request = q
  \/ op # None /\ op.kind = kind /\ op.request = q

(***************************************************************************)
(* No requestAIChange call is forgotten between its queued operations, and *)
(* none that has ended leaves its request active, which would refuse every *)
(* other operation for good (graphOperation, requestAIChange: finally).    *)
(***************************************************************************)
CallsGoOn ==
  \A q \in Requests :
    /\ call[q] = "starting"  => Carried("start", q)
    /\ call[q] = "answered"  => Carried("stage", q)
    /\ call[q] = "recording" => Carried("record", q)
    /\ memory.active = q => call[q] \notin {"idle", "ended"}

(***************************************************************************)
(* Every requestAIChange call ends, whatever fails on the way.             *)
(***************************************************************************)
RequestsEnd == \A q \in Requests : call[q] = "starting" ~> call[q] = "ended"

(***************************************************************************)
(* What the code says of a request and does not keep: "records its         *)
(* complete lifecycle".  When another operation's save fails while the     *)
(* catch block has just marked the request, the rollback brings the        *)
(* running state back for good.                                            *)
(***************************************************************************)
EndedRequestsAreSettled ==
  memory.open =>
    \A q \in Requests :
      call[q] = "ended" /\ memory.requests[q] = "running" =>
        memory.pending # None /\ memory.pending.request = q
=============================================================================
