# Selene: verification development

Selene is a design tool: designers work on generated React prototypes in a
desktop application, a collaboration service keeps the shared history, and
external providers (identity, agents, databases) are called through
supervised ports. This directory holds TLA+ models of the parts whose
correctness depends on the order of events, the TLC configurations that check
them, and proofs for TLAPS. File and line references in this text are to the
repository.

## 1. The system

### Components with state, and how they interact

| Component | State | Operations | Talks to |
|---|---|---|---|
| Host effect supervisor, `packages/host-runtime` | admission pool: reservations, owners, generations, quarantine, idle epochs; per call: deadline timer, abort listener, answer | `run`, `recoverOwner`, `whenOwnerIdle` | every provider port: OIDC, the PostgreSQL repository, agents |
| Design revisions and review state, `packages/collaboration` (in memory) and `apps/collaboration-service` (PostgreSQL) | revisions with a sequence, design review state, baselines, semantic changes, idempotency keys | `appendRevision`, `commitDesignRevision`, `replaceProject`, `deleteProject` | the service's handlers |
| Event stream, `service.ts` | durable events with cursors, subscribers, a stream's page, pending wake-ups and cursors | `emit`, `GET /events`, `GET /events/stream` | repository, HTTP clients |
| Collaboration HTTP service, `service.ts` | none of its own but in-flight idempotent runs | the writing requests | repository through the supervisor; event stream |
| Review threads and AI change requests, `packages/collaboration` | threads with version and receipts; request lifecycle | `mutateReviewThread`, the direct updates, `createAIChangeRequest`, `updateAIChangeRequest` | service; agents |
| Sign-in, `packages/identity-runtime`, `oidc-bff.ts`, `postgres-bff-store.ts` | one-shot transactions, sessions, access bindings | `begin`, `complete`, `authenticate`, `bindSessionAccess`, `revokeSession`, `logout` | supervisor, store, identity provider |
| Enterprise security, `packages/core` | policy and entitlement high-water marks, SIEM outbox with leases | `activateSignedPolicy`, `evaluateExternalAccess`, `revoke`, `enqueue`, `claim`, `ack`, `nack`, `deadLetter` | stores, verifiers, the receiver of events |
| Agent protocol and host, `packages/agent-sdk`, `agent-host.ts` | session: active, cancelling and retired requests; child process, timers | `request`, `cancel`, `stop`, incoming frames | child process by JSON lines |
| Preview pipeline, `apps/desktop/src/main` and the renderer | one-shot leases, shared compilations and their cache, one pending presentation | `reserve`, `claim`, `build`, `clear`, `present`, `ready`, `rendered` | compiler, IPC, iframe |
| Story previews, `story-preview-authority.ts` | capabilities for stories of a catalog build | `issue`, `build`, `revoke`, `clear` | compiler, renderer |
| Designer service, `designer-service.ts` | the open project: revisions, proposal, conversation, flow graph, publish consent; a queue of operations | AI requests, decisions, undo, graph saves, hydration, publication | agent host, lifecycle service, GitHub |
| Manual edits, `designer-service.ts`, `manual-react-edit-transaction.ts` | capabilities, edit authority, journal | the ten edit operations, undo, redo | compiler, lifecycle service |
| Project lifecycle, `project-lifecycle.ts` | one file per project with versions and autosave, locks, quarantine | `openRecord`, `commit…`, `autosave`, `importRecord`, `duplicate`, … | file system |
| GitHub publication, `github-publish.ts` | none of its own; branches, commits and pull requests at GitHub | `publish` | GitHub |
| Crash diagnostics, `crash-diagnostics.ts` | queued events, consent, delivery record, three private files | `capture`, `grant`, `deny`, `delete`, `report` | file system, reporting sink |
| Pure parts: design documents, prototype graph, federation, bindings, handoff, extension ordering | none | validation, diff, resolution | everything |
| Shells: Electron, renderer, web application, component library, scripts | presentation | - | - |

`PROJECT.json` lists each of them with its files, and says of the parts that
have no module why.

### What is hard

* **Concurrency without threads.** The service and the desktop are single
  JavaScript threads, so trouble sits at every `await` and every callback:
  what was read before may be stale after. Callbacks re-enter (an abort
  subscriber may call `run` again). The service also runs in several
  processes against one PostgreSQL at READ COMMITTED, where each statement
  has its own view.
* **Failure.** A host operation may be abandoned at its deadline or when the
  client leaves, while the database call goes on and takes effect later. A
  process may stop between two calls. A file save is a rename followed by a
  synchronisation of its directory, so it may fail and have happened.
  Transactions are lost, rolled back, or chosen as deadlock victims.
* **Delivery.** Clients repeat requests under idempotency keys; events are
  replayed from a cursor, streams are cut and resumed; a call to GitHub, a
  sink or a receiver may have taken effect although it failed.
* **Ordering.** Cursors are assigned before their rows are visible; timers
  race late answers; cancellation races completion.
* **Limits.** Admission limits, stream queues, receipt lists, capability
  lists, journals and caches are bounded.

### What makes each component correct

* Supervisor: reservations are returned exactly once; limits hold also for
  effects nobody waits for any more; a quarantined owner starts nothing; a
  caller gets one answer, and by its deadline; whoever waits for idleness is
  woken exactly when the owner has drained.
* Revisions: one linear history per project; an append names the latest
  revision as its parent; the recorded changes lead to it; a retry is
  answered with the first response; both repositories implement the same
  atomic history.
* Events: received in order, once, with no event jumped over; a stream that
  was woken delivers; the pump comes to rest.
* Service writes: a retried command takes effect once; all successful
  answers to one key agree; success means stored, audited and evented.
* Threads and requests: no author's change is overwritten by another's, a
  receipt is honoured only while it still holds, a request stays on its path.
* Sign-in: a session serves one access, a transaction one exchange.
* Security: a mark never falls and a revocation is not undone; an event
  leaves the outbox delivered, or dead after its attempts.
* Agent: a cancelled request never completes, every request ends.
* Previews: what is shown is the newest refresh, nothing is built after its
  lease or capability has gone, a shared build survives its callers.
* Designer: memory and file agree, a proposal on screen can be accepted,
  history only grows, every request ends and is settled.
* Edits: a capability edits once, and answers agree with the source.
* Projects: every change is made from what is stored when it commits.
* Publication: what is published is what was consented to and reported.
* Diagnostics: erased is erased, delivered is not sent again, nothing is
  sent without consent.

## 2. Modules

| Module | Models | Composition |
|---|---|---|
| `EffectAdmission` | what the supervisor promises: admission, reservation, abandonment, quarantine, recovery | abstract specification |
| `HostEffects` | `packages/host-runtime/src/index.ts` | implements `EffectAdmission` |
| `HostEffectsProofs` | proofs | extends `HostEffects` |
| `DesignReviewProofs` | lemmas about the shared operators | extends `DesignReview` |
| `DesignReview` | review state, commands, snapshots: operators both repositories share | - |
| `RevisionHistory` | the atomic history a repository promises | extends `DesignReview` |
| `MemoryRevisions` | `createInMemoryCollaborationRepository` | implements `RevisionHistory` |
| `MemoryProofs` | proofs | extends `MemoryRevisions`, `DesignReviewProofs` |
| `PostgresRevisions` | `postgres-repository.ts`, statement by statement | implements `RevisionHistory` |
| `PostgresProofs` | proofs | extends `PostgresRevisions`, `DesignReviewProofs` |
| `EventStream` | `emit` and `GET /events/stream` with its reader | in `CollaborationMC`, `ProgressMC` |
| `ServiceWrites` | the writing requests and their retries over an atomic repository | in `DesktopMC` |
| `ServiceWritesProofs` | proofs | extends `ServiceWrites` |
| `ReviewThreads` | threads in both repositories with their handlers | in `CollaborationMC` |
| `ChangeRequests` | AI change requests in both repositories | in `CollaborationMC` |
| `SignIn` | OIDC sign-in and authenticated requests | in `CollaborationMC` |
| `AccessDecisions` | policies and entitlements with high-water marks | in `CollaborationMC` |
| `SiemOutbox` | the outbox of security events and its batches | in `CollaborationMC` |
| `AgentHost` | `ElectronAgentHost` with `AgentProtocolSession` | in `DesktopMC`, `ProgressMC` |
| `PreviewBuilds` | `BoundPreviewBuildCoordinator` | in `DesktopMC` |
| `PreviewRefresh` | leases, refreshes and the presentation | in `DesktopMC`, `ProgressMC` |
| `StoryPreviews` | `StoryPreviewAuthority` | in `DesktopMC` |
| `DesignerProject` | one project in the designer service and its file | in `DesktopMC`, `ProgressMC` |
| `ManualEdits` | the direct edits with their capabilities and journal | in `DesktopMC` |
| `LocalProjects` | `LocalProjectLifecycleService` over its file storage | in `DesktopMC` |
| `Publishing` | publish consent and `GitHubPublishAdapter.publish` | in `DesktopMC` |
| `CrashDiagnostics` | events, consent and delivery | in `DesktopMC` |
| `CollaborationProofs` | proofs about review threads, change requests, the event stream, sign-in, access decisions and the outbox | extends `CollaborationMC` |
| `DesktopProofs` | proofs about publication, diagnostics and the edits on the canvas | extends `DesktopMC` |
| `ProjectProofs` | proofs about previews, the designer's project, local projects, the agent host and the parts side by side | extends `DesktopMC` |

`HostEffectsMC`, `MemoryRevisionsMC`, `PostgresRevisionsMC`, `EventStreamMC`
and `ServiceWritesMC` add symmetry sets and finite snapshot sets.

`CollaborationMC`, `DesktopMC` and `ProgressMC` put modules *side by side*: the
variable `part` is chosen at the start, the behaviour follows that module's
next-state relation, and the other modules' variables stay as they begin. The
modules in one such run do not share state; what they exchange with others is
in each of them as an environment that may do whatever the other side can do
(an agent may send any frame, a caller may withdraw at any time). So the state
spaces add up, one run answers the questions of several components, and a
counterexample is one module's own behaviour. To keep the initial states few,
a module's choice at the start (whether a project exists, which repository is
used) is fixed while another part is followed.

### HostEffects

State: the pool (`active`, `nextGeneration`, `owner`, `lastNow`), and for each
call of `run` how far it is (`phase`), its snapshot (`request`), the
abandonment noted during initialization (`pending`), what its context shows
(`reason`), its answer (`outcome`), its abort signal, listener and timer.
`stack` holds the supervisor's frames that wait for a callee: a step is one
uninterrupted stretch of code, and while a callee runs it may call `run`
again, abort a signal or settle something. `watch` is the idle epoch each
`whenOwnerIdle` promise belongs to. Option validation is one refusal. Two
callees (the clock, the removal of a timer or a listener) are taken not to
call back.

### DesignReview, RevisionHistory, MemoryRevisions, PostgresRevisions

A design document is abstracted to its revision's name; a review state to its
lifecycle, baseline and list of changes (before, current); a command to its
kind, parent, baseline and change. Both repositories refuse a snapshot that
lists a semantic change twice (`ListedOnce`: the in-memory repository's
`nextChanges.has`, PostgreSQL's primary key). `RevisionHistory` has one action
per repository method, atomic. `MemoryRevisions` splits `appendRevision` and
`commitDesignRevision` at their `await`: `call` keeps what was read before.
The variable `awaited` is chosen at the start and separates the
behaviours in which every caller awaits its call before the next one, for
which the refinement is claimed, and those in which calls overlap.
`PostgresRevisions` has an action per statement (or per group that neither
waits nor can be observed): row locks, KEY SHARE locks, the advisory lock of
a key, READ COMMITTED views, unique violations, deadlock victims, and
transactions that are lost at any point. PostgreSQL itself is external and
modelled by what it does for these statements.

### EventStream

`emit`, `cursorOf` and `cursors` are the writing side; `reserved`, chosen at
the start, says whether a cursor is assigned before its row is visible
(PostgreSQL's identity column) or with it (the in-memory repository). `stream`
is the closure of one `GET /events/stream`: `last`, `replay`, `replaying`,
`page`, `pending`, `required`. `phase` is what `pump` is at. `sent` and
`received` are the connection and the reader, which resumes with the last
cursor it received.

### ServiceWrites

A handler is the sequence of its repository calls (`RepositoryCalls`), a call
is atomic, and any request may run between two of them. `attempt` is each
request's progress; `Abandon` is a deadline, a lost client or a crash, after
which a mutation under way may still take effect. `responses`, `applied`,
`audited`, `events` say whose work is stored.

### ReviewThreads, ChangeRequests

One variable, `repository`, picks memory, where a method is one step, or
PostgreSQL, where `mutateReviewThread` takes its locks one by one and the
direct updates read, then write if the version is still the one read. `call`
is each HTTP request; `receipts`, `applied`, `ever`, `base` and `crossed` say
what was remembered and what took effect. A change request is its lifecycle,
its update stamp and its result; the handler's read and the repository's
compare-and-update are separate steps.

### SignIn, AccessDecisions, SiemOutbox

In `SignIn` every store call is one step of a request (`request[r].step`), and
a failed call may take effect later (`late`). A session is named after the
callback that made it. In `AccessDecisions` a document is its revision and its
digest; a call reads a mark and replaces it by a compare-and-set, up to three
times; signatures, times and scopes are a choice to deny. In `SiemOutbox` a
batch keeps the time it began at, its claims and its workers; deliveries hang,
fail, or fail after the receiver has the event.

### The desktop

* `AgentHost`: an action is one callback: a timer, an abort, a frame, an exit.
  The process may send any frame, also after it was killed.
* `PreviewBuilds`: `flight` is a compilation, `inFlight` the one a new caller
  joins; every step is what runs between two awaits.
* `PreviewRefresh`: `wire` is where a refresh waits for the host; `toHost` and
  `toRenderer` are the messages, in order and late; `frame` is what the
  iframe holds, `shown` the canonical preview.
* `StoryPreviews`: a capability is its number; catalog changes, trimming and
  revocation happen while a build runs.
* `DesignerProject`: the operation queue (`queue`, `op`), the memory and the
  file. A save fails before its rename ("lost") or after it ("unsure"), a
  crash keeps the file only. `doubt` marks a session with an unsure save.
  A flow graph that cannot be read does not keep the project from opening:
  the memory then has a fresh graph, revision 0, and is `recovering` until
  the graph is read again (`Hydrate`) or given up for a fresh one (`Recover`).
* `ManualEdits`: the ten pairs of operations follow four patterns (content
  or none; used before or after the edit); `grant` holds the capabilities.
* `LocalProjects`: calls with their project's lock, the product map's lock and
  the quarantine; a record may be of the old format or unreadable.
* `Publishing`: a publish attempt, remote call by remote call, while others
  push, merge and close.
* `CrashDiagnostics`: the operation queue, the memory and three files; a
  refusal acts on the memory at once, the sink is called outside the queue.

## 3. Runs

Twelve runs, one for each group of questions. All bounds are in the cfg files.

| Run | cfg | What it shows |
|---|---|---|
| `host_effects` | `HostEffects.cfg` | abandonment, quarantine, recovery and idle epochs in every order, nested calls included (`OldEffectsContained`, `WokenWhenDrained`); each step is one of `EffectAdmission`'s, so that limits hold, abandoned effects included, and reservations are neither lost nor returned twice (`ImplementsAdmission`); nobody is left to the effect alone (`AnswerIsDue`) |
| `memory_revisions_calls` | `MemoryRevisionsCalls.cfg` | callers who await each call see the atomic history (`ImplementsHistory`); with overlapping calls no change is recorded twice (`ChangesRecordedOnce`) |
| `postgres_revisions_service` | `PostgresRevisionsService.cfg` | the calls the service makes implement the atomic history (`ImplementsHistory`), changes lead to the latest revision (`ChangesLeadToLatest`), an overlapping retry is answered from the store (`RetriesReplay`) |
| `postgres_revisions_append` | `PostgresRevisionsAppend.cfg` | `appendRevision`, which does not lock the project, still appends at the latest revision (`AppendsAtLatest`); under fairness every call ends although lock orders differ (`CallsEnd`) |
| `collaboration` | `Collaboration.cfg` | threads (`ChangesKept`, `ReplayHolds`), change requests (`RequestsFollowTheirPath`), what a stream's reader gets (`ReaderFollowsHistory`) and that nothing it is told of leaves the stream asleep (`NoWakeUpLost`), sign-in (`SessionsKeepTheirAccess`), access decisions (`RevocationsHold`), the outbox (`EventsAreSettledOnce`) |
| `desktop` | `Desktop.cfg` | builds and refreshes (`SharedBuildSurvives`, `NewestIsShown`, `NoBuildAfterClose`, `ShownIsWanted`), the agent (`CancelledNeverCompletes`), the designer (`HistoryOnlyGrows`, `SessionIsSound`, `EditsTakeEffectOnce`), that nobody in these waits in vain (`NobodyWaitsInVain`), projects (`ChangesBuildOnTheLatest`), diagnostics (`ErasuresLast`, `DeliveredOnce`), publication (`ConsentCoversPublish`, `ReceiptIsTrue`), and the service's writes as a client retries them (`AppliedOnce`, `ResponseStands`) |
| `progress` | `Progress.cfg` | under fairness: a caller with a deadline is answered though its effect hangs (`DeadlineAnswered`), told events arrive (`ToldReceived`), refreshes, agent requests and designer requests end (`RefreshesEnd`, `RequestsSettle`, `RequestsEnd`) |
| `service_writes_silent` | `ServiceWritesSilent.cfg` | finding: a mutation answered with success has no event (`SuccessMeansEvent`) |
| `event_stream_spins` | `EventStreamSpins.cfg` | finding: the pump replays for ever (`PumpRests`) |
| `import_erases` | `LocalProjectsImport.cfg` | finding: a rejected import has changed the library (`RejectedImportsChangeNothing`) |
| `designer_settled` | `DesignerProjectSettled.cfg` | finding: a request ends and stays unsettled (`EndedRequestsAreSettled`) |
| `crash_withdrawn` | `CrashDiagnosticsWithdrawn.cfg` | finding: an event goes out after consent was withdrawn (`WithdrawnEventsNotSent`) |

### Bounds and why they are enough

* Supervisor: three calls on two owners of which two may run beside each
  other, and one observer: the process limit is reached with a call to spare,
  an owner may have two effects, one abandoned and one settled, and two
  epochs. `MaxTime` 1 gives a deadline that lies ahead, one that has passed,
  and a clock that runs back. The owner's own limit is not reached before the
  process's; `LimitsAreRespected` is proved for all limits.
* In-memory repository: two calls are the smallest number that overlap, two
  projects the smallest for which replacing one could take the other's
  changes. Histories of two revisions, one baseline, one change.
* PostgreSQL: two transactions give every pairwise lock conflict and cycle of
  the methods' lock orders; three revision identifiers are one more than two
  transactions can insert. A cycle of three transactions would need three
  different orders of project and revision locks; the methods have two.
* Threads: one thread, two operations and three calls, so that an operation
  is retried while another's change lies between; one receipt is kept, so
  that the second change prunes the first. Events: three emits, two to a page
  (a full page followed by a last one), two pending wake-ups (so that the
  third overflows), one cut.
* Sign-in: three requests (two to sign in with one transaction and one to use
  the session) and three versions of the membership. Access: three decisions
  over two revisions and two digests of each, with the code's two retries.
  Outbox: two events, three batches, two tries, one worker, leases of two
  units on a clock of three, so that a lease expires within a batch.
* Desktop: three callers of builds (two share one, the third joins late), two
  refreshes, two agent requests, one designer request over revisions up to
  three and two saves of the flow graph (so that one that was saved can be
  given up), one report and two events, two publications over two contents, two
  stories with three capabilities issued under a limit of two (so that one is
  trimmed), two edit capabilities, four revisions (an edit, its undo, its
  redo), two mints and a journal of two, two calls on two projects with two
  versions kept and one quarantined file. Service writes: two keys and three
  attempts in two processes. `Assigned` fixes which attempt has which key and
  one of their processes; every other assignment is one of these with the
  names exchanged, or a weaker one.
* One edit capability is asked for all ten kinds, the other for one that is
  used before its edit and carries a content, and one that carries none; two
  that are both used after their edit meet only in undo and redo, which do
  not look at the pattern.
* Progress: two effects of one owner, which may run beside each other, and one
  save of the flow graph; the other parts as above.

Symmetry is used over calls and operations in `collaboration`, over calls and
owners in the supervisor's safety run, and nowhere in a run with liveness.

### Deadlock checking

Every run says `CHECK_DEADLOCK FALSE`: calls, transactions, emits and requests
are finite in number, and when all of them have been made and have ended the
system has nothing left to do. That nobody waits for ever is what the liveness
properties are for, and, of every state without fairness, the invariants that
say what a waiting party waits for: `AnswerIsDue`, `NoWakeUpLost`,
`NobodyWaitsInVain`.

### Fairness

* `HostEffects!FairSpec`: the innermost callee returns (a JavaScript call that
  does not return stops the process) and an armed timer fires. An effect's
  promise may stay unsettled for ever.
* `PostgresRevisions!FairSpec`: the database executes each statement that can
  be executed and breaks each cycle of waits (`deadlock_timeout`).
* `EventStream!FairSpec`: the event loop runs what is due, the repository
  answers, the reader keeps reading and reconnects (as `EventSource` does).
  Nothing makes anyone emit. The number of cuts is bounded, and a cut is never
  forced.
* `PreviewRefresh!FairSpec`: an armed deadline fires, a failed presentation is
  reported and the host accepts what it was sent. The iframe may stay silent.
* `AgentHost!FairSpec`: the timers for the handshake, a request and the grace
  period fire. The child process may stay silent for ever.
* `DesignerProject!FairSpec`: the queue goes on to its next operation, an
  operation goes on to its next step, the agent host answers or fails (which
  `AgentHost` shows), and a failure is recorded. A save may fail every time.

`ProgressMC` states the same conditions of the parts it puts side by side. All
are weak: none of these steps is disabled again and again by others
forever.

## 4. Proofs

Every theorem is of the specification a run checks, without fairness, and for
every value of the constants that meets the named assumptions (the runs
evaluate these on their instance). Each safety theorem follows from an
inductive invariant; the invariants were model-checked before they were proved.
The variables of the abstracted data (documents, payloads) stay what the models
say they are: names.

Two runs move several modules side by side. `PartsFollow`, in
`CollaborationProofs` and in `ProjectProofs`, proves that the specification of
such a run implements that of every module in it, so that the theorems about
the modules are about what the runs check.

Of waiting, the provers can show what holds in every state. So each part that the
run `progress` follows has an invariant that says what those who wait are waiting
for: a timer that is armed, a call on its way, an operation in the queue. The
theorems about these (`AnswersAreDue`, `NoWakeUpIsLost`, `WaitsAreNotInVain`) are
for every value of the constants; that what is due does come is fairness, and
stays with the runs.

### The effect supervisor

`HostEffectsProofs` holds for any set of owners and observers, any finite set
of calls, and any positive limits (`LimitsAssumption`, `CallsAssumption`,
`TimeAssumption`).

| Theorem | Statement |
|---|---|
| `TypeCorrect` | `Spec => []TypeOK` |
| `ReservationsBalanced` | `Spec => []ReservationsAccounted` |
| `LimitsAreRespected` | `Spec => []LimitsRespected` |
| `OldEffectsAreContained` | `Spec => []OldEffectsContained` |
| `WokenExactlyWhenDrained` | `Spec => []WokenWhenDrained` |
| `AnswersAreDue` | `Spec => []AnswerIsDue` |
| `AdmissionImplemented` | `Spec => ImplementsAdmission` |

*Argument.* `ReservationsAccounted` compares counters with the cardinality of
the set of reserved calls. It is not inductive: a frame on the stack may still
end its call, and whether that returns a reservation depends on what the frames
below it have seen. `CallsInv` adds what is missing: types, that a call which
has ended has been answered and one that has not begun has not
(`OutcomeMatchesPhase`), that a frame in the middle of a notification belongs to
an effect that was started (`FramesStarted`), and that a reserved call holds
the reservation of an owner the pool knows (`OwnersKnown`). `NextCalls` has a
step for each action. Every action either reserves (`ReserveAccounts`), ends a
reservation (`FinishAccounts`), or leaves the reserved set alone
(`SameAccounts`). The refinement follows from `CallsInv` with one lemma per
abstract action (`SeenAdmit`, `SeenTurnAway`, `SeenEnd`, `SeenQuarantine`,
`SeenRecover`, `SeenNothing`). `LimitsRespected` is proved beside `CallsInv`:
only admission adds to the reserved set, and its guard counts what
`ReservationsAccounted` says it counts. `OldEffectsContained` joins
`GenerationStable` and `AbandonedMeansQuarantined`: recovery is the only step
that lifts a quarantine or opens a generation, and it needs a counter of zero,
which by `CallsInv` means that no effect is left. An
observer is woken with its epoch: `WatchInv` adds that an epoch is handed out
only while its owner has reservations (`EpochsHanded`), so that no observer
waits for one that has passed. `AnswerIsDue` needs `HeardInv`: a call being set
up has its frame, and once its listener is attached an abort that came before
has been noted (`SetupIsHeard`); a started effect whose caller waits is being
cancelled by a frame of its own, or nothing has happened to it and its listener
and its timer are there (`WaitIsHeard`).

### Writing requests and retries

`ServiceWritesProofs` holds for any keys, attempts and processes, finitely many
or not, and any choice of the kinds of operation in use (`NamesAssumption`,
`UsedAssumption`).

| Theorem | Statement |
|---|---|
| `InvAlways` | `Spec => []Inv` |
| `TypeCorrect` | `Spec => []TypeOK` |
| `AppliedOnceAlways` | `Spec => []AppliedOnce` |
| `AnswersAgreeAlways` | `Spec => []AnswersAgree` |
| `ResponsesStand` | `Spec => []ResponseStands` |
| `SuccessMeansAppliedAlways` | `Spec => []SuccessMeansApplied` |
| `ResponseMeansEventAlways` | `Spec => []ResponseMeansEvent` |
| `RetryNotRefusedAlways` | `Spec => []RetryNotRefused` |

*Argument.* None of the properties is inductive: that a response has its event
depends on where the request that stores it is in its handler. `Inv` adds that:
a request past a call has done what the call does (`Progress`, with the places
of the calls from `CallPlaces`), a stored response belongs to an applied attempt
with that key (`StoredIsApplied`), a design command that was applied is the
stored one (`AppliedIsStored`), every success is the stored response
(`AnsweredFromStore`), and a retry that finds a response makes no call but the
first (`StoredEndsAtOnce`). `Moved` and `StoreKept` say once what any repository
call can do to the requests and to the store; `StepKeeps` shows that such a step
keeps `Inv`, and each action has a lemma that shows it is one. `Start`, which
makes no call, is proved directly (`StartKeeps`).

### Design revisions in memory

`MemoryProofs` holds for any projects, revisions, changes, valid snapshots and
calls. `DesignReviewProofs` has the lemmas both repositories need: the
least-number principle and what `Latest` returns (`LatestOf`,
`LatestIsStored`), what `Reviewed` and a replacement make of a list of changes,
and that a command the checks accept is the one `RevisionHistory` makes of its
parts (`CommandIsNext`).

| Theorem | Statement |
|---|---|
| `TypeCorrect` | `Spec => []TypeOK` |
| `EachChangeIsRecordedOnce` | `Spec => []ChangesRecordedOnce` |
| `AwaitedCallsAreAtomic` | `Spec => ImplementsHistory` |

*Argument.* `MemoryInv` says that the index of semantic changes covers the
review states and these share none (`Indexed`), that a pending call is one a
caller may make (`Allowed`), and that what an awaiting caller's pending call has
read still holds (`Awaiting`). The refinement has a lemma per step that changes
the repository; a refused readiness that leaves its revision behind is an
`AppendRevision` of the history.

A snapshot that lists a change twice broke the first version of `Indexed`: the
model had left out that `replaceProject` refuses it. `ListedOnce` is that check,
and one of the run's snapshots fails it.

### Design revisions in PostgreSQL

`PostgresProofs` holds for any number of transactions, each at any statement.

| Theorem | Statement | Under |
|---|---|---|
| `TypeCorrect` | `Spec => []TypeOK` | |
| `OverlappingRetriesReplay` | `Spec => []RetriesReplay` | |
| `RevisionsFollowTheLatest` | `Spec => AppendsAtLatest` | |
| `ChangesFollowRevisions` | `Spec => []ChangesLeadToLatest` | no `appendRevision`; snapshots as exported |
| `TransactionsAreAtomic` | `Spec => ImplementsHistory` | no `appendRevision` |

*Argument.* `PostgresInv` says for each transaction what its locks give it
(`TxFits`): the key's lock means no response is stored (`KeyHeld`); the project
row's lock keeps the row and the review state as they were read (`RowHeld`); a
revision row's lock keeps the revision (`LockFits`), so that the revision about
to be inserted follows it (`FoundFits`) and no other has its sequence
(`InsertFits`, `AllDiffer`). Beside it, the sequences of a project have no gaps
(`Sequenced`) and the tables of baselines and changes cover the review states
(`TablesFit`). `Sequenced` is why the revision found long ago is still the
latest: if there were later ones, the least of their sequences would be the one
that the transaction inserts (`LatestAtCommit`).

*The two conditions.* `appendRevision` does not look at the review state, so it
leaves no change; and a revision that it commits after the DELETE of a
replacement has looked survives that replacement, which no step of the atomic
history does. The theorems that need it therefore assume that `Raw` is not
among the calls: the service does not call `appendRevision`
(`postgres_revisions_service` checks the same). `Exported` says of a snapshot
that its changes lead to its latest revision, which
`validateCollaborationSnapshot` does not check. `AppendsAtLatest` needs neither.
All five rest on `ContiguousAssumption` (exported sequences have no gaps), which
`Sequenced` needs.

### Review threads, change requests, events, sign-in, access, the outbox

`CollaborationProofs` holds for any callers, threads, requests, sessions, marks
and events, and any bounds (`NumbersAssumption`: they are numbers;
`NothingAssumption`: `None` is no record of the models). For the threads the
calls are finite in number (`CallsAssumption`; each raises a version by one at
most) and at least one receipt is kept (`ReceiptsAssumption`).

| Theorem | Statement |
|---|---|
| `ChangesAreKept` | `Spec => []ChangesKept` (`Spec` of `ReviewThreads`) |
| `ReplaysHold` | `Spec => ReplayHolds` |
| `RequestsFollow` | `AIRequest!Spec => RequestsFollowTheirPath` |
| `ReadersFollow` | `Stream!Spec => []ReaderFollowsHistory` |
| `NoWakeUpIsLost` | `Stream!Spec => []NoWakeUpLost` |
| `SessionsKeep` | `Browser!Spec => []SessionsKeepTheirAccess` |
| `RevocationsKeep` | `Access!Spec => RevocationsHold` |
| `EventsSettle` | `Outbox!Spec => []EventsAreSettledOnce` |

*Argument.* `ThreadsInv`: `ChangesKept` is not inductive, because a replacement
brings back what an export holds. So the same is claimed of every exported copy
(`Copied`): the version counts the changes, each mutation among them expected
an earlier version, so that two with one receipt cannot both be there, and none
is by a call in progress. What an update has read is the stored thread if the
versions agree and no replacement came between (`HasRead`); a change is then the
same whether it was computed from the one or the other. A receipt's operation
was applied once (`ever`). `RequestsInv`: a result belongs to the lifecycle it
is stored with, and PostgreSQL only compares and sets what may follow what was
read.
`StreamInv`: what a reader has received, what is written for it and what is on
the page rise from one to the next (`Ordered`, `Paged`); the next page is asked
for from no later than what is written, and every event that can be read is
received, written or on the page if its cursor is no later than the last of
them (`Complete`). `Complete` needs cursors that are assigned with the event
(`~reserved`), because an event that commits late comes in behind; finding 2 is
what happens without it. The page of `RepositoryReads` is said by what it
contains (`PagesAfter`), not by how it is sorted, as the prover knows nothing of
the library's sorting. `WakeInv`: a cursor the subscribers were told of and the
stream has not passed is on the page, pending, or beyond the replay while it goes
on; while a page that was read waits to be taken over, the last only if the page
is full and ends before the cursor, so that another page follows (`Awaited`). A
stream that rests with demand is about to be pulled or has nothing to do
(`Awoken`).
`SignInInv`: what each step of a request holds was read after the request
began, a transaction is consumed once, and a late call is one of its request's.
`AccessInv`: what a decision has read decides what it may set, and a decision
that an overruling one made hopeless stays overruled until it ends. `OutboxInv`:
a batch with an unsettled claim holds the lease, or the lease has run out, so
that two such batches can be told apart by time; an event was tried at
least as often as its entry in the queue counts.

*What proving showed of the models.* Where two alternatives of a CASE overlap,
TLC takes the first and the language leaves it open. `Outcome` and `WaitsFor`
of `ReviewThreads` and `Results` of `LocalProjects` had such alternatives; they
now say which comes first, as the code does.

### Previews, the designer's project, local projects and the agent

`ProjectProofs`, under `NobodyAssumption`, `NumbersAssumption`,
`RecordsAssumption` and `PresentationsAssumption` (no presentation is not one)
of `DesktopMC`.

| Theorem | Statement |
|---|---|
| `SharedBuildsSurvive` | `PreviewBuild!Spec => []SharedBuildSurvives` |
| `OnlyTheWantedIsShown` | `Story!Spec => ShownIsWanted` |
| `OnlyTheNewestIsShown` | `Refresh!Spec => NewestIsShown` |
| `NothingIsBuiltAfterClose` | `Refresh!Spec => NoBuildAfterClose` |
| `NobodyIsLeftBehind` | `Refresh!Spec => []NobodyLeftBehind` |
| `HistoryIsKept` | `Designer!Spec => HistoryOnlyGrows` |
| `SessionsAreSound` | `Designer!Spec => []SessionIsSound` |
| `EveryCallGoesOn` | `Designer!Spec => []CallsGoOn` |
| `ChangesBuild` | `Local!Spec => ChangesBuildOnTheLatest` |
| `CancelledStaysCancelled` | `Agent!Spec => []CancelledNeverCompletes` |
| `EndsAreDue` | `Agent!Spec => []EndIsDue` |
| `WaitsAreNotInVain` | `PartsSpec => []NobodyWaitsInVain` |

*Argument.* `BuildsInv`: a flight counts exactly the callers that wait for it,
and one that can be joined has not been aborted. `StoriesInv`: the calls of a
viewer are in order and the one it wants is the last. `NewestInv` and
`LeasesInv`: refreshes start in order, only the newest is active and compiled,
and the messages under way ask once, for a lease that is in force or will be.
`PresentingInv`: the refresh that presents is the pending one, and nothing is
pending while an open compiles. `WaitingInv`: a lease that is held is missed by
its call or given up by a cancellation under way (`LeaseIsMissed`), because a
request, its reply and the build they lead to follow each other and a refused
call holds nothing (`AskedWaits`, `ReservingFirst`, `SilentWhileIdle`).
`GoingOn`: each call of an AI request has the operation it waits for in the
queue or under way (`CarriedOn`), and an active request has a call that goes on
(`ActiveGoesOn`); a save that fails, which brings an earlier `active` back, and a
crash keep it so.
`DesignerInv`: memory and file agree unless a save is in doubt, of the flow
graph unless it has to be recovered (`Shows`), the operation under way started
from what the session holds, every call in the queue has its
request, and a proposal starts from the latest revision. `LocalInv`: a call that
writes holds its project's lock, and what it prepared was made from the file
that is there.
`AgentInv`: the host's record of a request agrees with what its
caller has heard. `DueInv` adds to it what the pipe and the greeting have come
to and, in `WaitingIsTimed`, that a request that waits is in the host's map and
has the timer its timeout or its abort calls for.
`WaitsAreNotInVain` joins the three invariants about waiting by `PartsFollow`.

### Publication, diagnostics and the edits on the canvas

`DesktopProofs`, under the same assumptions (`Kept` is positive: the code
refuses a retention of zero, `crash-diagnostics.ts` 327).

| Theorem | Statement |
|---|---|
| `PublishedAsConsented` | `Publish!Spec => []ConsentCoversPublish` |
| `ReceiptsAreTrue` | `Publish!Spec => ReceiptIsTrue` |
| `ErasuresAreFinal` | `Crash!Spec => []ErasuresLast` |
| `DeliveriesAreRecorded` | `Crash!Spec => DeliveredOnce` |
| `EditsApplyOnce` | `Edit!Spec => []EditsTakeEffectOnce` |

*Argument.* `PublishInv`: a consent is given once, spent once, and an
attempt works on the content it was given for. `CrashInv`: what an operation is
about to write fits memory and files at its place in the queue (`WriteFits`),
what was erased is in neither (`Gone`), the files agree with the memory unless
an operation is between them (`FilesAgree`), a delivery that succeeded is on
record or about to be (`Recorded`), and event numbers only go up (`Ahead`).
`EditsInv`, for the record on disk and the one in memory, which a failed save
may leave apart: a journal entry leads from the content before its edit to the
one after; what is undone stands after what is applied; what is applied ends the
open content (`JournalFits`). An edit of a capability is only found in revisions
after the one the capability is for (`MarksKnown`), so that a capability that is
for the open revision has not been used.

### Only model-checked

Every property of a passing run is a theorem but these.

* Liveness (`DeadlineAnswered`, `CallsEnd`, `ToldReceived`, `RefreshesEnd`,
  `RequestsEnd`, `RequestsSettle`): the prover does not reason about fairness
  and ENABLED.
* What the runs of section 5 violate, which is false.

## 5. Findings

Each has a run that shows it; `PROJECT.json` quotes the text it contradicts.

1. A failure between the commit of a revision and its event leaves the
   mutation without one, although the retry is answered with success
   (`service.ts` 1392).
2. PostgreSQL assigns event cursors before the rows are visible. A late
   event's wake-up stays pending behind `lastCursor`, and the pump replays
   until the stream ends (`service.ts` 2413). The same order means that a
   reader that has seen a later cursor never gets the earlier event.
3. An import that is rejected is quarantined under the identifier it names,
   and that removes the project of this identifier from the library, although
   no new record was written (`project-lifecycle.ts` 2962, 3292).
4. A designer's request can end with its conversation entry left unsettled
   (`designer-service.ts` 7929).
5. An event that was being delivered when consent was withdrawn still goes
   out (`crash-diagnostics.ts` 1071).

### Noticed while modelling, without a run of their own

Collaboration:

* In memory, `append-revision-and-mark-ready` stores its revision before the
  check that can refuse its baseline (`index.ts` 2233 against 1872-1876).
* In memory, two overlapping calls both compare the expected parent with what
  was read before an `await` and both commit (`index.ts` 2150, 2190), and two
  overlapping calls with one key both run, the later response replacing the
  earlier (2292). `AppendsAtLatest` is therefore claimed for PostgreSQL only.
* A creation that fails after `createProject` has stored the project is refused
  on every retry (`service.ts` 1305, `index.ts` 1970); a retried append is
  refused when the design was marked ready in between (`service.ts` 1358).
* `idempotent()` guards the answer, not the writes: a synchronisation retried
  after its first request took effect late replaces the project again
  (`index.ts` 1996). `AppliedOnce` is about design commands.
* Threads: a replacement between read and update can rewind a thread's version
  in PostgreSQL (`index.ts` 207 calls it monotonic); a create retried after a
  replacement creates anew in memory and conflicts in PostgreSQL; PostgreSQL
  prunes receipts by the start time of their transaction; `moveReviewThread`
  (1079) does not call `validateReviewThread`.
* Change requests: two `start` calls both succeed, since an update within one
  lifecycle does; `failed` and `cancelled` may be queued again, and a late
  answer of the first execution is then accepted; transition events may be
  emitted out of order.
* The PostgreSQL export is not one transaction, and `project.deleted` is
  emitted before the deletion.
* Outbox: a batch settles with the time it began at, so the expiry of its own
  lease never refuses its own late settlement (`enterprise-security.ts` 2037);
  a refused `nack` ends its worker and rejects the batch; an expired lease is
  not counted as a try.
* `advanceRevision` accepts another digest at an equal revision. In sign-in the
  transaction is consumed before the exchange, so that a failed exchange
  loses the sign-in.

Desktop:

* A save that fails after its rename leaves the new record on disk, and later
  saves of the session are refused (`designer-service.ts` 3249); a cancelled
  request whose staging save failed so comes back as a proposal.
* `undo`, `restoreVersion` and `recoverAutosave` (`project-lifecycle.ts` 2893,
  3001) advance the record and keep its old designer state, which the next
  `readRecord` quarantines; the application does not call them.
* `configureProductShell` checks only that the children are not claimed by
  another active shell: a chain of two shells, or archiving, claiming and
  restoring, commits a map that `productMap` (2676) then refuses
  (`docs/federation.md` 35).
* An I/O error of the commit by which `readRecord` normalises a v1 record
  quarantines a valid file, and if it comes after the rename the new file is
  removed (3019). The quarantine is pruned by file name: with the clock set
  back the fresh entry may be the one that goes.
* Agent host: a second cancellation within the grace period throws in a timer
  or a listener; a failed write leaves its entry; an uncorrelated error or a
  process `error` clears the grace timers without killing the child
  (`docs/agent-sdk.md` 75); a `completed` that races a cancellation fails all
  requests; the host cannot be restarted after a failure.
* Diagnostics: a grant that completes after a later denial lifts the latch
  while the denial is queued; a denial whose `save` fails leaves
  `cleanupRequired` unset.
* Publication: commits carry no date, so that a retry always conflicts; a
  repository created without its baseline is refused by later attempts; the
  consent dialog holds the queue; the check for a pending proposal is outside.
* `openProjectWorkspace` clears nine of the ten capability maps (not those for
  structure edits, 6512). An accepted proposal or a saved graph archives the
  journal, after which manual edits can no longer be undone.

## 6. Not modelled, and why

Pure functions over documents (design revisions and their validation, bindings,
handoff, federation, extension ordering, schemas) have no interleavings; the
ones with an algorithm worth checking are planned as operators against a
reference definition. Presentation (renderer cockpit, web application,
component library), Electron glue, environment, migrations and release scripts
keep little state a property could be about. SAML is validation of XML.
`RevisionedReactBuilder` (core `generation.ts` 469) is used by tests only; it
answers a superseded build with the last good artifact. Of the components
marked *partly*, the notes in `PROJECT.json` name what is left out.

Of `DesignerProject`: the older graph file (`designer-host-ports.ts` 328), which
is read while a record has no graph. When it cannot be read, an ordinary save
writes the fresh graph into the record, and the file is no longer looked at;
`HistoryOnlyGrows` is about graphs in the record. Of `CrashDiagnostics`: a
deletion that goes on after the one beside it has failed (a failed erase is one
step), and a consent that cannot be read at initialization. Of `LocalProjects`: a
quarantine that fails half-way. Of `AgentHost`: `Writable` stays true after a
failed write (EPIPE), whose unhandled error ends the application.

## 7. Plan

Done so far: the supervisor, revisions in both repositories, events, writing
requests, threads, change requests, sign-in, access decisions, outbox, agent
host, the preview pipeline, the designer service, manual edits, local
projects, publication and diagnostics. Next, in this order:

1. The service's host operations composed with `HostEffects`.
2. Project backup and restore; break-glass grants; the synchronisation of
   directories by hosted review; the lock of generated projects.
3. Operators with reference definitions: the prototype graph and its undo
   history, federation resolution, extension ordering.

Every safety property of the passing runs is proved; what the plan adds is to be
proved with its module.
Modules to be proved about declare no RECURSIVE operator.
