------------------------------ MODULE DesktopMC ------------------------------
(***************************************************************************)
(* The desktop's components, and the writing requests of the collaboration *)
(* service it is a client of, for TLC, side by side: a behaviour picks one *)
(* of them at the start and follows it, the others stay as they begin.     *)
(* The state spaces add up instead of multiplying; what the components     *)
(* exchange is in each module as an environment that may do whatever the   *)
(* other side can do.                                                      *)
(***************************************************************************)
EXTENDS ServiceWrites, TLC

CONSTANTS
  Nobody,
  BuildKeys, Callers, Retained,                          \* PreviewBuilds
  Refreshes, MaxTicket,                                  \* PreviewRefresh
  AgentRequests, Timed,                                  \* AgentHost
  Requests, MaxRevisions, MaxGraph, MaxQueued,           \* DesignerProject
  Reports, Kept, MaxEvents, MaxOperations,               \* CrashDiagnostics
  Publications, MaxContent, MaxConsents,                 \* Publishing
  Stories, Catalogs, Viewers, Builds, Maximum, MaxIssued, \* StoryPreviews
  Capabilities, Settings, AllRound, Edits, FewEdits,
  MaxEdited, MaxMints, Journal,                          \* ManualEdits
  Projects, LocalCallers, KindsUsed, MaxVersions, MaxEntries, Broken
                                                         \* LocalProjects

\* Nobody is none of those who may be somewhere, and what counts is a number.
ASSUME NobodyAssumption ==
  Nobody \notin Callers \cup Viewers \cup Refreshes \cup Requests
                  \cup LocalCallers \cup Reports
ASSUME NumbersAssumption ==
  /\ Builds \subseteq Nat /\ Refreshes \subseteq Nat /\ MaxTicket \in Nat
  /\ MaxContent \in Nat \ {0} /\ MaxConsents \in Nat
  /\ MaxVersions \in Nat \ {0} /\ MaxRevisions \in Nat \ {0}
  /\ MaxGraph \in Nat /\ Kept \in Nat \ {0} /\ MaxEvents \in Nat
  /\ Journal \in Nat

VARIABLES
  part,
  buildCall, withdrawn, stale, flight, inFlight, retained,
  ticket, refresh, wire, active, owner, committed, pending, frame, shown,
  toHost, toRenderer, lease, building, revoked, published,
  process, attached, hello, greeted, session, waiting, due, grace, outcome,
  aborts, cancels,
  stored, memory, queue, op, call, asked, aborted, doubt,
  files, diagnostics, operations, erasing, report, bundle, captured, erased,
  refused, acked, failed,
  design, dialog, consent, grants, given, publication, remote,
  catalog, issued, known, drawn, storyBuild, running,
  record, held, capability, minted, edited,
  disk, entries, lock, mapLock, localCall

PreviewBuild == INSTANCE PreviewBuilds WITH
  None <- Nobody, Keys <- BuildKeys, call <- buildCall

Refresh == INSTANCE PreviewRefresh WITH None <- Nobody

Agent == INSTANCE AgentHost WITH
  Requests <- AgentRequests, pending <- waiting, aborted <- aborts

Designer == INSTANCE DesignerProject WITH None <- Nobody

Crash == INSTANCE CrashDiagnostics WITH
  None <- Nobody, MaxQueued <- MaxOperations,
  disk <- files, memory <- diagnostics, queue <- operations, op <- erasing,
  doubt <- failed

Publish == INSTANCE Publishing WITH
  None <- Nobody, Attempts <- Publications,
  attempt <- publication, pending <- consent

Story == INSTANCE StoryPreviews WITH
  None <- Nobody, Callers <- Viewers, build <- storyBuild, active <- running

\* One capability is asked for every kind, the others for a few.
AskedOf(c) == IF c \in AllRound THEN Edits ELSE FewEdits

Edit == INSTANCE ManualEdits WITH
  KindsAsked <- [c \in Capabilities |-> AskedOf(c)],
  None <- Nobody, MaxRevisions <- MaxEdited, Kept <- Journal,
  stored <- record, memory <- held, grant <- capability, spent <- minted,
  answer <- edited

Local == INSTANCE LocalProjects WITH
  None <- Nobody, Callers <- LocalCallers, call <- localCall

buildVars == <<buildCall, withdrawn, stale, flight, inFlight, retained>>
refreshVars == <<ticket, refresh, wire, active, owner, committed, pending,
                 frame, shown, toHost, toRenderer, lease, building, revoked,
                 published>>
agentVars == <<process, attached, hello, greeted, session, waiting, due, grace,
               outcome, aborts, cancels>>
designerVars == <<stored, memory, queue, op, call, asked, aborted, doubt>>
crashVars == <<files, diagnostics, operations, erasing, report, bundle,
               captured, erased, refused, acked, failed>>
publishVars == <<design, dialog, consent, grants, given, publication, remote>>
storyVars == <<catalog, issued, known, drawn, storyBuild, running>>
editVars == <<record, held, capability, minted, edited>>
localVars == <<disk, entries, lock, mapLock, localCall>>
partVars == <<part, buildVars, refreshVars, agentVars, designerVars, crashVars,
              publishVars, storyVars, editVars, localVars>>

Parts == {"service", "builds", "refresh", "agent", "designer", "crash",
          "publishing", "stories", "edits", "local"}

PartsInit ==
  /\ part \in Parts
  /\ Init /\ PreviewBuild!Init /\ Refresh!Init /\ Agent!Init /\ Designer!Init
  /\ Crash!Init /\ Publish!Init /\ Story!Init /\ Edit!Init
  /\ Local!Init
  /\ part # "service" => exists /\ \A k \in Keys : operation[k].kind = "create"
  /\ part # "publishing" => ~remote.exists
  /\ part # "local" => \A p \in Projects : disk[p] = Nobody
  /\ part # "designer" => ~memory.recovering

\* Keys, attempts and processes are interchangeable: two of three attempts
\* have one key, which may be called k1, and one of them runs in x1.
Choices == [a1 |-> {"k1"} \X {"x1"}, a2 |-> {"k1"} \X Processes,
            a3 |-> Keys \X Processes]
Assigned ==
  \A a \in Attempts : attempt'[a].state # "idle" =>
    <<attempt'[a].key, attempt'[a].process>> \in Choices[a]

Others(p) ==
  /\ UNCHANGED part
  /\ IF p = "service" THEN TRUE ELSE UNCHANGED vars
  /\ IF p = "builds" THEN TRUE ELSE UNCHANGED buildVars
  /\ IF p = "refresh" THEN TRUE ELSE UNCHANGED refreshVars
  /\ IF p = "agent" THEN TRUE ELSE UNCHANGED agentVars
  /\ IF p = "designer" THEN TRUE ELSE UNCHANGED designerVars
  /\ IF p = "crash" THEN TRUE ELSE UNCHANGED crashVars
  /\ IF p = "publishing" THEN TRUE ELSE UNCHANGED publishVars
  /\ IF p = "stories" THEN TRUE ELSE UNCHANGED storyVars
  /\ IF p = "edits" THEN TRUE ELSE UNCHANGED editVars
  /\ IF p = "local" THEN TRUE ELSE UNCHANGED localVars

PartsNext ==
  \/ part = "service" /\ Next /\ Assigned /\ Others("service")
  \/ part = "builds" /\ PreviewBuild!Next /\ Others("builds")
  \/ part = "refresh" /\ Refresh!Next /\ Others("refresh")
  \/ part = "agent" /\ Agent!Next /\ Others("agent")
  \/ part = "designer" /\ Designer!Next /\ Others("designer")
  \/ part = "crash" /\ Crash!Next /\ Others("crash")
  \/ part = "publishing" /\ Publish!Next /\ Others("publishing")
  \/ part = "stories" /\ Story!Next /\ Others("stories")
  \/ part = "edits" /\ Edit!Next /\ Others("edits")
  \/ part = "local" /\ Local!Next /\ Others("local")

\* No file at all, and one that cannot be decoded, are not records; no
\* operation, no proposal and no consent are not one.
ASSUME RecordsAssumption ==
  /\ {Nobody, Broken} \cap Local!Records = {}
  /\ Nobody \notin Designer!Operations \cup Designer!Proposals
                    \cup Crash!Operations \cup Crash!Users

\* No presentation is not one.
ASSUME PresentationsAssumption ==
  Nobody \notin [refresh : Refreshes, ready : BOOLEAN]

PartsSpec == PartsInit /\ [][PartsNext]_<<vars, partVars>>

-----------------------------------------------------------------------------
SharedBuildSurvives   == PreviewBuild!SharedBuildSurvives
NewestIsShown         == Refresh!NewestIsShown
NoBuildAfterClose     == Refresh!NoBuildAfterClose
NobodyLeftBehind      == Refresh!NobodyLeftBehind
CancelledNeverCompletes == Agent!CancelledNeverCompletes
EndIsDue              == Agent!EndIsDue
HistoryOnlyGrows      == Designer!HistoryOnlyGrows
SessionIsSound        == Designer!SessionIsSound
CallsGoOn             == Designer!CallsGoOn

(* Nobody in the desktop's processes waits for what will not come: not a   *)
(* refresh for its frame or its lease, not a caller of the agent, not an   *)
(* AI request between its operations.                                      *)
NobodyWaitsInVain == NobodyLeftBehind /\ EndIsDue /\ CallsGoOn

ErasuresLast          == Crash!ErasuresLast
DeliveredOnce         == Crash!DeliveredOnce
ConsentCoversPublish  == Publish!ConsentCoversPublish
ReceiptIsTrue         == Publish!ReceiptIsTrue
ShownIsWanted         == Story!ShownIsWanted
EditsTakeEffectOnce   == Edit!EditsTakeEffectOnce
ChangesBuildOnTheLatest == Local!ChangesBuildOnTheLatest
=============================================================================
