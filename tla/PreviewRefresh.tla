--------------------------- MODULE PreviewRefresh ---------------------------
(***************************************************************************)
(* Refreshing the preview: the renderer reserves a lease at the host, asks *)
(* for the build under it, shows the build in a frame and waits for the    *)
(* frame's receipt.  A newer refresh aborts the one before it; a deadline  *)
(* guards compilation and presentation; messages between renderer and host *)
(* arrive in order, late as they may be.  Refreshes are numbered in the    *)
(* order they start; a refresh reserves one lease, which has its number.   *)
(***************************************************************************)
EXTENDS Integers, Sequences

CONSTANTS
  Refreshes,  \* 1..n
  MaxTicket,  \* bound on the host's changes of the preview ticket
  None

VARIABLES
  ticket,      \* the ticket of the project's current state
  refresh,     \* each refresh: phase, kind, ticket, and whether it is aborted
  wire,        \* each refresh: where compileReservedPreview waits
  active,      \* activePreviewRefresh
  owner,       \* the project owner that was chosen last: a refresh, 0 or None
  committed,   \* the owner React committed
  pending,     \* the pending presentation: its refresh and whether it is ready
  frame,       \* the refresh whose build is in the frame
  shown,       \* the refresh whose build is the canonical one
  toHost, toRenderer,  \* messages on their way
  lease,       \* the host's lease of this renderer
  building,    \* refreshes whose build handler compiles
  revoked,     \* refreshes whose lease was revoked
  published    \* refreshes whose build was published

renderer == <<refresh, wire, active, owner, committed, pending, frame, shown>>
host == <<ticket, lease, building, revoked, published>>
vars == <<renderer, host, toHost, toRenderer>>

Phases == {"idle", "compiling", "presenting", "retargeting", "shown", "failed"}

TypeOK ==
  /\ ticket \in 0..MaxTicket
  /\ refresh \in [Refreshes -> [phase : Phases, kind : {"render", "open"},
                                ticket : 0..MaxTicket, aborted : BOOLEAN]]
  /\ wire \in [Refreshes -> {"none", "reserving", "building"}]
  /\ active \in Refreshes \cup {None}
  /\ owner \in Refreshes \cup {0, None}
  /\ committed \in Refreshes \cup {0}
  /\ pending \in [refresh : Refreshes, ready : BOOLEAN] \cup {None}
  /\ frame \in Refreshes \cup {None} /\ shown \in Refreshes \cup {None}
  /\ lease \in [refresh : Refreshes, consumed : BOOLEAN] \cup {None}
  /\ building \subseteq Refreshes /\ revoked \subseteq Refreshes
  /\ published \subseteq Refreshes

Init ==
  /\ ticket = 0
  /\ refresh = [r \in Refreshes |-> [phase |-> "idle", kind |-> "render",
                                     ticket |-> 0, aborted |-> FALSE]]
  /\ wire = [r \in Refreshes |-> "none"]
  /\ active = None /\ owner = 0 /\ committed = 0
  /\ pending = None /\ frame = None /\ shown = None
  /\ toHost = <<>> /\ toRenderer = <<>>
  /\ lease = None /\ building = {} /\ revoked = {} /\ published = {}

Message(type, r) == [type |-> type, refresh |-> r]
PendingOf(r) == pending # None /\ pending.refresh = r

-----------------------------------------------------------------------------
(* The renderer.                                                           *)

(* Mutant: the pending presentation goes without rejecting its promise.    *)
LeftWaiting(r) ==
  [refresh[r] EXCEPT
     !.aborted = TRUE,
     !.phase = IF @ = "compiling" THEN "failed" ELSE @]

(* What an abort does at once.  While it compiles, the deadline promise    *)
(* rejects and, if the lease is known, the host is told to cancel it; a    *)
(* pending presentation is rejected.                                       *)
CancelsLease(r) == wire[r] = "building"
AbortedRefresh(r) ==
  [refresh[r] EXCEPT
     !.aborted = TRUE,
     !.phase = IF @ \in {"compiling", "presenting"} THEN "failed" ELSE @]
Sent(r) ==
  IF CancelsLease(r) THEN Append(toHost, Message("cancel", r)) ELSE toHost

(* render() and openProject(): the active refresh is aborted, the new one  *)
(* reserves its lease.  An open chooses a new owner and closes the         *)
(* presentation; a render is for the committed owner only.                 *)
Start(r, kind, t) ==
  LET old == active IN
  /\ refresh[r].phase = "idle"
  /\ \A q \in Refreshes : q < r => refresh[q].phase # "idle"
  /\ t <= ticket
  /\ kind = "render" => owner = committed
  /\ owner' = IF kind = "open" THEN r ELSE owner
  /\ LET new == [phase |-> "compiling", kind |-> kind, ticket |-> t,
                 aborted |-> FALSE]
         closed == IF kind = "open" /\ pending # None THEN {pending.refresh}
                   ELSE {}
     IN refresh' = [q \in Refreshes |->
                      CASE q = r -> new
                        [] q # r /\ q = old -> AbortedRefresh(q)
                        [] q # r /\ q # old /\ q \in closed ->
                             [refresh[q] EXCEPT !.phase = "failed"]
                        [] OTHER -> refresh[q]]
  /\ pending' = IF (old # None /\ PendingOf(old)) \/ kind = "open"
                THEN None ELSE pending
  /\ active' = r
  /\ wire' = [wire EXCEPT ![r] = "reserving"]
  /\ toHost' = Append(IF old = None THEN toHost ELSE Sent(old),
                      Message("reserve", r))
  /\ UNCHANGED <<committed, frame, shown, toRenderer, host>>

(* The compile deadline of the renderer.                                   *)
Fail(r) == refresh' = [refresh EXCEPT ![r].phase = "failed"]
NoLonger(r) == active' = IF active = r THEN None ELSE active

(* An open that fails leaves no owner behind unless a later open chose its *)
(* own.                                                                    *)
GiveUp(r) ==
  IF refresh[r].kind = "open" /\ owner = r
  THEN /\ owner' = None /\ frame' = None
       /\ active' = None /\ pending' = None
  ELSE NoLonger(r) /\ UNCHANGED <<owner, frame, pending>>

Deadline(r) ==
  /\ refresh[r].phase = "compiling"
  /\ Fail(r) /\ GiveUp(r)
  /\ toHost' = Sent(r)
  /\ UNCHANGED <<wire, committed, shown, toRenderer, host>>

(* Mutant: a reservation nobody waits for is left to expire.               *)
ReservedUnused(r) ==
  IF refresh[r].phase = "compiling"
  THEN /\ wire' = [wire EXCEPT ![r] = "building"]
       /\ toHost' = Append(toHost, Message("build", r))
  ELSE wire' = [wire EXCEPT ![r] = "none"] /\ UNCHANGED toHost

(* compileReservedPreview hears of its reservation: it asks for the build, *)
(* or gives the lease back when the refresh was cancelled meanwhile.       *)
Reserved(r) ==
  IF refresh[r].phase = "compiling"
  THEN /\ wire' = [wire EXCEPT ![r] = "building"]
       /\ toHost' = Append(toHost, Message("build", r))
  ELSE /\ wire' = [wire EXCEPT ![r] = "none"]
       /\ toHost' = Append(toHost, Message("cancel", r))

HearReserved(r) ==
  /\ toRenderer # <<>> /\ Head(toRenderer) = Message("reserved", r)
  /\ Reserved(r)
  /\ toRenderer' = Tail(toRenderer)
  /\ UNCHANGED <<refresh, active, owner, committed, pending, frame, shown,
                 host>>

(* It hears of a refusal or a failed build.                                *)
HearRefused(r) ==
  /\ toRenderer # <<>> /\ Head(toRenderer) = Message("refused", r)
  /\ wire' = [wire EXCEPT ![r] = "none"]
  /\ toHost' = Sent(r)
  /\ toRenderer' = Tail(toRenderer)
  /\ IF refresh[r].phase = "compiling" THEN Fail(r) /\ GiveUp(r)
     ELSE UNCHANGED <<refresh, active, owner, pending, frame>>
  /\ UNCHANGED <<committed, shown, host>>

(* It hears of the build: the lease is given back, a build nobody waits    *)
(* for any more is dropped, that of an open goes straight into the frame,  *)
(* and that of a render is presented, in place of any pending one.         *)
Present(r) ==
  /\ refresh' = [q \in Refreshes |->
                   CASE q = r -> [refresh[r] EXCEPT !.phase = "presenting"]
                     [] q # r /\ PendingOf(q) ->
                          [refresh[q] EXCEPT !.phase = "failed"]
                     [] OTHER -> refresh[q]]
  /\ pending' = [refresh |-> r, ready |-> FALSE]
  /\ frame' = r
  /\ UNCHANGED <<active, committed>>

OpenFrame(r) ==
  /\ refresh' = [refresh EXCEPT ![r].phase = "shown"]
  /\ committed' = r /\ frame' = r
  /\ NoLonger(r)
  /\ UNCHANGED pending

HearBuilt(r) ==
  /\ toRenderer # <<>> /\ Head(toRenderer) = Message("built", r)
  /\ wire' = [wire EXCEPT ![r] = "none"]
  /\ toHost' = Append(toHost, Message("cancel", r))
  /\ toRenderer' = Tail(toRenderer)
  /\ IF refresh[r].phase # "compiling"
     THEN UNCHANGED <<refresh, active, committed, pending, frame>>
     ELSE IF refresh[r].kind = "open" THEN OpenFrame(r) ELSE Present(r)
  /\ UNCHANGED <<owner, shown, host>>

(* The frame reports; only the identity that is pending counts.            *)
FrameReady(r) ==
  /\ frame = r /\ PendingOf(r) /\ ~pending.ready
  /\ pending' = [pending EXCEPT !.ready = TRUE]
  /\ UNCHANGED <<refresh, wire, active, owner, committed, frame, shown,
                 toHost, toRenderer, host>>

FrameRendered(r) ==
  /\ frame = r /\ PendingOf(r) /\ pending.ready
  /\ pending' = None
  /\ refresh' = [refresh EXCEPT ![r].phase = "retargeting"]
  /\ UNCHANGED <<wire, active, owner, committed, frame, shown, toHost,
                 toRenderer, host>>

(* The frame fails to load or run, or no paint receipt comes in time.      *)
PresentationFails(r) ==
  /\ PendingOf(r)
  /\ pending' = None
  /\ Fail(r) /\ NoLonger(r)
  /\ UNCHANGED <<wire, owner, committed, frame, shown, toHost, toRenderer,
                 host>>

(* Mutant: after its await, render() checks the project only.              *)
SameProject(r) == owner = committed

(* The host confirmed the selection (or refused to): what render() checks  *)
(* before the build becomes the canonical one.                             *)
StillOwns(r) ==
  ~refresh[r].aborted /\ active = r /\ owner = committed

Accept(r) ==
  /\ refresh[r].phase = "retargeting"
  /\ \/ /\ StillOwns(r)
        /\ refresh' = [refresh EXCEPT ![r].phase = "shown"]
        /\ shown' = r
     \/ Fail(r) /\ UNCHANGED shown
  /\ NoLonger(r)
  /\ UNCHANGED <<wire, owner, committed, pending, frame, toHost, toRenderer,
                 host>>

(* Inspect, a proposal's preview or a closed page aborts the refresh.      *)
Abort(r) ==
  /\ active = r /\ ~refresh[r].aborted
  /\ refresh' = [refresh EXCEPT ![r] = AbortedRefresh(r)]
  /\ toHost' = Sent(r)
  /\ pending' = IF PendingOf(r) THEN None ELSE pending
  /\ IF refresh[r].phase = "retargeting"
     THEN UNCHANGED <<active, owner, frame>>
     ELSE IF refresh[r].kind = "open" /\ owner = r
     THEN owner' = None /\ frame' = None /\ active' = None
     ELSE NoLonger(r) /\ UNCHANGED <<owner, frame>>
  /\ UNCHANGED <<wire, committed, shown, toRenderer, host>>

-----------------------------------------------------------------------------
(* The host.                                                               *)

Handle(type, r) ==
  /\ toHost # <<>> /\ Head(toHost) = Message(type, r)
  /\ toHost' = Tail(toHost)
Reply(type, r) == toRenderer' = Append(toRenderer, Message(type, r))

(* The project changes: the host issues a new ticket.                      *)
Advance ==
  /\ ticket < MaxTicket
  /\ ticket' = ticket + 1
  /\ UNCHANGED <<renderer, toHost, toRenderer, lease, building, revoked,
                 published>>

Current(r) == refresh[r].ticket = ticket
Holds(r) == lease # None /\ lease.refresh = r
Revoked == IF lease = None THEN revoked ELSE revoked \cup {lease.refresh}

(* reserve(): the lease before it is closed.                               *)
HandleReserve(r) ==
  /\ Handle("reserve", r)
  /\ IF Current(r)
     THEN /\ lease' = [refresh |-> r, consumed |-> FALSE]
          /\ revoked' = Revoked
          /\ Reply("reserved", r)
     ELSE Reply("refused", r) /\ UNCHANGED <<lease, revoked>>
  /\ UNCHANGED <<renderer, ticket, building, published>>

(* Mutant: any lease will do.                                              *)
AnyLease(r) == TRUE

(* claim() and the build handler up to its await.                          *)
Claimable(r) == Holds(r) /\ ~lease.consumed

HandleBuild(r) ==
  /\ Handle("build", r)
  /\ IF Current(r) /\ Claimable(r)
     THEN /\ lease' = [refresh |-> r, consumed |-> TRUE]
          /\ building' = building \cup {r}
          /\ UNCHANGED toRenderer
     ELSE Reply("refused", r) /\ UNCHANGED <<lease, building>>
  /\ UNCHANGED <<renderer, ticket, revoked, published>>

HandleCancel(r) ==
  /\ Handle("cancel", r)
  /\ IF Holds(r) THEN lease' = None /\ revoked' = Revoked
     ELSE UNCHANGED <<lease, revoked>>
  /\ UNCHANGED <<renderer, toRenderer, ticket, building, published>>

(* The timer of the lease, or assertActive() that notices the time.        *)
Expire ==
  /\ lease # None
  /\ lease' = None /\ revoked' = Revoked
  /\ UNCHANGED <<renderer, toHost, toRenderer, ticket, building, published>>

(* The build handler resumes: an aborted or failed build refuses; an       *)
(* artifact is published if the ticket is still current.                   *)
Finish(r) ==
  /\ r \in building
  /\ building' = building \ {r}
  /\ \/ /\ r \notin revoked /\ Current(r)
        /\ published' = published \cup {r}
        /\ Reply("built", r)
     \/ Reply("refused", r) /\ UNCHANGED published
  /\ IF Holds(r) THEN lease' = None /\ revoked' = Revoked
     ELSE UNCHANGED <<lease, revoked>>
  /\ UNCHANGED <<renderer, toHost, ticket>>

Next ==
  \/ Advance \/ Expire
  \/ \E r \in Refreshes :
       \/ \E kind \in {"render", "open"}, t \in 0..MaxTicket :
            Start(r, kind, t)
       \/ Deadline(r) \/ Abort(r)
       \/ HearReserved(r) \/ HearRefused(r) \/ HearBuilt(r)
       \/ FrameReady(r) \/ FrameRendered(r) \/ PresentationFails(r)
       \/ Accept(r)
       \/ HandleReserve(r) \/ HandleBuild(r) \/ HandleCancel(r) \/ Finish(r)

(* Timers fire and the host answers the selection's retargeting; nothing   *)
(* is asked of the messages, the compiler or the frame.                    *)
Fairness ==
  \A r \in Refreshes :
    WF_vars(Deadline(r)) /\ WF_vars(PresentationFails(r)) /\ WF_vars(Accept(r))

Spec == Init /\ [][Next]_vars
FairSpec == Spec /\ Fairness

-----------------------------------------------------------------------------
(* A build becomes the canonical one only as the newest refresh: it is in  *)
(* the frame, and no later refresh or project has been asked for           *)
(* (render()'s checks after its await).                                    *)
NewestIsShown ==
  [][shown' # shown =>
       /\ frame' = shown'
       /\ \A q \in Refreshes : q > shown' => refresh[q].phase = "idle"]_vars

(* Once the host has closed a lease, because it was cancelled, replaced or *)
(* expired, a build that was held up on its way neither starts under it    *)
(* nor is published (PreviewBuildLeaseAuthority: "A delayed IPC cannot     *)
(* begin after Exit, replacement, or expiry").                             *)
NoBuildAfterClose ==
  [][\A r \in revoked : /\ r \in building' => r \in building
                        /\ r \in published' => r \in published]_vars

(* Nobody is left behind: a refresh that presents is the one whose pending *)
(* presentation has the timer, and a lease the host holds belongs to a     *)
(* call of the renderer that has still to hear of it, or its cancellation  *)
(* is on its way - whether the refresh was aborted, replaced, timed out or *)
(* refused, and before or after it heard of its reservation                *)
(* (compileReservedPreview, PreviewPresentationCoordinator).               *)
NobodyLeftBehind ==
  /\ \A r \in Refreshes : refresh[r].phase = "presenting" => PendingOf(r)
  /\ lease # None =>
       \/ wire[lease.refresh] # "none"
       \/ \E i \in DOMAIN toHost :
            toHost[i] = Message("cancel", lease.refresh)

(* A refresh comes to an end even if the host, the compiler or the frame   *)
(* never answer (compilePreviewWithinDeadline).                            *)
RefreshesEnd ==
  \A r \in Refreshes :
    refresh[r].phase # "idle" ~> refresh[r].phase \in {"shown", "failed"}

=============================================================================
