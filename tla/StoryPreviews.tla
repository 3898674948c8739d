----------------------------- MODULE StoryPreviews ---------------------------
(***************************************************************************)
(* The capabilities under which the desktop builds single stories of one   *)
(* project's component catalog.  A capability is issued for one story of   *)
(* one catalog build, at most Maximum are kept, the least recently issued  *)
(* one goes first; a build is asked for with a capability, and while it    *)
(* runs the catalog may be replaced, the capability trimmed or revoked,    *)
(* and the same renderer may ask for another story or leave.               *)
(*                                                                         *)
(* A capability is its number: the code draws a random one, checks that it *)
(* is not in use, and compares the whole ticket.                           *)
(***************************************************************************)
EXTENDS Integers, Sequences, FiniteSets

CONSTANTS
  Stories,
  Catalogs,   \* catalog builds, besides 0: none is ready
  Callers,    \* renderers
  Builds,     \* calls of build(): 1..n, in the order they are made
  Maximum,    \* maximumCapabilities
  MaxIssued,  \* bound: capabilities drawn
  None

VARIABLES
  catalog,   \* what manifests.current() projects
  issued,    \* byCapability, in the order of the map
  known,     \* byIdentity
  drawn,     \* every capability drawn, with its identity
  build,     \* each call of build()
  active     \* each caller's AbortController: the call it belongs to

vars == <<catalog, issued, known, drawn, build, active>>

Identities == [story : Stories, catalog : Catalogs]
Caps       == 1..MaxIssued
Listed     == {issued[i] : i \in DOMAIN issued}

TypeOK ==
  /\ catalog \in Catalogs \cup {0}
  /\ issued \in Seq(Caps)
  /\ known \in [Identities -> Caps \cup {0}]
  /\ drawn \in Seq(Identities)
  /\ build \in [Builds -> [state : {"idle", "building", "returned", "refused"},
                           cap : Caps \cup {0}, by : Callers \cup {None},
                           aborted : BOOLEAN]]
  /\ active \in [Callers -> Builds \cup {None}]

Init ==
  /\ catalog = 0
  /\ issued = <<>> /\ drawn = <<>>
  /\ known = [i \in Identities |-> 0]
  /\ build = [b \in Builds |-> [state |-> "idle", cap |-> 0, by |-> None,
                                aborted |-> FALSE]]
  /\ active = [c \in Callers |-> None]

-----------------------------------------------------------------------------
\* assertCurrent, supports
Current(identity) == identity.catalog = catalog

\* resolve(): the capability is known and its catalog is the current one.
Resolves(cap) == cap \in Listed /\ Current(drawn[cap])

\* A catalog is activated, or lost when the source moves on.
CatalogChanges ==
  /\ catalog' \in (Catalogs \cup {0}) \ {catalog}
  /\ UNCHANGED <<issued, known, drawn, build, active>>

Without(caps, gone) == SelectSeq(caps, LAMBDA c : c \notin gone)

Forgetting(ids, gone) ==
  [i \in Identities |-> IF ids[i] \in gone THEN 0 ELSE ids[i]]

\* issue(), for a story that already has a capability: it becomes the newest.
IssueAgain(identity) ==
  /\ Current(identity) /\ known[identity] \in Listed
  /\ issued' = Append(Without(issued, {known[identity]}), known[identity])
  /\ UNCHANGED <<catalog, known, drawn, build, active>>

\* issue(), and trim()
Issue(identity) ==
  LET cap == Len(drawn) + 1
      all == Append(issued, cap)
      gone == IF Len(all) > Maximum THEN {Head(all)} ELSE {}
  IN
  /\ Current(identity) /\ known[identity] \notin Listed
  /\ cap <= MaxIssued
  /\ drawn' = Append(drawn, identity)
  /\ issued' = Without(all, gone)
  /\ known' = Forgetting([known EXCEPT ![identity] = cap], gone)
  /\ UNCHANGED <<catalog, build, active>>

Aborts(c) ==
  [b \in Builds |-> IF b = active[c] THEN [build[b] EXCEPT !.aborted = TRUE]
                    ELSE build[b]]

\* build(): an earlier call of the same renderer is aborted.
Start(b, c, cap) ==
  /\ build[b].state = "idle"
  /\ \A earlier \in Builds : earlier < b => build[earlier].state # "idle"
  /\ cap \in DOMAIN drawn /\ Resolves(cap)
  /\ build' = [Aborts(c) EXCEPT ![b] = [state |-> "building", cap |-> cap,
                                        by |-> c, aborted |-> FALSE]]
  /\ active' = [active EXCEPT ![c] = b]
  /\ UNCHANGED <<catalog, issued, known, drawn>>

\* A slip: the capability is not resolved again after the build.
NotAborted(b) == ~build[b].aborted
StillResolves(b) == ~build[b].aborted /\ Resolves(build[b].cap)

\* The finally block: a newer call's controller stays.
Released(b) ==
  [active EXCEPT ![build[b].by] = IF @ = b THEN None ELSE @]

\* The builder publishes the story.
Published(b) ==
  /\ build[b].state = "building"
  /\ build' = [build EXCEPT ![b].state =
                 IF StillResolves(b) THEN "returned" ELSE "refused"]
  /\ active' = Released(b)
  /\ UNCHANGED <<catalog, issued, known, drawn>>

\* The builder fails, or stops because of the abort.
BuildFails(b) ==
  /\ build[b].state = "building"
  /\ build' = [build EXCEPT ![b].state = "refused"]
  /\ active' = Released(b)
  /\ UNCHANGED <<catalog, issued, known, drawn>>

\* The renderer navigates or closes.
Cancel(c) ==
  /\ active[c] # None
  /\ build' = Aborts(c)
  /\ active' = [active EXCEPT ![c] = None]
  /\ UNCHANGED <<catalog, issued, known, drawn>>

RevokeProject ==
  /\ issued # <<>>
  /\ issued' = <<>>
  /\ known' = Forgetting(known, Listed)
  /\ UNCHANGED <<catalog, drawn, build, active>>

\* reset()
Reset ==
  /\ build' = [b \in Builds |->
                 IF \E c \in Callers : active[c] = b
                 THEN [build[b] EXCEPT !.aborted = TRUE] ELSE build[b]]
  /\ active' = [c \in Callers |-> None]
  /\ issued' = <<>>
  /\ known' = [i \in Identities |-> 0]
  /\ UNCHANGED <<catalog, drawn>>

Next ==
  \/ CatalogChanges \/ RevokeProject \/ Reset
  \/ \E i \in Identities : Issue(i) \/ IssueAgain(i)
  \/ \E b \in Builds : \/ Published(b) \/ BuildFails(b)
                       \/ \E c \in Callers, cap \in Caps : Start(b, c, cap)
  \/ \E c \in Callers : Cancel(c)

Spec == Init /\ [][Next]_vars

-----------------------------------------------------------------------------
(***************************************************************************)
(* A renderer is shown the story it last asked for, of the catalog that is *)
(* current when it is shown, under a capability still in force: nothing    *)
(* that was superseded, left, trimmed, revoked or reset while it was built *)
(* comes back (build).                                                     *)
(***************************************************************************)
ShownIsWanted ==
  [][\A b \in Builds :
       build[b].state = "building" /\ build'[b].state = "returned" =>
         /\ drawn[build[b].cap].catalog = catalog
         /\ build[b].cap \in Listed
         /\ \A later \in Builds :
              later > b => build[later].by # build[b].by]_vars

=============================================================================
