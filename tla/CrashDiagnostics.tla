--------------------------- MODULE CrashDiagnostics --------------------------
(***************************************************************************)
(* The desktop's crash diagnostics: a local queue of data-poor events, the *)
(* user's consent to keep them, and their delivery to a reporting sink.    *)
(* Three private files hold the events, the consent and the delivery       *)
(* record; each is replaced by a rename and a directory sync, so a save    *)
(* that fails may have happened.                                           *)
(*                                                                         *)
(* The operations run in one first-in first-out queue, with two            *)
(* exceptions: a refusal of consent acts on the memory at once, before its *)
(* operation is queued, and the sink is called outside the queue.          *)
(*                                                                         *)
(* An event is its number, a bundle the set of its events: the fingerprint *)
(* of a bundle, its idempotency key, identifies that set.  Retention by    *)
(* age, the consent history, the clock's own checks and the policies that  *)
(* never change are left out.                                              *)
(***************************************************************************)
EXTENDS Integers, Sequences, FiniteSets

CONSTANTS
  Reports,       \* calls of report(), one after another each
  Kept,          \* maximumEvents
  MaxEvents,     \* bound: events captured
  MaxQueued,     \* bound: operations waiting
  None

VARIABLES
  disk,      \* the three files
  memory,    \* the fields of CrashDiagnostics
  queue,     \* operation: what waits, in order
  op,        \* the operation that runs, or None
  report,    \* where each report() call is
  bundle,    \* what each report() call was admitted with
  captured,  \* the number of events captured
  erased,    \* history: the events an erase removed from both files
  refused,   \* history: the events the user has withdrawn consent for
  acked,     \* history: the bundles recorded as delivered since an erase
  doubt      \* history: a save failed since the process started

histories == <<captured, erased, refused, acked>>
vars == <<disk, memory, queue, op, report, bundle, histories, doubt>>

Events    == 1..MaxEvents
Users     == {"unknown", "granted", "denied"}
Nothing   == [state |-> "none", bundle |-> {}, wait |-> FALSE]
Deliveries == [state : {"none", "pending", "delivered"},
               bundle : SUBSET Events, wait : BOOLEAN]
Kinds     == {"capture", "deny", "grant", "delete", "report", "finish"}

\* What each kind of write stores.
Phases == {"consent", "erase", "events", "delivery"}
Payloads(phase) ==
  CASE phase = "consent"  -> {"granted", "denied"}
    [] phase = "erase"    -> {"granted", "denied", None}
    [] phase = "events"   -> SUBSET Events
    [] phase = "delivery" -> Deliveries
Operations == [kind : Kinds, by : Reports \cup {None}, phase : Phases,
               payload : UNION {Payloads(p) : p \in Phases}]

\* The process that does not run, or has not finished initialize().
Off == [running |-> FALSE, events |-> {}, user |-> "unknown",
        delivery |-> Nothing, withdrawn |-> FALSE, cleanup |-> FALSE,
        reporter |-> None]

TypeOK ==
  /\ disk \in [events : SUBSET Events, user : Users, delivery : Deliveries]
  /\ memory \in [running : BOOLEAN, events : SUBSET Events, user : Users,
                 delivery : Deliveries, withdrawn : BOOLEAN,
                 cleanup : BOOLEAN, reporter : Reports \cup {None}]
  /\ \A i \in DOMAIN queue : queue[i].kind \in Kinds
  /\ op # None => op.phase \in Phases /\ op.payload \in Payloads(op.phase)
  /\ report \in [Reports -> {"idle", "queued", "calling", "delivered",
                             "failed", "finishing"}]
  /\ bundle \in [Reports -> SUBSET Events]
  /\ captured \in 0..MaxEvents
  /\ erased \cup refused \subseteq Events
  /\ doubt \in BOOLEAN

Init ==
  /\ disk = [events |-> {}, user |-> "unknown", delivery |-> Nothing]
  /\ memory = Off
  /\ queue = <<>> /\ op = None
  /\ report = [r \in Reports |-> "idle"]
  /\ bundle = [r \in Reports |-> {}]
  /\ captured = 0 /\ erased = {} /\ refused = {} /\ acked = {}
  /\ doubt = FALSE

-----------------------------------------------------------------------------
(* The process starts: what is on disk without a granted consent is erased *)
(* before anything else is offered, and a start that cannot erase it fails.*)

Emptied(d) == [d EXCEPT !.events = {}, !.delivery = Nothing]

Initialize ==
  /\ ~memory.running
  /\ disk' = IF disk.user = "granted" THEN disk ELSE Emptied(disk)
  /\ memory' = [Off EXCEPT !.running = TRUE, !.user = disk.user,
                           !.events = disk'.events,
                           !.delivery = disk'.delivery]
  /\ doubt' = FALSE
  /\ UNCHANGED <<queue, op, report, bundle, histories>>

InitializeFails ==
  /\ ~memory.running /\ disk.user # "granted"
  /\ disk' \in {[disk EXCEPT !.events = {}],
                [disk EXCEPT !.delivery = Nothing]}
  /\ UNCHANGED <<memory, queue, op, report, bundle, histories, doubt>>

-----------------------------------------------------------------------------
(* The calls.                                                              *)

Entry(kind, r) == [kind |-> kind, by |-> r]
Room == memory.running /\ Len(queue) < MaxQueued
Enqueue(kind, r) == queue' = Append(queue, Entry(kind, r))

Ask ==
  /\ Room
  /\ \E kind \in {"capture", "grant", "delete"} : Enqueue(kind, None)
  /\ UNCHANGED <<disk, memory, op, report, bundle, histories, doubt>>

Report(r) ==
  /\ Room /\ report[r] = "idle"
  /\ report' = [report EXCEPT ![r] = "queued"]
  /\ Enqueue("report", r)
  /\ UNCHANGED <<disk, memory, op, bundle, histories, doubt>>

\* setUserConsent('denied'): what happens before its operation's turn.  The
\* sink's call is aborted.
Deny ==
  /\ Room
  /\ memory' = [memory EXCEPT !.withdrawn = TRUE, !.events = {},
                              !.delivery = Nothing, !.reporter = None]
  /\ report' = [r \in Reports |->
                  IF r = memory.reporter /\ report[r] = "calling"
                  THEN "failed" ELSE report[r]]
  /\ refused' = 1..captured
  /\ Enqueue("deny", None)
  /\ UNCHANGED <<disk, op, bundle, captured, erased, acked, doubt>>

\* The sink, outside the queue: it takes the bundle, or throws, hangs until
\* its deadline or loses the connection.
SinkAccepts(r) ==
  /\ report[r] = "calling"
  /\ report' = [report EXCEPT ![r] = "delivered"]
  /\ UNCHANGED <<disk, memory, queue, op, bundle, histories, doubt>>

SinkFails(r) ==
  /\ report[r] = "calling"
  /\ report' = [report EXCEPT ![r] = "failed"]
  /\ UNCHANGED <<disk, memory, queue, op, bundle, histories, doubt>>

\* The call's second operation keeps its outcome.
Returns(r) ==
  /\ report[r] \in {"delivered", "failed"}
  /\ ~\E i \in DOMAIN queue : queue[i] = Entry("finish", r)
  /\ Enqueue("finish", r)
  /\ UNCHANGED <<disk, memory, op, report, bundle, histories, doubt>>

\* nextAttemptAt passes.
BackoffEnds ==
  /\ memory.delivery.wait \/ disk.delivery.wait
  /\ disk' = [disk EXCEPT !.delivery.wait = FALSE]
  /\ memory' = [memory EXCEPT !.delivery.wait = FALSE]
  /\ UNCHANGED <<queue, op, report, bundle, histories, doubt>>

-----------------------------------------------------------------------------
(* Each operation's turn, up to its first write.                           *)

Turn(kind) == op = None /\ queue # <<>> /\ Head(queue).kind = kind
Runs(phase, payload) ==
  op' = [kind |-> Head(queue).kind, by |-> Head(queue).by, phase |-> phase,
         payload |-> payload]
Collecting == ~memory.withdrawn /\ memory.user = "granted"

\* The newest of a set of events, at most Kept of them.
Newest(events) ==
  {e \in events : Cardinality({f \in events : f > e}) < Kept}

Capture ==
  /\ Turn("capture")
  /\ queue' = Tail(queue)
  /\ IF Collecting /\ captured < MaxEvents
     THEN /\ Runs("events", Newest(memory.events \cup {captured + 1}))
          /\ captured' = captured + 1
     ELSE UNCHANGED <<op, captured>>
  /\ UNCHANGED <<disk, memory, report, bundle, erased, refused, acked, doubt>>

Refusal ==
  /\ Turn("deny")
  /\ queue' = Tail(queue)
  /\ memory' = [memory EXCEPT !.user = "denied"]
  /\ Runs("consent", "denied")
  /\ UNCHANGED <<disk, report, bundle, histories, doubt>>

\* setUserConsent('granted'): an erase that failed is made up for first.
Grant ==
  /\ Turn("grant")
  /\ queue' = Tail(queue)
  /\ IF memory.cleanup THEN Runs("erase", "granted")
     ELSE Runs("consent", "granted")
  /\ UNCHANGED <<disk, memory, report, bundle, histories, doubt>>

Delete ==
  /\ Turn("delete")
  /\ queue' = Tail(queue)
  /\ Runs("erase", None)
  /\ UNCHANGED <<disk, memory, report, bundle, histories, doubt>>

Pending(b) == [state |-> "pending", bundle |-> b, wait |-> TRUE]
Delivered(b) == [state |-> "delivered", bundle |-> b, wait |-> FALSE]

Retried == memory.delivery.state = "pending"

\* A slip: the retry carries the events of the moment.
Fresh == memory.events

\* A retry carries the persisted bundle, whatever was captured since.
Offered == IF Retried THEN memory.delivery.bundle ELSE memory.events

ToSend == Offered # {} /\ memory.delivery # Delivered(Offered)

\* report(), admission.
Admit ==
  LET r == Head(queue).by IN
  /\ Turn("report")
  /\ queue' = Tail(queue)
  /\ IF Collecting /\ memory.reporter = None /\ ~memory.delivery.wait /\ ToSend
     THEN /\ Runs("delivery", Pending(Offered))
          /\ UNCHANGED report
     ELSE /\ report' = [report EXCEPT ![r] = "idle"]
          /\ UNCHANGED op
  /\ UNCHANGED <<disk, memory, bundle, histories, doubt>>

\* report(), after the sink: a call that is no longer the active one changes
\* nothing.
Finish ==
  LET r == Head(queue).by
      recorded == memory.reporter = r /\ report[r] = "delivered" /\ Collecting
  IN
  /\ Turn("finish")
  /\ queue' = Tail(queue)
  /\ memory' = IF memory.reporter = r THEN [memory EXCEPT !.reporter = None]
               ELSE memory
  /\ IF recorded
     THEN /\ Runs("delivery", Delivered(bundle[r]))
          /\ report' = [report EXCEPT ![r] = "finishing"]
     ELSE /\ report' = [report EXCEPT ![r] = "idle"]
          /\ UNCHANGED op
  /\ UNCHANGED <<disk, bundle, histories, doubt>>

-----------------------------------------------------------------------------
(* The writes.                                                             *)

At(phase) == op # None /\ op.phase = phase

EventsSaved ==
  /\ At("events")
  /\ disk' = [disk EXCEPT !.events = op.payload]
  /\ memory' = [memory EXCEPT !.events = op.payload]
  /\ op' = None
  /\ UNCHANGED <<queue, report, bundle, histories, doubt>>

\* The sink is called as soon as its retry record is on disk.
DeliverySaved ==
  /\ At("delivery")
  /\ disk' = [disk EXCEPT !.delivery = op.payload]
  /\ LET admitted == op.kind = "report" IN
     /\ memory' = [memory EXCEPT !.delivery = op.payload,
                                 !.reporter = IF admitted THEN op.by ELSE @]
     /\ report' = [report EXCEPT ![op.by] =
                     IF admitted THEN "calling" ELSE "idle"]
     /\ bundle' = IF admitted
                  THEN [bundle EXCEPT ![op.by] = op.payload.bundle]
                  ELSE bundle
     /\ acked' = IF admitted THEN acked ELSE acked \cup {op.payload.bundle}
  /\ op' = None
  /\ UNCHANGED <<queue, captured, erased, refused, doubt>>

\* A refusal goes on to erase; a grant lifts the latch.
ConsentSaved ==
  /\ At("consent")
  /\ disk' = [disk EXCEPT !.user = op.payload]
  /\ IF op.payload = "denied"
     THEN op' = [op EXCEPT !.phase = "erase"] /\ UNCHANGED memory
     ELSE /\ op' = None
          /\ memory' = [memory EXCEPT !.user = "granted", !.withdrawn = FALSE]
  /\ UNCHANGED <<queue, report, bundle, histories, doubt>>

\* A slip: the pending delivery survives the erase in memory.
EventsErased == [memory EXCEPT !.events = {}]

\* deleteInternal
MemoryErased == [memory EXCEPT !.events = {}, !.delivery = Nothing]

\* A delete() leaves cleanupRequired as it is.
Erased ==
  /\ At("erase")
  /\ disk' = Emptied(disk)
  /\ memory' = IF op.payload = None THEN MemoryErased
               ELSE [MemoryErased EXCEPT !.cleanup = FALSE]
  /\ op' = IF op.payload = "granted" THEN [op EXCEPT !.phase = "consent"]
           ELSE None
  /\ erased' = 1..captured
  /\ acked' = {}
  /\ UNCHANGED <<queue, report, bundle, captured, refused, doubt>>

\* A slip: a refusal whose erase fails is not made up for.
NeedsNoCleanup == memory.cleanup
NeedsCleanup == memory.cleanup \/ op.payload = "denied"

\* Either file may have been removed.
EraseFails ==
  /\ At("erase")
  /\ disk' \in {disk, [disk EXCEPT !.events = {}],
                [disk EXCEPT !.delivery = Nothing], Emptied(disk)}
  /\ memory' = [memory EXCEPT !.cleanup = NeedsCleanup]
  /\ op' = None
  /\ acked' = {}
  /\ doubt' = (doubt \/ op.payload = None)
  /\ UNCHANGED <<queue, report, bundle, captured, erased, refused>>

SaveFails ==
  /\ op # None /\ op.phase # "erase"
  /\ disk' \in {disk, CASE op.phase = "events" ->
                             [disk EXCEPT !.events = op.payload]
                        [] op.phase = "delivery" ->
                             [disk EXCEPT !.delivery = op.payload]
                        [] op.phase = "consent" ->
                             [disk EXCEPT !.user = op.payload]}
  /\ report' = IF op.by = None THEN report
               ELSE [report EXCEPT ![op.by] = "idle"]
  /\ op' = None
  /\ doubt' = TRUE
  /\ UNCHANGED <<memory, queue, bundle, histories>>

\* The process dies, with a write under way done or not.
Crash ==
  /\ memory.running
  /\ \/ UNCHANGED disk
     \/ At("events") /\ disk' = [disk EXCEPT !.events = op.payload]
     \/ At("delivery") /\ disk' = [disk EXCEPT !.delivery = op.payload]
     \/ At("consent") /\ disk' = [disk EXCEPT !.user = op.payload]
     \/ At("erase") /\ disk' \in {[disk EXCEPT !.events = {}],
                                  [disk EXCEPT !.delivery = Nothing]}
  /\ memory' = Off
  /\ queue' = <<>> /\ op' = None
  /\ report' = [r \in Reports |-> "idle"]
  /\ acked' = IF At("erase") THEN {} ELSE acked
  /\ doubt' = FALSE
  /\ UNCHANGED <<bundle, captured, erased, refused>>

Next ==
  \/ Initialize \/ InitializeFails \/ Ask \/ Deny \/ BackoffEnds
  \/ \E r \in Reports :
       Report(r) \/ SinkAccepts(r) \/ SinkFails(r) \/ Returns(r)
  \/ Capture \/ Refusal \/ Grant \/ Delete \/ Admit \/ Finish
  \/ EventsSaved \/ DeliverySaved \/ ConsentSaved \/ Erased \/ EraseFails
  \/ SaveFails \/ Crash

Spec == Init /\ [][Next]_vars

-----------------------------------------------------------------------------
(***************************************************************************)
(* What an erase has removed stays removed: no capture, retry, late answer *)
(* of a sink, later opt-in or restart brings an event back to the queue or *)
(* to the retry record, in memory or on disk (deleteInternal, initialize). *)
(***************************************************************************)
ErasedStaysErased ==
  LET kept(part) == part.events \cup
                      (IF part.delivery.state = "pending"
                       THEN part.delivery.bundle ELSE {})
  IN  (kept(disk) \cup kept(memory)) \cap erased = {}

(***************************************************************************)
(* A restart finds what the process knew: with consent granted and no      *)
(* refusal waiting, the files hold the events and the delivery record of   *)
(* the memory, also after a withdrawal whose erase failed and a later      *)
(* opt-in (cleanupRequired), as long as no save and no delete() failed.    *)
(***************************************************************************)
RestartFindsTheSame ==
  memory.running /\ op = None /\ ~doubt /\ Collecting
    /\ (\A i \in DOMAIN queue : queue[i].kind # "deny") =>
    /\ disk.user = "granted"
    /\ disk.events = memory.events
    /\ disk.delivery = memory.delivery

(***************************************************************************)
(* An erase is for good and is all that is lost: neither a restart nor a   *)
(* failed erase that is made up for later brings back what was erased, or  *)
(* loses what was collected since.                                         *)
(***************************************************************************)
ErasuresLast == ErasedStaysErased /\ RestartFindsTheSame

(***************************************************************************)
(* A bundle whose delivery was recorded is never handed to the sink again, *)
(* and what the sink is given is what the retry record on disk held when   *)
(* the call began (report, "a matching successfully delivered bundle is    *)
(* deduplicated and is never sent again", "the exact payload").            *)
(***************************************************************************)
DeliveredOnce ==
  [][\A r \in Reports :
       report[r] # "calling" /\ report'[r] = "calling" =>
         /\ bundle'[r] \notin acked
         /\ disk'.delivery.bundle = bundle'[r]
         /\ Retried => bundle'[r] = memory.delivery.bundle]_vars

(***************************************************************************)
(* What the documentation says of a withdrawal and the code does not keep: *)
(* "Turning it off synchronously blocks collection and reporting".  A      *)
(* report whose retry record is being saved when the user opts out calls   *)
(* the sink afterwards.                                                    *)
(***************************************************************************)
WithdrawnEventsNotSent ==
  \A r \in Reports : report[r] = "calling" => bundle[r] \cap refused = {}
=============================================================================
