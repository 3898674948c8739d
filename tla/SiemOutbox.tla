----------------------------- MODULE SiemOutbox -----------------------------
(***************************************************************************)
(* The outbox of security events, InMemorySiemOutbox, and the batches that *)
(* deliver them, deliverSiemBatch.  A batch claims what is due under a     *)
(* lease that counts from the batch's start, its workers deliver the       *)
(* claims and settle each: acknowledged, put back for a later try, or dead *)
(* after MaxAttempts tries.  Batches overlap, deliveries hang, fail, or    *)
(* fail after the receiver has the event, and leases run out meanwhile.    *)
(***************************************************************************)
EXTENDS Integers, FiniteSets

CONSTANTS
  Events, Batches,
  MaxAttempts,  \* tries before an event is given up
  Lease,        \* seconds a claim lasts
  Capacity,     \* events and dead letters kept
  Limit,        \* claims of a batch
  Workers,      \* concurrent deliveries of a batch
  MaxClock,     \* bound: seconds
  None

VARIABLES
  clock,
  known,     \* the events that were ever enqueued
  queue,     \* events: None, or [attempts, due, claim: [batch, until]]
  dead,      \* deadLetters
  batch,     \* batches: None, or [now, workers, claims]
  received,  \* what the receiver has
  tries      \* how often each was handed to the receiver

vars == <<clock, known, queue, dead, batch, received, tries>>

Steps == {"waiting", "delivering", "delivered", "failed", "settled", "left"}

TypeOK ==
  /\ clock \in 0..MaxClock
  /\ known \subseteq Events /\ dead \subseteq known /\ received \subseteq known
  /\ \A e \in Events : queue[e] # None =>
       /\ e \in known /\ queue[e].attempts \in 0..MaxAttempts
       /\ queue[e].claim # None => queue[e].claim.batch \in Batches
  /\ \A b \in Batches : batch[b] # None =>
       /\ batch[b].now \in 0..clock /\ batch[b].workers \in 0..Workers
       /\ \A e \in DOMAIN batch[b].claims : batch[b].claims[e].step \in Steps
  /\ tries \in [Events -> Nat]

Init ==
  /\ clock = 0
  /\ known = {} /\ dead = {} /\ received = {}
  /\ queue = [e \in Events |-> None]
  /\ batch = [b \in Batches |-> None]
  /\ tries = [e \in Events |-> 0]

-----------------------------------------------------------------------------
Queued == {e \in Events : queue[e] # None}

Enqueue(e) ==
  /\ e \notin known
  /\ Cardinality(Queued) + Cardinality(dead) < Capacity
  /\ known' = known \cup {e}
  /\ queue' = [queue EXCEPT ![e] = [attempts |-> 0, due |-> clock,
                                    claim |-> None]]
  /\ UNCHANGED <<clock, dead, batch, received, tries>>

Unclaimed(e) == queue[e].claim # None => queue[e].claim.until <= clock

Due == {e \in Queued : Unclaimed(e) /\ queue[e].due <= clock}

\* claim: leases that ran out end, and at most Limit of what is due is taken.
Claim(b) ==
  /\ batch[b] = None
  /\ \E taken \in SUBSET Due :
       /\ taken = Due \/ Cardinality(taken) = Limit
       /\ Cardinality(taken) <= Limit
       /\ queue' = [e \in Events |->
            IF queue[e] = None \/ ~Unclaimed(e) THEN queue[e]
            ELSE [queue[e] EXCEPT !.claim =
                    IF e \in taken THEN [batch |-> b, until |-> clock + Lease]
                    ELSE None]]
       /\ batch' = [batch EXCEPT ![b] =
            [now |-> clock, workers |-> Workers,
             claims |-> [e \in taken |-> [attempts |-> queue[e].attempts,
                                          step |-> "waiting"]]]]
  /\ UNCHANGED <<clock, known, dead, received, tries>>

-----------------------------------------------------------------------------
\* A batch that has begun, the event is one of its claims, at this step.
At(b, e, step) ==
  /\ batch[b] # None /\ e \in DOMAIN batch[b].claims
  /\ batch[b].claims[e].step = step

To(b, e, step) == batch' = [batch EXCEPT ![b].claims[e].step = step]

Busy(b) ==
  {e \in DOMAIN batch[b].claims :
     batch[b].claims[e].step \in {"delivering", "delivered", "failed"}}

Deliver(b, e) ==
  /\ At(b, e, "waiting") /\ Cardinality(Busy(b)) < batch[b].workers
  /\ To(b, e, "delivering")
  /\ tries' = [tries EXCEPT ![e] = @ + 1]
  /\ UNCHANGED <<clock, known, queue, dead, received>>

\* The receiver answers, or fails before or after it has the event; or it
\* never answers.
Answer(b, e) ==
  /\ At(b, e, "delivering")
  /\ \/ To(b, e, "delivered") /\ received' = received \cup {e}
     \/ To(b, e, "failed") /\ received' \in {received, received \cup {e}}
  /\ UNCHANGED <<clock, known, queue, dead, tries>>

\* finish: it asks for the claim's identity, and for a lease that is not out
\* at the time the batch began.
Holds(b, e) ==
  /\ queue[e] # None /\ queue[e].claim # None
  /\ queue[e].claim.batch = b
  /\ queue[e].claim.until > batch[b].now

\* An event is deleted when its settlement left the claim in place.  A slip:
\* always.
Always(e, stored) == None
Remaining(e, stored) == IF stored.claim = None THEN stored ELSE None

Finish(e, stored) == queue' = [queue EXCEPT ![e] = Remaining(e, stored)]

\* ack; a refusal is caught like a failed delivery.
Acknowledge(b, e) ==
  /\ At(b, e, "delivered")
  /\ IF Holds(b, e) THEN Finish(e, queue[e]) /\ To(b, e, "settled")
     ELSE To(b, e, "failed") /\ UNCHANGED queue
  /\ UNCHANGED <<clock, known, dead, received, tries>>

Backoff(attempts) == 2 ^ (IF attempts < 5 THEN attempts ELSE 5)

GivenUp(b, e) == batch[b].claims[e].attempts + 1 >= MaxAttempts

\* nack or deadLetter; a refusal ends the worker.
SettleFailure(b, e) ==
  /\ At(b, e, "failed")
  /\ IF ~Holds(b, e)
     THEN /\ batch' = [batch EXCEPT ![b].claims[e].step = "left",
                                    ![b].workers = @ - 1]
          /\ UNCHANGED <<queue, dead>>
     ELSE /\ To(b, e, "settled")
          /\ IF GivenUp(b, e)
             THEN dead' = dead \cup {e} /\ Finish(e, queue[e])
             ELSE /\ Finish(e, [attempts |-> queue[e].attempts + 1,
                                due |-> batch[b].now
                                        + Backoff(batch[b].claims[e].attempts),
                                claim |-> None])
                  /\ UNCHANGED dead
  /\ UNCHANGED <<clock, known, received, tries>>

Tick ==
  /\ clock < MaxClock /\ clock' = clock + 1
  /\ UNCHANGED <<known, queue, dead, batch, received, tries>>

Next ==
  \/ \E e \in Events :
       \/ Enqueue(e)
       \/ \E b \in Batches :
            \/ Deliver(b, e) \/ Answer(b, e)
            \/ Acknowledge(b, e) \/ SettleFailure(b, e)
  \/ \E b \in Batches : Claim(b)
  \/ Tick

Spec == Init /\ [][Next]_vars

-----------------------------------------------------------------------------
(***************************************************************************)
(* However batches overlap and leases run out: an event leaves the queue   *)
(* only when the receiver has it, or as a dead letter after it was handed  *)
(* over MaxAttempts times (finish, deliverSiemBatch); what is queued is    *)
(* not dead; and two batches hold an event unsettled only when the lease   *)
(* of the first had run out before the second began (claim).               *)
(***************************************************************************)
EventsAreSettledOnce ==
  /\ \A e \in known : queue[e] = None => e \in received \cup dead
  /\ \A e \in dead : queue[e] = None /\ tries[e] >= MaxAttempts
  /\ \A b, c \in Batches, e \in Events :
       b # c /\ (\E s \in Steps \ {"settled", "left"} : At(b, e, s))
             /\ (\E s \in Steps \ {"settled", "left"} : At(c, e, s)) =>
         \/ batch[b].now + Lease <= batch[c].now
         \/ batch[c].now + Lease <= batch[b].now
=============================================================================
