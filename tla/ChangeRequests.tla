--------------------------- MODULE ChangeRequests ---------------------------
(***************************************************************************)
(* AI change requests of a project: the service's transition handler reads *)
(* the request, builds the next value from it and hands that value to      *)
(* updateAIChangeRequest, which compares it with what is stored then.  In  *)
(* memory that is one step; PostgreSQL reads the stored request, validates *)
(* and updates the row if it still holds what was read.                    *)
(***************************************************************************)
EXTENDS Integers

CONSTANTS
  Requests,  \* identifiers of change requests
  Results,   \* revisions that can be a result
  Clients,   \* callers of the transition route; each has one call at a time
  MaxTime,   \* bound on the clock that stamps updates
  None

VARIABLES
  repository,  \* "memory" or "postgres"; never changes
  now,         \* the service's clock
  requests,    \* the stored requests
  call         \* each client's call of the transition route

vars == <<repository, now, requests, call>>

Lifecycles == {"queued", "running", "applied", "failed", "cancelled", "undone"}

(* allowedAITransitions.                                                   *)
Allowed ==
  {<<"queued", "running">>, <<"queued", "cancelled">>,
   <<"running", "applied">>, <<"running", "failed">>,
   <<"running", "cancelled">>, <<"applied", "undone">>,
   <<"failed", "queued">>, <<"cancelled", "queued">>}

Stored ==
  [lifecycle : Lifecycles, result : Results \cup {None},
   undo : Results \cup {None}, updated : 0..MaxTime]

(* existing is what the handler read, next what it made of it, previous    *)
(* what PostgreSQL's update read.                                          *)
Values == Stored \cup {None}
CallValues ==
  [phase : {"idle", "handling", "updating", "comparing"},
   request : Requests \cup {None}, next : Values, previous : Values]
NoCall == [phase |-> "idle", request |-> None, next |-> None,
           previous |-> None]

TypeOK ==
  /\ repository \in {"memory", "postgres"}
  /\ now \in 0..MaxTime
  /\ requests \in [Requests -> Values]
  /\ call \in [Clients -> CallValues]

Init ==
  /\ repository \in {"memory", "postgres"}
  /\ now = 0
  /\ requests = [q \in Requests |-> None]
  /\ call = [c \in Clients |-> NoCall]

Tick ==
  /\ now < MaxTime
  /\ now' = now + 1
  /\ UNCHANGED <<repository, requests, call>>

(* createAIChangeRequest: the handler makes a queued request; a second     *)
(* request with the identifier is a duplicate.                             *)
Create(q) ==
  /\ requests[q] = None
  /\ requests' = [requests EXCEPT
                    ![q] = [lifecycle |-> "queued", result |-> None,
                            undo |-> None, updated |-> now]]
  /\ UNCHANGED <<repository, now, call>>

(* The handler reads the request and decides on the action it was asked    *)
(* for; an undo takes the applied result along.                            *)
Handle(c, q, lifecycle, result) ==
  LET existing == requests[q] IN
  /\ call[c].phase = "idle" /\ existing # None
  /\ lifecycle = "undone" => existing.result # None
  /\ call' = [call EXCEPT
       ![c] = [phase |-> "handling", request |-> q, previous |-> None,
               next |-> [lifecycle |-> lifecycle,
                         result |-> CASE lifecycle = "applied" -> result
                                      [] lifecycle = "undone" ->
                                           existing.result
                                      [] OTHER -> None,
                         undo |-> IF lifecycle = "undone" THEN result
                                  ELSE None,
                         updated |-> 0]]]
  /\ UNCHANGED <<repository, now, requests>>

(* issuedAt(): the host's clock, read after everything else.               *)
Stamp(c) ==
  /\ call[c].phase = "handling"
  /\ call' = [call EXCEPT ![c].phase = "updating", ![c].next.updated = now]
  /\ UNCHANGED <<repository, now, requests>>

(* validateAIChangeRequestTransition.  A repeated transition is taken if   *)
(* it repeats the outcome.                                                 *)
Follows(previous, next) ==
  /\ next.updated >= previous.updated
  /\ \/ previous.lifecycle = next.lifecycle
        /\ previous.result = next.result /\ previous.undo = next.undo
     \/ <<previous.lifecycle, next.lifecycle>> \in Allowed
  /\ previous.lifecycle = "applied" /\ next.lifecycle = "undone" =>
       previous.result = next.result

Refuse(c) ==
  /\ call' = [call EXCEPT ![c] = NoCall]
  /\ UNCHANGED <<repository, now, requests>>

Put(c) ==
  /\ requests' = [requests EXCEPT ![call[c].request] = call[c].next]
  /\ call' = [call EXCEPT ![c] = NoCall]
  /\ UNCHANGED <<repository, now>>

UpdateInMemory(c) ==
  /\ repository = "memory" /\ call[c].phase = "updating"
  /\ IF /\ requests[call[c].request] # None
        /\ Follows(requests[call[c].request], call[c].next)
     THEN Put(c) ELSE Refuse(c)

(* PostgreSQL: read and validate ...                                       *)
ReadPrevious(c) ==
  LET previous == requests[call[c].request] IN
  /\ repository = "postgres" /\ call[c].phase = "updating"
  /\ IF previous # None /\ Follows(previous, call[c].next)
     THEN /\ call' = [call EXCEPT ![c].phase = "comparing",
                                  ![c].previous = previous]
          /\ UNCHANGED <<repository, now, requests>>
     ELSE Refuse(c)

(* Mutant: the row is found by its identifier only.                        *)
Exists(c) == requests[call[c].request] # None

(* ... and UPDATE ... WHERE the row still holds what was read.             *)
Unchanged(c) == requests[call[c].request] = call[c].previous

UpdateRow(c) ==
  /\ call[c].phase = "comparing"
  /\ IF Unchanged(c) THEN Put(c) ELSE Refuse(c)

(* The caller leaves or the process stops before the update.               *)
Abandon(c) == call[c].phase # "idle" /\ Refuse(c)

(* replaceProject: the requests of a snapshot take the place of the stored *)
(* ones; here the snapshot has none.                                       *)
Replace ==
  /\ \E q \in Requests : requests[q] # None
  /\ requests' = [q \in Requests |-> None]
  /\ UNCHANGED <<repository, now, call>>

Next ==
  \/ Tick \/ Replace
  \/ \E q \in Requests : Create(q)
  \/ \E c \in Clients :
       \/ \E q \in Requests, l \in Lifecycles, r \in Results :
            Handle(c, q, l, r)
       \/ Stamp(c) \/ UpdateInMemory(c) \/ ReadPrevious(c) \/ UpdateRow(c)
       \/ Abandon(c)

Spec == Init /\ [][Next]_vars

-----------------------------------------------------------------------------
(* Whatever clients race for it, a stored request moves along the allowed  *)
(* transitions only, its time does not run back, and the result it was     *)
(* applied with stays, also when it is undone (allowedAITransitions,       *)
(* "AI change request outcome is immutable").                              *)
RequestsFollowTheirPath ==
  [][\A q \in Requests :
       requests[q] # None /\ requests'[q] # None /\ requests'[q] # requests[q]
         =>
         /\ requests'[q].updated >= requests[q].updated
         /\ requests[q].lifecycle # requests'[q].lifecycle =>
              <<requests[q].lifecycle, requests'[q].lifecycle>> \in Allowed
         /\ requests[q].result # None =>
              requests'[q].result = requests[q].result
         /\ requests[q].undo # None =>
              requests'[q].undo = requests[q].undo]_vars

=============================================================================
