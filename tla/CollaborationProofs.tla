------------------------- MODULE CollaborationProofs ------------------------
(***************************************************************************)
(* Proofs about the parts of the collaboration service around its          *)
(* projects, for any callers, threads, sessions, marks and batches.        *)
(***************************************************************************)
EXTENDS CollaborationMC, FiniteSetTheorems, SequenceTheorems,
        WellFoundedInduction, TLAPS

-----------------------------------------------------------------------------
(* The AI change requests.                                                 *)

(* What a request was applied with, and undone with, fits its lifecycle.   *)
OutcomeFits(value) ==
  /\ value.result # None => value.lifecycle \in {"applied", "undone"}
  /\ value.undo # None => value.lifecycle = "undone"

RequestsTyped ==
  /\ now \in 0..MaxTime
  /\ requests \in [Requests -> AIRequest!Values]
  /\ requestCall \in [Operations -> AIRequest!CallValues]
  /\ \A c \in Operations : requestCall[c].phase # "idle" =>
       /\ requestCall[c].request \in Requests
       /\ requestCall[c].next \in AIRequest!Stored

(* A stored request and one to be stored have the outcome of their         *)
(* lifecycle, and PostgreSQL only compares what may follow what it read.   *)
RequestsInv ==
  /\ RequestsTyped
  /\ \A q \in Requests : requests[q] # None => OutcomeFits(requests[q])
  /\ \A c \in Operations :
       /\ requestCall[c].phase # "idle" => OutcomeFits(requestCall[c].next)
       /\ requestCall[c].phase = "comparing" =>
            /\ requestCall[c].previous # None
            /\ AIRequest!Follows(requestCall[c].previous,
                                 requestCall[c].next)

\* What one step may make of a request.
Moves(q) ==
  requests[q] # None /\ requests'[q] # None /\ requests'[q] # requests[q] =>
    /\ requests'[q].updated >= requests[q].updated
    /\ requests[q].lifecycle # requests'[q].lifecycle =>
         <<requests[q].lifecycle, requests'[q].lifecycle>>
           \in AIRequest!Allowed
    /\ requests[q].result # None => requests'[q].result = requests[q].result
    /\ requests[q].undo # None => requests'[q].undo = requests[q].undo
RequestsKept == RequestsInv' /\ \A q \in Requests : Moves(q)

(* What may follow a stored request keeps its outcome.                     *)
LEMMA OutcomeStays ==
  ASSUME NEW s, NEW t, OutcomeFits(s), AIRequest!Follows(s, t)
  PROVE  /\ t.updated >= s.updated
         /\ s.lifecycle # t.lifecycle =>
              <<s.lifecycle, t.lifecycle>> \in AIRequest!Allowed
         /\ s.result # None => t.result = s.result
         /\ s.undo # None => t.undo = s.undo
<1>1. CASE s.lifecycle = t.lifecycle
  BY <1>1 DEF AIRequest!Follows, AIRequest!Allowed
<1>2. CASE s.lifecycle # t.lifecycle
  <2>1. <<s.lifecycle, t.lifecycle>> \in AIRequest!Allowed
    BY <1>2 DEF AIRequest!Follows
  <2>2. s.lifecycle # "undone"
    BY <2>1 DEF AIRequest!Allowed
  <2>3. s.lifecycle = "applied" => t.lifecycle = "undone"
    BY <2>1 DEF AIRequest!Allowed
  <2> QED BY <2>1, <2>2, <2>3 DEF AIRequest!Follows, OutcomeFits
<1> QED BY <1>1, <1>2

\* One caller's call changes.
LEMMA CallChanges ==
  ASSUME RequestsInv, NEW c \in Operations, NEW x,
         requestCall' = [requestCall EXCEPT ![c] = x],
         UNCHANGED <<now, requests>>,
         x \in AIRequest!CallValues,
         x.phase # "idle" =>
           x.request \in Requests /\ x.next \in AIRequest!Stored
             /\ OutcomeFits(x.next),
         x.phase = "comparing" =>
           x.previous # None /\ AIRequest!Follows(x.previous, x.next)
  PROVE  RequestsKept
<1>1. /\ requestCall' \in [Operations -> AIRequest!CallValues]
      /\ requestCall'[c] = x
      /\ \A d \in Operations : d # c => requestCall'[d] = requestCall[d]
  BY DEF RequestsInv, RequestsTyped
<1>2. RequestsTyped'
  BY <1>1 DEF RequestsInv, RequestsTyped, AIRequest!Values,
     AIRequest!CallValues, AIRequest!Stored
<1>3. \A d \in Operations :
        /\ requestCall'[d].phase # "idle" =>
             OutcomeFits(requestCall'[d].next)
        /\ requestCall'[d].phase = "comparing" =>
             /\ requestCall'[d].previous # None
             /\ AIRequest!Follows(requestCall'[d].previous,
                                  requestCall'[d].next)
  BY <1>1 DEF RequestsInv
<1>4. RequestsInv'
  BY <1>2, <1>3 DEF RequestsInv, OutcomeFits, AIRequest!Follows,
     AIRequest!Allowed
<1> QED BY <1>4 DEF RequestsKept, Moves

LEMMA RequestsStart ==
  ASSUME AIRequest!Init
  PROVE  RequestsInv
<1>1. AIRequest!NoCall \in AIRequest!CallValues
        /\ AIRequest!NoCall.phase = "idle"
  BY DEF AIRequest!NoCall, AIRequest!CallValues, AIRequest!Values
<1> QED BY <1>1, NumbersAssumption
        DEF AIRequest!Init, RequestsInv, RequestsTyped, AIRequest!Values

LEMMA HandleKeeps ==
  ASSUME RequestsInv, NEW c \in Operations, NEW q \in Requests,
         NEW lifecycle \in AIRequest!Lifecycles, NEW result \in Results,
         AIRequest!Handle(c, q, lifecycle, result)
  PROVE  RequestsKept
<1> DEFINE existing == requests[q]
           then == CASE lifecycle = "applied" -> result
                     [] lifecycle = "undone" -> existing.result
                     [] OTHER -> None
           undo == IF lifecycle = "undone" THEN result ELSE None
           next == [lifecycle |-> lifecycle, result |-> then, undo |-> undo,
                    updated |-> 0]
           x == [phase |-> "handling", request |-> q, previous |-> None,
                 next |-> next]
<1>1. /\ existing \in AIRequest!Stored
      /\ requestCall' = [requestCall EXCEPT ![c] = x]
      /\ UNCHANGED <<now, requests>>
  BY DEF AIRequest!Handle, RequestsInv, RequestsTyped, AIRequest!Values
<1>2. then \in Results \cup {None} /\ undo \in Results \cup {None}
  BY <1>1 DEF AIRequest!Stored
<1>3. /\ then # None => lifecycle \in {"applied", "undone"}
      /\ undo # None => lifecycle = "undone"
  OBVIOUS
<1> HIDE DEF then, undo
<1>4. next \in AIRequest!Stored /\ OutcomeFits(next)
  BY <1>2, <1>3, NumbersAssumption DEF AIRequest!Stored, OutcomeFits
<1> HIDE DEF next
<1>5. /\ x \in AIRequest!CallValues /\ x.phase = "handling"
      /\ x.request = q /\ x.next = next
  BY <1>4 DEF AIRequest!CallValues, AIRequest!Values
<1> HIDE DEF x
<1> QED BY <1>1, <1>4, <1>5, CallChanges

LEMMA StampKeeps ==
  ASSUME RequestsInv, NEW c \in Operations, AIRequest!Stamp(c)
  PROVE  RequestsKept
<1> DEFINE k == requestCall[c]
           next == [k.next EXCEPT !.updated = now]
           x == [[k EXCEPT !.phase = "updating"] EXCEPT !.next = next]
<1>1. /\ k \in AIRequest!CallValues /\ k.phase = "handling"
      /\ k.request \in Requests /\ k.next \in AIRequest!Stored
      /\ OutcomeFits(k.next) /\ now \in 0..MaxTime
  BY DEF AIRequest!Stamp, RequestsInv, RequestsTyped
<1>2. UNCHANGED <<now, requests>>
  BY DEF AIRequest!Stamp
<1>3. requestCall' = [requestCall EXCEPT ![c] = x]
  BY <1>1 DEF AIRequest!Stamp, RequestsInv, RequestsTyped,
     AIRequest!CallValues
<1>4. /\ next \in AIRequest!Stored /\ next.lifecycle = k.next.lifecycle
      /\ next.result = k.next.result /\ next.undo = k.next.undo
  BY <1>1 DEF AIRequest!Stored
<1>5. OutcomeFits(next)
  BY <1>1, <1>4 DEF OutcomeFits
<1> HIDE DEF next
<1>6. /\ x \in AIRequest!CallValues /\ x.phase = "updating"
      /\ x.request = k.request /\ x.next = next
  BY <1>1, <1>4 DEF AIRequest!CallValues, AIRequest!Values
<1> HIDE DEF x
<1> QED BY <1>1, <1>2, <1>3, <1>4, <1>5, <1>6, CallChanges

LEMMA RefuseKeeps ==
  ASSUME RequestsInv, NEW c \in Operations, AIRequest!Refuse(c)
  PROVE  RequestsKept
<1>1. AIRequest!NoCall \in AIRequest!CallValues
        /\ AIRequest!NoCall.phase = "idle"
  BY DEF AIRequest!NoCall, AIRequest!CallValues, AIRequest!Values
<1> QED BY <1>1, CallChanges DEF AIRequest!Refuse

LEMMA PutKeeps ==
  ASSUME RequestsInv, NEW c \in Operations, AIRequest!Put(c),
         requestCall[c].phase # "idle",
         AIRequest!Follows(requests[requestCall[c].request],
                           requestCall[c].next)
  PROVE  RequestsKept
<1> DEFINE q == requestCall[c].request
           next == requestCall[c].next
<1>1. /\ q \in Requests /\ next \in AIRequest!Stored /\ OutcomeFits(next)
      /\ requests' = [requests EXCEPT ![q] = next] /\ now' = now
      /\ requestCall' = [requestCall EXCEPT ![c] = AIRequest!NoCall]
  BY DEF AIRequest!Put, RequestsInv, RequestsTyped
<1>2. AIRequest!Follows(requests[q], next)
  OBVIOUS
<1>3. AIRequest!NoCall \in AIRequest!CallValues
        /\ AIRequest!NoCall.phase = "idle"
  BY DEF AIRequest!NoCall, AIRequest!CallValues, AIRequest!Values
<1> HIDE DEF q, next
<1>4. /\ requests' \in [Requests -> AIRequest!Values]
      /\ requests'[q] = next
      /\ \A p \in Requests : p # q => requests'[p] = requests[p]
  BY <1>1 DEF RequestsInv, RequestsTyped, AIRequest!Values
<1>5. /\ requestCall' \in [Operations -> AIRequest!CallValues]
      /\ requestCall'[c].phase = "idle"
      /\ \A d \in Operations : d # c => requestCall'[d] = requestCall[d]
  BY <1>1, <1>3 DEF RequestsInv, RequestsTyped
<1>6. RequestsTyped'
  BY <1>1, <1>4, <1>5
  DEF RequestsInv, RequestsTyped, AIRequest!Values, AIRequest!CallValues,
      AIRequest!Stored
<1>7. RequestsInv'
  <2>1. \A p \in Requests : requests'[p] # None => OutcomeFits(requests'[p])
    BY <1>1, <1>4 DEF RequestsInv
  <2>2. ASSUME NEW d \in Operations, requestCall'[d].phase # "idle"
        PROVE  d # c /\ requestCall'[d] = requestCall[d]
    BY <1>5, <2>2
  <2>3. ASSUME NEW d \in Operations
        PROVE  /\ requestCall'[d].phase # "idle" =>
                    OutcomeFits(requestCall'[d].next)
               /\ requestCall'[d].phase = "comparing" =>
                    /\ requestCall'[d].previous # None
                    /\ AIRequest!Follows(requestCall'[d].previous,
                                         requestCall'[d].next)
    BY <2>2 DEF RequestsInv
  <2> QED BY <1>6, <2>1, <2>3
      DEF RequestsInv, OutcomeFits, AIRequest!Follows, AIRequest!Allowed
<1>8. \A p \in Requests : Moves(p)
  <2> SUFFICES ASSUME NEW p \in Requests PROVE Moves(p)
    OBVIOUS
  <2>1. CASE p # q
    BY <1>4, <2>1 DEF Moves
  <2>2. CASE p = q /\ requests[q] # None
    BY <1>2, <1>4, <2>2, OutcomeStays DEF RequestsInv, Moves
  <2>3. CASE requests[p] = None
    BY <2>3 DEF Moves
  <2> QED BY <2>1, <2>2, <2>3
<1> QED BY <1>7, <1>8 DEF RequestsKept

LEMMA UpdateKeeps ==
  ASSUME RequestsInv, NEW c \in Operations,
         AIRequest!UpdateInMemory(c) \/ AIRequest!ReadPrevious(c)
           \/ AIRequest!UpdateRow(c) \/ AIRequest!Abandon(c)
  PROVE  RequestsKept
<1>1. CASE AIRequest!Refuse(c)
  BY <1>1, RefuseKeeps
<1>2. CASE AIRequest!UpdateInMemory(c) /\ AIRequest!Put(c)
             /\ ~AIRequest!Refuse(c)
  BY <1>2, PutKeeps DEF AIRequest!UpdateInMemory
<1>3. CASE AIRequest!UpdateRow(c) /\ AIRequest!Put(c)
             /\ ~AIRequest!Refuse(c)
  <2>1. /\ requestCall[c].phase = "comparing"
        /\ requests[requestCall[c].request] = requestCall[c].previous
    BY <1>3 DEF AIRequest!UpdateRow, AIRequest!Unchanged
  <2>2. AIRequest!Follows(requests[requestCall[c].request],
                          requestCall[c].next)
    BY <2>1 DEF RequestsInv
  <2> QED BY <1>3, <2>1, <2>2, PutKeeps
<1>4. CASE AIRequest!ReadPrevious(c) /\ ~AIRequest!Refuse(c)
  <2> DEFINE k == requestCall[c]
             previous == requests[k.request]
             x == [[k EXCEPT !.phase = "comparing"]
                     EXCEPT !.previous = previous]
  <2>1. /\ k \in AIRequest!CallValues /\ k.phase = "updating"
        /\ k.request \in Requests /\ k.next \in AIRequest!Stored
        /\ OutcomeFits(k.next)
        /\ previous # None /\ AIRequest!Follows(previous, k.next)
        /\ previous \in AIRequest!Values
        /\ UNCHANGED <<now, requests>>
    BY <1>4 DEF AIRequest!ReadPrevious, RequestsInv, RequestsTyped
  <2>2. requestCall' = [requestCall EXCEPT ![c] = x]
    BY <1>4, <2>1 DEF AIRequest!ReadPrevious, RequestsInv, RequestsTyped,
       AIRequest!CallValues
  <2> HIDE DEF previous
  <2>3. /\ x \in AIRequest!CallValues /\ x.phase = "comparing"
        /\ x.request = k.request /\ x.next = k.next
        /\ x.previous = previous
    BY <2>1 DEF AIRequest!CallValues
  <2> HIDE DEF x
  <2> QED BY <2>1, <2>2, <2>3, CallChanges
<1> QED
  BY <1>1, <1>2, <1>3, <1>4
  DEF AIRequest!UpdateInMemory, AIRequest!UpdateRow, AIRequest!Abandon

LEMMA RequestsStep ==
  ASSUME RequestsInv, [AIRequest!Next]_(AIRequest!vars)
  PROVE  RequestsKept
<1>1. CASE UNCHANGED <<requests, requestCall>> /\ now' \in 0..MaxTime
  <2>1. RequestsInv'
    BY <1>1
    DEF RequestsInv, RequestsTyped, OutcomeFits, AIRequest!Follows,
        AIRequest!Allowed, AIRequest!Values, AIRequest!CallValues,
        AIRequest!Stored
  <2> QED BY <1>1, <2>1 DEF RequestsKept, Moves
<1>2. CASE AIRequest!Tick \/ UNCHANGED AIRequest!vars
  BY <1>1, <1>2, NumbersAssumption
  DEF AIRequest!Tick, AIRequest!vars, RequestsInv, RequestsTyped
<1>3. CASE AIRequest!Replace \/ \E q \in Requests : AIRequest!Create(q)
  <2>1. /\ UNCHANGED <<now, requestCall>>
        /\ \/ requests' = [q \in Requests |-> None]
           \/ \E q \in Requests :
                /\ requests[q] = None
                /\ requests' = [requests EXCEPT ![q] =
                     [lifecycle |-> "queued", result |-> None,
                      undo |-> None, updated |-> now]]
    BY <1>3 DEF AIRequest!Replace, AIRequest!Create
  <2>2. /\ requests' \in [Requests -> AIRequest!Values]
        /\ \A q \in Requests :
             \/ requests'[q] = None \/ requests'[q] = requests[q]
             \/ requests[q] = None /\ OutcomeFits(requests'[q])
    BY <2>1 DEF RequestsInv, RequestsTyped, AIRequest!Values,
       AIRequest!Stored, AIRequest!Lifecycles, OutcomeFits
  <2>3. RequestsInv'
    BY <2>1, <2>2
    DEF RequestsInv, RequestsTyped, OutcomeFits, AIRequest!Follows,
        AIRequest!Allowed, AIRequest!Values, AIRequest!CallValues,
        AIRequest!Stored
  <2> QED BY <2>2, <2>3 DEF RequestsKept, Moves
<1>4. ASSUME NEW c \in Operations,
             \/ \E q \in Requests, l \in AIRequest!Lifecycles,
                   r \in Results : AIRequest!Handle(c, q, l, r)
             \/ AIRequest!Stamp(c) \/ AIRequest!UpdateInMemory(c)
             \/ AIRequest!ReadPrevious(c) \/ AIRequest!UpdateRow(c)
             \/ AIRequest!Abandon(c)
      PROVE  RequestsKept
  BY <1>4, HandleKeeps, StampKeeps, UpdateKeeps
<1> QED BY <1>2, <1>3, <1>4 DEF AIRequest!Next

(* A stored change request only moves along the allowed transitions, and   *)
(* what it was applied with stays, whatever callers race for it.           *)
THEOREM RequestsFollow == AIRequest!Spec => RequestsFollowTheirPath
<1>1. AIRequest!Init => RequestsInv
  BY RequestsStart
<1>2. RequestsInv /\ [AIRequest!Next]_(AIRequest!vars) => RequestsInv'
  BY RequestsStep DEF RequestsKept
<1>3. RequestsInv /\ [AIRequest!Next]_(AIRequest!vars) =>
        [\A q \in Requests : Moves(q)]_(AIRequest!vars)
  BY RequestsStep DEF RequestsKept
<1> QED BY <1>1, <1>2, <1>3, PTL DEF AIRequest!Spec,
       RequestsFollowTheirPath, AIRequest!RequestsFollowTheirPath, Moves

-----------------------------------------------------------------------------
(* Sign-in.                                                                *)

Versions == 1..MaxAccess
Sessions == [access : {None} \cup Versions, live : BOOLEAN]
Asking == [step : Browser!Steps, on : Transactions \cup Calls \cup {None},
           seen : {None} \cup Versions, access : {None} \cup Versions,
           begun : Versions, exchanged : BOOLEAN, ended : BOOLEAN]
Late == [step : {"consuming", "binding", "revoking", "ending"},
         on : Transactions \cup Calls \cup {None},
         access : {None} \cup Versions]

SignInTyped ==
  /\ transactions \in [Transactions -> {"none", "open", "gone"}]
  /\ sessions \in [Calls -> Sessions \cup {None}]
  /\ member \in [access : Versions, active : BOOLEAN]
  /\ signIn \in [Calls -> Asking]
  /\ late \subseteq Late

\* The steps of a request that carries a session's cookie.
OnSession == {"reading", "resolving", "binding", "rereading", "revoking",
              "ending", "authenticated"}

(* What a request's step says of its transaction or session.               *)
RequestFits(r) ==
  LET q == signIn[r] IN
  /\ sessions[r] # None <=> q.step = "signed_in"
  /\ q.begun <= member.access
  /\ q.step = "consuming" => q.on \in Transactions
  /\ q.step = "idle" => ~q.exchanged /\ ~q.ended
  /\ q.step \in OnSession =>
       /\ q.on \in Calls /\ sessions[q.on] # None /\ ~q.exchanged
       /\ ~q.ended
  /\ q.step \in {"consuming", "exchanging"} => ~q.exchanged /\ ~q.ended
  /\ q.step = "resolving" /\ q.seen # None =>
       sessions[q.on].access = q.seen
  /\ q.step \in {"binding", "rereading", "authenticated"} =>
       q.access \in Versions /\ q.access >= q.begun
  /\ q.step = "authenticated" => sessions[q.on].access = q.access

\* A request has the transaction's code to exchange, or has exchanged it.
Exchanges(r) == signIn[r].step = "exchanging" \/ signIn[r].exchanged

(* What was consumed is gone, and was consumed by one request only.        *)
TakenOnce ==
  /\ \A r \in Calls :
       /\ Exchanges(r) =>
            /\ signIn[r].on \in Transactions
            /\ transactions[signIn[r].on] = "gone"
       /\ signIn[r].ended =>
            /\ signIn[r].on \in Calls /\ sessions[signIn[r].on] # None
            /\ ~sessions[signIn[r].on].live
  /\ \A q, r \in Calls : q # r /\ signIn[q].on = signIn[r].on =>
       /\ ~(Exchanges(q) /\ Exchanges(r))
       /\ ~(signIn[q].ended /\ signIn[r].ended)

SignInInv ==
  /\ SignInTyped /\ TakenOnce /\ \A r \in Calls : RequestFits(r)
  /\ \A l \in late :
       /\ l.step = "consuming" => l.on \in Transactions
       /\ l.step # "consuming" => l.on \in Calls

LEMMA SignInStart ==
  ASSUME Browser!Init
  PROVE  SignInInv
<1>1. SignInTyped
  BY NumbersAssumption
  DEF Browser!Init, SignInTyped, Asking, Versions, Browser!Steps
<1>2. TakenOnce /\ \A r \in Calls : RequestFits(r)
  BY DEF Browser!Init, TakenOnce, Exchanges, RequestFits, OnSession
<1> QED BY <1>1, <1>2 DEF Browser!Init, SignInInv

(* The steps of the store: what happens to transactions and sessions.      *)
LEMMA StoreSteps ==
  ASSUME SignInInv
  PROVE  /\ \A t \in Transactions :
              /\ Browser!Consumed(t)
                   \in [Transactions -> {"none", "open", "gone"}]
              /\ Browser!Consumed(t)[t] = "gone"
              /\ \A u \in Transactions : u # t =>
                   Browser!Consumed(t)[u] = transactions[u]
         /\ \A s \in Calls :
              /\ Browser!Ended(s) \in [Calls -> Sessions \cup {None}]
              /\ sessions[s] # None =>
                   /\ Browser!Ended(s)[s] # None
                   /\ Browser!Ended(s)[s].access = sessions[s].access
                   /\ ~Browser!Ended(s)[s].live
              /\ sessions[s] = None => Browser!Ended(s)[s] = None
              /\ \A u \in Calls : u # s =>
                   Browser!Ended(s)[u] = sessions[u]
         /\ \A s \in Calls, a \in {None} \cup Versions :
              /\ Browser!Bound(s, a) \in [Calls -> Sessions \cup {None}]
              /\ Browser!Bindable(s) =>
                   /\ sessions[s] # None /\ sessions[s].access = None
                   /\ sessions[s].live
                   /\ Browser!Bound(s, a)[s] # None
                   /\ Browser!Bound(s, a)[s].access = a
                   /\ Browser!Bound(s, a)[s].live = sessions[s].live
              /\ ~Browser!Bindable(s) =>
                   Browser!Bound(s, a)[s] = sessions[s]
              /\ \A u \in Calls : u # s =>
                   Browser!Bound(s, a)[u] = sessions[u]
<1>1. /\ transactions \in [Transactions -> {"none", "open", "gone"}]
      /\ sessions \in [Calls -> Sessions \cup {None}]
  BY DEF SignInInv, SignInTyped
<1>2. None \notin Sessions
  BY NothingAssumption DEF Sessions, Versions
<1>4. ASSUME NEW s \in Calls
      PROVE  /\ Browser!Ended(s) \in [Calls -> Sessions \cup {None}]
             /\ sessions[s] # None =>
                  /\ Browser!Ended(s)[s] # None
                  /\ Browser!Ended(s)[s].access = sessions[s].access
                  /\ ~Browser!Ended(s)[s].live
             /\ sessions[s] = None => Browser!Ended(s)[s] = None
             /\ \A u \in Calls : u # s =>
                  Browser!Ended(s)[u] = sessions[u]
  <2>1. CASE sessions[s] = None
    BY <1>1, <2>1 DEF Browser!Ended
  <2>2. CASE sessions[s] # None
    <3> DEFINE x == [sessions[s] EXCEPT !.live = FALSE]
    <3>1. /\ x \in Sessions /\ x.access = sessions[s].access /\ ~x.live
      <4>1. sessions[s] \in Sessions
        BY <1>1, <2>2
      <4> QED BY <4>1 DEF Sessions
    <3>2. Browser!Ended(s) = [sessions EXCEPT ![s] = x]
      BY <1>1, <2>2 DEF Browser!Ended
    <3> HIDE DEF x
    <3> QED BY <1>1, <1>2, <2>2, <3>1, <3>2
  <2> QED BY <2>1, <2>2
<1>5. ASSUME NEW s \in Calls, NEW a \in {None} \cup Versions
      PROVE  /\ Browser!Bound(s, a) \in [Calls -> Sessions \cup {None}]
             /\ Browser!Bindable(s) =>
                  /\ sessions[s] # None /\ sessions[s].access = None
                  /\ sessions[s].live
                  /\ Browser!Bound(s, a)[s] # None
                  /\ Browser!Bound(s, a)[s].access = a
                  /\ Browser!Bound(s, a)[s].live = sessions[s].live
             /\ ~Browser!Bindable(s) =>
                  Browser!Bound(s, a)[s] = sessions[s]
             /\ \A u \in Calls : u # s =>
                  Browser!Bound(s, a)[u] = sessions[u]
  <2>1. CASE ~Browser!Bindable(s)
    BY <1>1, <2>1 DEF Browser!Bound
  <2>2. CASE Browser!Bindable(s)
    <3> DEFINE x == [sessions[s] EXCEPT !.access = a]
    <3>1. /\ sessions[s] # None /\ sessions[s].access = None
          /\ sessions[s].live
      BY <2>2 DEF Browser!Bindable, Browser!Live
    <3>2. x \in Sessions /\ x.access = a /\ x.live = sessions[s].live
      <4>1. sessions[s] \in Sessions
        BY <1>1, <3>1
      <4> QED BY <4>1 DEF Sessions
    <3>3. Browser!Bound(s, a) = [sessions EXCEPT ![s] = x]
      BY <1>1, <2>2 DEF Browser!Bound
    <3> HIDE DEF x
    <3> QED BY <1>1, <1>2, <2>2, <3>1, <3>2, <3>3
  <2> QED BY <2>1, <2>2
<1> QED BY <1>1, <1>4, <1>5 DEF Browser!Consumed

(* The store only moves on: what is gone stays gone, a session keeps the   *)
(* access it was bound to and, once over, is not live again.               *)
StoreGrows ==
  /\ transactions' \in [Transactions -> {"none", "open", "gone"}]
  /\ sessions' \in [Calls -> Sessions \cup {None}]
  /\ \A t \in Transactions :
       transactions[t] = "gone" => transactions'[t] = "gone"
  /\ \A s \in Calls : sessions[s] # None =>
       /\ sessions'[s] # None
       /\ sessions[s].access # None =>
            sessions'[s].access = sessions[s].access
       /\ ~sessions[s].live => ~sessions'[s].live

LateFits ==
  \A l \in late :
    /\ l \in Late
    /\ l.step = "consuming" => l.on \in Transactions
    /\ l.step # "consuming" => l.on \in Calls

\* A request that does not move still fits.
LEMMA OthersFit ==
  ASSUME SignInInv, StoreGrows, NEW q \in Calls, signIn'[q] = signIn[q],
         sessions'[q] # None => sessions[q] # None,
         member'.access \in Versions, member'.access >= member.access
  PROVE  RequestFits(q)'
<1>1. /\ RequestFits(q) /\ signIn[q] \in Asking
      /\ None \notin Versions /\ Versions \subseteq Nat
      /\ member.access \in Versions
  BY NothingAssumption DEF SignInInv, SignInTyped, Versions
<1>2. sessions'[q] # None <=> sessions[q] # None
  BY DEF StoreGrows
<1>3. signIn[q].begun <= member'.access
  BY <1>1 DEF RequestFits, Asking, Versions
<1>4. signIn[q].step \in OnSession =>
        /\ sessions'[signIn[q].on] # None
        /\ sessions[signIn[q].on].access # None =>
             sessions'[signIn[q].on].access = sessions[signIn[q].on].access
  BY <1>1 DEF RequestFits, StoreGrows
<1> QED BY <1>1, <1>2, <1>3, <1>4 DEF RequestFits, OnSession, Versions

LEMMA StoreMoves ==
  ASSUME SignInInv, StoreGrows, signIn' = signIn,
         \A s \in Calls : sessions'[s] # None => sessions[s] # None,
         member' \in [access : Versions, active : BOOLEAN],
         member'.access >= member.access,
         LateFits'
  PROVE  SignInInv'
<1>1. \A q \in Calls : RequestFits(q)'
  BY OthersFit
<1>2. SignInTyped'
  BY DEF SignInInv, SignInTyped, StoreGrows, LateFits, Versions, Sessions,
         Asking, Late
<1>3. TakenOnce'
  BY DEF SignInInv, TakenOnce, Exchanges, StoreGrows
<1> QED BY <1>1, <1>2, <1>3 DEF SignInInv, LateFits

LEMMA RequestMoves ==
  ASSUME SignInInv, StoreGrows, NEW r \in Calls, NEW x \in Asking,
         signIn' = [signIn EXCEPT ![r] = x], member' = member,
         \A s \in Calls : s # r /\ sessions'[s] # None =>
           sessions[s] # None,
         LateFits',
         RequestFits(r)',
         x.step = "exchanging" \/ x.exchanged =>
           /\ x.on \in Transactions /\ x.on = signIn[r].on
           /\ transactions'[x.on] = "gone"
           /\ Exchanges(r) \/ transactions[x.on] # "gone",
         x.ended =>
           /\ x.on \in Calls /\ x.on = signIn[r].on
           /\ signIn[r].ended
                \/ /\ sessions[x.on] # None /\ sessions[x.on].live
                   /\ sessions'[x.on] # None /\ ~sessions'[x.on].live
  PROVE  SignInInv'
<1>1. /\ signIn' \in [Calls -> Asking] /\ signIn'[r] = x
      /\ \A q \in Calls : q # r => signIn'[q] = signIn[q]
  BY DEF SignInInv, SignInTyped
<1>2. member.access \in Versions /\ member.access >= member.access
  BY DEF SignInInv, SignInTyped, Versions
<1>3. \A q \in Calls : RequestFits(q)'
  BY <1>1, <1>2, OthersFit
<1>4. SignInTyped'
  BY <1>1 DEF SignInInv, SignInTyped, StoreGrows, LateFits, Versions,
     Sessions, Asking, Late
<1>5. \A q \in Calls :
        /\ Exchanges(q)' =>
             /\ signIn'[q].on \in Transactions
             /\ transactions'[signIn'[q].on] = "gone"
        /\ signIn'[q].ended =>
             /\ signIn'[q].on \in Calls /\ sessions'[signIn'[q].on] # None
             /\ ~sessions'[signIn'[q].on].live
  BY <1>1 DEF SignInInv, TakenOnce, Exchanges, StoreGrows
<1>6. ASSUME NEW q \in Calls, NEW p \in Calls, q # p,
             signIn'[q].on = signIn'[p].on
      PROVE  /\ ~(Exchanges(q)' /\ Exchanges(p)')
             /\ ~(signIn'[q].ended /\ signIn'[p].ended)
  <2>1. ASSUME NEW o \in Calls, o # r, signIn[o].on = x.on
        PROVE  /\ ~(Exchanges(o)' /\ Exchanges(r)')
               /\ ~(signIn'[o].ended /\ signIn'[r].ended)
    BY <1>1, <2>1 DEF SignInInv, TakenOnce, Exchanges
  <2>2. CASE q # r /\ p # r
    BY <1>1, <1>6, <2>2 DEF SignInInv, TakenOnce, Exchanges
  <2>3. CASE q = r \/ p = r
    BY <1>1, <1>6, <2>1, <2>3
  <2> QED BY <2>2, <2>3
<1>7. TakenOnce'
  BY <1>5, <1>6 DEF TakenOnce
<1> QED BY <1>3, <1>4, <1>7 DEF SignInInv, LateFits

\* A request that goes on to another step.
LEMMA StepOf ==
  ASSUME SignInInv, NEW r \in Calls, NEW step \in Browser!Steps,
         Browser!To(r, step)
  PROVE  \E x \in Asking :
           /\ signIn' = [signIn EXCEPT ![r] = x] /\ signIn'[r] = x
           /\ x.step = step /\ x.on = signIn[r].on
           /\ x.seen = signIn[r].seen /\ x.access = signIn[r].access
           /\ x.begun = signIn[r].begun
           /\ x.exchanged <=> signIn[r].exchanged
           /\ x.ended <=> signIn[r].ended
<1> DEFINE x == [signIn[r] EXCEPT !.step = step]
<1>1. signIn[r] \in Asking /\ signIn' = [signIn EXCEPT ![r] = x]
  BY DEF SignInInv, SignInTyped, Browser!To
<1>2. /\ x \in Asking
      /\ x.step = step /\ x.on = signIn[r].on
      /\ x.seen = signIn[r].seen /\ x.access = signIn[r].access
      /\ x.begun = signIn[r].begun
      /\ x.exchanged <=> signIn[r].exchanged
      /\ x.ended <=> signIn[r].ended
  BY <1>1 DEF Asking
<1> HIDE DEF x
<1>3. signIn'[r] = x
  BY <1>1 DEF SignInInv, SignInTyped
<1> QED BY <1>1, <1>2, <1>3

\* No session is made.
NoneMade == \A s \in Calls : sessions'[s] # None => sessions[s] # None

(* What each of the store's steps means for the store.                     *)
LEMMA StoreCalls ==
  ASSUME SignInInv
  PROVE  /\ UNCHANGED <<transactions, sessions>> => StoreGrows /\ NoneMade
         /\ \A t \in Transactions :
              transactions' = Browser!Consumed(t) /\ sessions' = sessions =>
                StoreGrows /\ NoneMade /\ transactions'[t] = "gone"
         /\ \A s \in Calls :
              sessions' = Browser!Ended(s) /\ transactions' = transactions =>
                /\ StoreGrows /\ NoneMade
                /\ sessions[s] # None => ~sessions'[s].live
         /\ \A s \in Calls, a \in {None} \cup Versions :
              sessions' = Browser!Bound(s, a)
                /\ transactions' = transactions =>
                  /\ StoreGrows /\ NoneMade
                  /\ Browser!Bindable(s) => sessions'[s].access = a
<1>1. /\ transactions \in [Transactions -> {"none", "open", "gone"}]
      /\ sessions \in [Calls -> Sessions \cup {None}]
  BY DEF SignInInv, SignInTyped
<1>2. UNCHANGED <<transactions, sessions>> => StoreGrows /\ NoneMade
  BY <1>1 DEF StoreGrows, NoneMade
<1>3. ASSUME NEW t \in Transactions, sessions' = sessions,
             transactions' = Browser!Consumed(t)
      PROVE  StoreGrows /\ NoneMade /\ transactions'[t] = "gone"
  BY <1>1, <1>3, StoreSteps DEF StoreGrows, NoneMade
<1>4. ASSUME NEW s \in Calls, sessions' = Browser!Ended(s),
             transactions' = transactions
      PROVE  /\ StoreGrows /\ NoneMade
             /\ sessions[s] # None => ~sessions'[s].live
  <2>1. /\ sessions' \in [Calls -> Sessions \cup {None}]
        /\ sessions[s] # None =>
             /\ sessions'[s] # None
             /\ sessions'[s].access = sessions[s].access
             /\ ~sessions'[s].live
        /\ sessions[s] = None => sessions'[s] = None
        /\ \A u \in Calls : u # s => sessions'[u] = sessions[u]
    BY <1>4, StoreSteps
  <2> QED BY <1>1, <1>4, <2>1 DEF StoreGrows, NoneMade
<1>5. ASSUME NEW s \in Calls, NEW a \in {None} \cup Versions,
             sessions' = Browser!Bound(s, a), transactions' = transactions
      PROVE  /\ StoreGrows /\ NoneMade
             /\ Browser!Bindable(s) => sessions'[s].access = a
  <2>1. /\ sessions' \in [Calls -> Sessions \cup {None}]
        /\ Browser!Bindable(s) =>
             /\ sessions[s] # None /\ sessions[s].access = None
             /\ sessions[s].live
             /\ sessions'[s] # None /\ sessions'[s].access = a
             /\ sessions'[s].live = sessions[s].live
        /\ ~Browser!Bindable(s) => sessions'[s] = sessions[s]
        /\ \A u \in Calls : u # s => sessions'[u] = sessions[u]
    BY <1>5, StoreSteps
  <2> QED BY <1>1, <1>5, <2>1 DEF StoreGrows, NoneMade
<1> QED BY <1>2, <1>3, <1>4, <1>5

\* A step that has neither a code nor tokens in hand.
LEMMA StepsKeep ==
  ASSUME SignInInv, StoreGrows, NoneMade, NEW r \in Calls,
         NEW step \in Browser!Steps, Browser!To(r, step),
         step # "exchanging", member' = member, LateFits', RequestFits(r)'
  PROVE  SignInInv'
<1>1. PICK x \in Asking :
        /\ signIn' = [signIn EXCEPT ![r] = x] /\ signIn'[r] = x
        /\ x.step = step /\ x.on = signIn[r].on
        /\ x.exchanged <=> signIn[r].exchanged
        /\ x.ended <=> signIn[r].ended
  BY StepOf
<1>2. x.exchanged =>
        /\ x.on \in Transactions /\ transactions'[x.on] = "gone"
        /\ Exchanges(r)
  BY <1>1 DEF SignInInv, TakenOnce, Exchanges, StoreGrows
<1>3. x.ended => x.on \in Calls /\ signIn[r].ended
  BY <1>1 DEF SignInInv, TakenOnce
<1>4. \A s \in Calls : s # r /\ sessions'[s] # None => sessions[s] # None
  BY DEF NoneMade
<1> QED BY <1>1, <1>2, <1>3, <1>4, RequestMoves

LEMMA AsksKeeps ==
  ASSUME SignInInv, NEW r \in Calls, NEW on, NEW step,
         Browser!Asks(r, on, step),
         \/ on \in Transactions /\ step = "consuming"
         \/ /\ on \in Calls /\ step \in {"reading", "ending"}
            /\ Browser!At(on, "signed_in")
  PROVE  SignInInv'
<1> DEFINE q == signIn[r]
           x == [[[q EXCEPT !.step = step] EXCEPT !.on = on]
                   EXCEPT !.begun = member.access]
<1>1. /\ q \in Asking /\ q.step = "idle" /\ ~q.exchanged /\ ~q.ended
      /\ RequestFits(r) /\ member.access \in Versions
      /\ step \in Browser!Steps
      /\ on \in Transactions \cup Calls \cup {None}
      /\ UNCHANGED <<transactions, sessions, member, late>>
      /\ signIn' = [signIn EXCEPT ![r] = x]
  BY DEF SignInInv, SignInTyped, RequestFits, Browser!Asks, Browser!At,
     Browser!Steps, Browser!StoreSteps, Asking
<1>2. /\ x \in Asking /\ x.step = step /\ x.on = on
      /\ x.begun = member.access /\ ~x.exchanged /\ ~x.ended
  BY <1>1 DEF Asking
<1> HIDE DEF x
<1>3. signIn'[r] = x
  BY <1>1 DEF SignInInv, SignInTyped
<1>4. StoreGrows /\ NoneMade /\ LateFits'
  BY <1>1, StoreCalls DEF SignInInv, SignInTyped, LateFits
<1>5. on \in Calls => sessions[on] # None \/ step = "consuming"
  BY DEF Browser!At, SignInInv, RequestFits
<1>6. RequestFits(r)'
  BY <1>1, <1>2, <1>3, <1>5 DEF RequestFits, OnSession, Versions
<1> QED BY <1>1, <1>2, <1>4, <1>6, RequestMoves DEF NoneMade

\* What is known of a request that moves on, and of what it moves to.
LEMMA Before ==
  ASSUME SignInInv, NEW r \in Calls
  PROVE  /\ signIn[r] \in Asking /\ RequestFits(r) /\ LateFits
         /\ member \in [access : Versions, active : BOOLEAN]
         /\ Versions \subseteq Nat /\ None \notin Versions
         /\ sessions \in [Calls -> Sessions \cup {None}]
         /\ transactions \in [Transactions -> {"none", "open", "gone"}]
BY NothingAssumption
DEF SignInInv, SignInTyped, LateFits, Versions

LEMMA ConsumeKeeps ==
  ASSUME SignInInv, NEW r \in Calls, Browser!Consume(r)
  PROVE  SignInInv'
<1> DEFINE t == signIn[r].on
<1>1. /\ signIn[r].step = "consuming" /\ t \in Transactions
      /\ ~signIn[r].exchanged /\ ~signIn[r].ended
      /\ transactions' = Browser!Consumed(t)
      /\ UNCHANGED <<sessions, member, late>>
      /\ RequestFits(r) /\ LateFits /\ Versions \subseteq Nat
  BY Before DEF Browser!Consume, Browser!At, RequestFits
<1>2. StoreGrows /\ NoneMade /\ LateFits' /\ transactions'[t] = "gone"
  BY <1>1, StoreCalls DEF LateFits
<1>3. ASSUME NEW step \in {"exchanging", "failed"}, Browser!To(r, step)
      PROVE  /\ RequestFits(r)' /\ step \in Browser!Steps
             /\ signIn'[r].step = step
  <2>1. step \in Browser!Steps
    BY <1>3 DEF Browser!Steps, Browser!StoreSteps
  <2>2. PICK x \in Asking :
          /\ signIn'[r] = x /\ x.step = step /\ x.begun = signIn[r].begun
          /\ x.exchanged <=> signIn[r].exchanged
          /\ x.ended <=> signIn[r].ended
    BY <1>3, <2>1, StepOf
  <2> QED BY <1>1, <1>3, <2>1, <2>2 DEF RequestFits, OnSession
<1>4. CASE Browser!To(r, "failed")
  BY <1>1, <1>2, <1>3, <1>4, StepsKeep
<1>5. CASE transactions[t] = "open" /\ Browser!To(r, "exchanging")
  <2>1. RequestFits(r)' /\ "exchanging" \in Browser!Steps
    BY <1>3, <1>5
  <2>2. PICK x \in Asking :
          /\ signIn' = [signIn EXCEPT ![r] = x] /\ signIn'[r] = x
          /\ x.step = "exchanging" /\ x.on = t
          /\ x.exchanged <=> signIn[r].exchanged
          /\ x.ended <=> signIn[r].ended
    BY <1>5, <2>1, StepOf
  <2> HIDE DEF t
  <2>3. x.on \in Transactions /\ transactions'[x.on] = "gone"
        /\ transactions[x.on] # "gone"
    BY <1>1, <1>2, <1>5, <2>2
  <2> QED BY <1>1, <1>2, <2>1, <2>2, <2>3, RequestMoves DEF NoneMade, t
<1> QED BY <1>4, <1>5 DEF Browser!Consume

LEMMA ExchangeKeeps ==
  ASSUME SignInInv, NEW r \in Calls, Browser!Exchange(r)
  PROVE  SignInInv'
<1> PICK step \in {"creating", "failed"} :
      signIn' = [signIn EXCEPT ![r].step = step, ![r].exchanged = TRUE]
  BY DEF Browser!Exchange
<1> DEFINE q == signIn[r]
           x == [[q EXCEPT !.step = step] EXCEPT !.exchanged = TRUE]
<1>1. /\ q \in Asking /\ q.step = "exchanging"
      /\ UNCHANGED <<transactions, sessions, member, late>>
      /\ RequestFits(r) /\ LateFits /\ ~q.ended
      /\ step \in Browser!Steps
      /\ signIn' = [signIn EXCEPT ![r] = x]
      /\ q.on \in Transactions /\ transactions[q.on] = "gone"
      /\ Exchanges(r)
  BY Before
  DEF SignInInv, SignInTyped, TakenOnce, Exchanges, RequestFits,
      Browser!Exchange, Browser!At, Browser!Steps, Browser!StoreSteps
<1>2. /\ x \in Asking /\ x.step = step /\ x.on = q.on
      /\ x.begun = q.begun /\ x.exchanged /\ ~x.ended
  BY <1>1 DEF Asking
<1> HIDE DEF x
<1>3. signIn'[r] = x
  BY <1>1 DEF SignInInv, SignInTyped
<1>4. StoreGrows /\ NoneMade /\ LateFits'
  BY <1>1, StoreCalls DEF LateFits
<1>5. RequestFits(r)'
  BY <1>1, <1>2, <1>3 DEF RequestFits, OnSession
<1> QED BY <1>1, <1>2, <1>4, <1>5, RequestMoves DEF NoneMade

LEMMA CreateKeeps ==
  ASSUME SignInInv, NEW r \in Calls, Browser!CreateSession(r)
  PROVE  SignInInv'
<1> DEFINE made == [access |-> None, live |-> TRUE]
<1>1. /\ signIn[r].step = "creating" /\ sessions[r] = None
      /\ UNCHANGED <<transactions, member, late>>
      /\ sessions' = [sessions EXCEPT ![r] = made]
      /\ Browser!To(r, "signed_in") /\ "signed_in" \in Browser!Steps
      /\ RequestFits(r) /\ LateFits
  BY Before DEF Browser!CreateSession, Browser!At, RequestFits,
     Browser!Steps, Browser!StoreSteps
<1>2. made \in Sessions /\ made # None
  <2>1. made \in Sessions
    BY DEF Sessions
  <2> HIDE DEF made
  <2>2. None \notin Sessions
    BY NothingAssumption DEF Sessions, Versions
  <2> QED BY <2>1, <2>2
<1> HIDE DEF made
<1>3. /\ sessions' \in [Calls -> Sessions \cup {None}]
      /\ sessions'[r] = made
      /\ \A s \in Calls : s # r => sessions'[s] = sessions[s]
  BY <1>1, <1>2, Before
<1>4. StoreGrows /\ LateFits'
  BY <1>1, <1>2, <1>3, Before DEF StoreGrows, LateFits
<1>5. PICK x \in Asking :
        /\ signIn' = [signIn EXCEPT ![r] = x] /\ signIn'[r] = x
        /\ x.step = "signed_in" /\ x.on = signIn[r].on
        /\ x.begun = signIn[r].begun
        /\ x.exchanged <=> signIn[r].exchanged
        /\ x.ended <=> signIn[r].ended
  BY <1>1, StepOf
<1>6. RequestFits(r)'
  BY <1>1, <1>2, <1>3, <1>5 DEF RequestFits, OnSession
<1>7. x.exchanged =>
        /\ x.on \in Transactions /\ transactions'[x.on] = "gone"
        /\ Exchanges(r)
  BY <1>1, <1>5 DEF SignInInv, TakenOnce, Exchanges
<1>8. x.ended => x.on \in Calls /\ signIn[r].ended
  BY <1>5 DEF SignInInv, TakenOnce
<1>9. \A s \in Calls : s # r /\ sessions'[s] # None => sessions[s] # None
  BY <1>3
<1> QED BY <1>1, <1>4, <1>5, <1>6, <1>7, <1>8, <1>9, RequestMoves

\* A request that is done for, or goes on to revoke its session.
LEMMA LeavesKeeps ==
  ASSUME SignInInv, StoreGrows, NoneMade, NEW r \in Calls,
         NEW step \in {"revoking", "denied", "failed"},
         Browser!To(r, step), member' = member, LateFits',
         signIn[r].step # "signed_in",
         step = "revoking" => signIn[r].step \in OnSession
  PROVE  SignInInv'
<1>1. /\ step \in Browser!Steps /\ step # "exchanging"
      /\ step # "signed_in"
  BY DEF Browser!Steps, Browser!StoreSteps
<1>2. PICK x \in Asking :
        /\ signIn'[r] = x /\ x.step = step /\ x.on = signIn[r].on
        /\ x.begun = signIn[r].begun
        /\ x.exchanged <=> signIn[r].exchanged
        /\ x.ended <=> signIn[r].ended
  BY <1>1, StepOf
<1>3. sessions'[r] = None
  BY Before DEF RequestFits, NoneMade
<1>4. RequestFits(r)'
  BY <1>1, <1>2, <1>3, Before
  DEF RequestFits, OnSession, StoreGrows
<1> QED BY <1>1, <1>4, StepsKeep

LEMMA ReadSessionKeeps ==
  ASSUME SignInInv, NEW r \in Calls, Browser!ReadSession(r)
  PROVE  SignInInv'
<1> DEFINE s == signIn[r].on
<1>1. /\ signIn[r].step = "reading" /\ s \in Calls
      /\ ~signIn[r].exchanged /\ ~signIn[r].ended
      /\ sessions[s] # None /\ sessions[r] = None
      /\ UNCHANGED <<transactions, sessions, member, late>>
      /\ RequestFits(r) /\ LateFits
      /\ signIn[r].step \in OnSession
  BY Before
  DEF Browser!ReadSession, Browser!At, RequestFits, OnSession
<1>2. StoreGrows /\ NoneMade /\ LateFits'
  BY <1>1, StoreCalls DEF LateFits
<1>3. CASE Browser!To(r, "revoking") \/ Browser!To(r, "denied")
  BY <1>1, <1>2, <1>3, LeavesKeeps
<1>4. CASE signIn' = [signIn EXCEPT ![r].step = "resolving",
                                    ![r].seen = sessions[s].access]
  <2> DEFINE q == signIn[r]
             x == [[q EXCEPT !.step = "resolving"]
                     EXCEPT !.seen = sessions[s].access]
  <2>1. sessions[s] \in Sessions
    BY <1>1, Before
  <2>2. /\ q \in Asking /\ sessions[s].access \in {None} \cup Versions
        /\ "resolving" \in Browser!Steps
        /\ signIn' = [signIn EXCEPT ![r] = x]
    BY <1>4, <2>1
    DEF SignInInv, SignInTyped, Sessions, Browser!Steps
  <2>3. /\ x \in Asking /\ x.step = "resolving" /\ x.on = s
        /\ x.begun = q.begun /\ ~x.exchanged /\ ~x.ended
        /\ x.seen = sessions[s].access
    BY <1>1, <2>2 DEF Asking
  <2> HIDE DEF x
  <2>4. signIn'[r] = x
    BY <2>2 DEF SignInInv, SignInTyped
  <2>5. RequestFits(r)'
    BY <1>1, <2>3, <2>4 DEF RequestFits, OnSession
  <2> QED BY <1>1, <1>2, <2>2, <2>3, <2>5, RequestMoves DEF NoneMade
<1> QED BY <1>3, <1>4 DEF Browser!ReadSession

LEMMA ResolveKeeps ==
  ASSUME SignInInv, NEW r \in Calls, Browser!Resolve(r)
  PROVE  SignInInv'
<1> DEFINE q == signIn[r]  s == q.on  a == member.access
<1>1. /\ q.step = "resolving" /\ s \in Calls /\ q \in Asking
      /\ ~q.exchanged /\ ~q.ended
      /\ sessions[s] # None /\ sessions[r] = None
      /\ q.seen # None => sessions[s].access = q.seen
      /\ UNCHANGED <<transactions, sessions, member, late>>
      /\ RequestFits(r) /\ LateFits
      /\ q.step \in OnSession /\ q.begun <= a /\ a \in Versions
      /\ Versions \subseteq Nat /\ None \notin Versions
  BY Before
  DEF Browser!Resolve, Browser!At, RequestFits, OnSession
<1>2. StoreGrows /\ NoneMade /\ LateFits'
  BY <1>1, StoreCalls DEF LateFits
<1>3. CASE Browser!To(r, "revoking")
  BY <1>1, <1>2, <1>3, LeavesKeeps
<1>4. CASE signIn' = [signIn EXCEPT ![r].access = a,
                         ![r].step = Browser!Decision(r, a)]
  <2> DEFINE d == Browser!Decision(r, a)
             x == [[q EXCEPT !.access = a] EXCEPT !.step = d]
  <2>1. /\ d \in {"binding", "authenticated", "revoking"}
        /\ d = "authenticated" => sessions[s].access = a
    BY <1>1 DEF Browser!Decision
  <2>2. d \in Browser!Steps
    BY <2>1 DEF Browser!Steps, Browser!StoreSteps
  <2>3. signIn' = [signIn EXCEPT ![r] = x]
    BY <1>4 DEF SignInInv, SignInTyped
  <2> HIDE DEF d
  <2>4. /\ x \in Asking /\ x.step = d /\ x.on = s
        /\ x.begun = q.begun /\ ~x.exchanged /\ ~x.ended
        /\ x.access = a
    BY <1>1, <2>2 DEF Asking
  <2> HIDE DEF x
  <2>5. signIn'[r] = x
    BY <2>3 DEF SignInInv, SignInTyped
  <2> HIDE DEF a, s, q
  <2>6. RequestFits(r)'
    BY <1>1, <2>1, <2>4, <2>5 DEF RequestFits, OnSession, q, s, a
  <2>7. x.step # "exchanging"
    BY <2>1, <2>4
  <2> QED BY <1>1, <1>2, <2>3, <2>4, <2>6, <2>7, RequestMoves
          DEF NoneMade
<1> QED BY <1>3, <1>4 DEF Browser!Resolve

LEMMA BindKeeps ==
  ASSUME SignInInv, NEW r \in Calls, Browser!Bind(r)
  PROVE  SignInInv'
<1> DEFINE q == signIn[r]  s == q.on
           step == IF Browser!Bindable(s) THEN "authenticated"
                   ELSE "rereading"
<1>1. /\ q.step = "binding" /\ s \in Calls /\ q \in Asking
      /\ ~q.exchanged /\ ~q.ended
      /\ sessions[s] # None /\ sessions[r] = None
      /\ q.access \in Versions /\ q.access >= q.begun
      /\ sessions' = Browser!Bound(s, q.access)
      /\ UNCHANGED <<transactions, member, late>>
      /\ RequestFits(r) /\ LateFits /\ Browser!To(r, step)
  BY Before
  DEF Browser!Bind, Browser!At, RequestFits, OnSession
<1>2. /\ StoreGrows /\ NoneMade /\ LateFits'
      /\ Browser!Bindable(s) => sessions'[s].access = q.access
  BY <1>1, StoreCalls DEF LateFits
<1>3. /\ step \in Browser!Steps /\ step \in {"authenticated", "rereading"}
      /\ step = "authenticated" => sessions'[s].access = q.access
  BY <1>2 DEF Browser!Steps, Browser!StoreSteps
<1> HIDE DEF step
<1>4. PICK x \in Asking :
        /\ signIn'[r] = x /\ x.step = step /\ x.on = q.on
        /\ x.access = q.access /\ x.begun = q.begun
        /\ x.exchanged <=> q.exchanged
        /\ x.ended <=> q.ended
  BY <1>1, <1>3, StepOf
<1>5. sessions'[r] = None /\ sessions'[s] # None
  BY <1>1, <1>2 DEF NoneMade, StoreGrows
<1>6. RequestFits(r)'
  BY <1>1, <1>3, <1>4, <1>5 DEF RequestFits, OnSession
<1>7. step # "exchanging"
  BY <1>3
<1> QED BY <1>1, <1>2, <1>3, <1>6, <1>7, StepsKeep

LEMMA ReadAgainKeeps ==
  ASSUME SignInInv, NEW r \in Calls, Browser!ReadAgain(r)
  PROVE  SignInInv'
<1> DEFINE q == signIn[r]  s == q.on
<1>1. /\ q.step = "rereading" /\ s \in Calls /\ q \in Asking
      /\ ~q.exchanged /\ ~q.ended
      /\ sessions[s] # None /\ sessions[r] = None
      /\ q.access \in Versions /\ q.access >= q.begun
      /\ UNCHANGED <<transactions, sessions, member, late>>
      /\ RequestFits(r) /\ LateFits /\ q.step \in OnSession
  BY Before
  DEF Browser!ReadAgain, Browser!At, RequestFits, OnSession
<1>2. StoreGrows /\ NoneMade /\ LateFits'
  BY <1>1, StoreCalls DEF LateFits
<1>3. CASE Browser!To(r, "revoking")
  BY <1>1, <1>2, <1>3, LeavesKeeps
<1>4. CASE sessions[s].access = q.access /\ Browser!To(r, "authenticated")
  <2>1. "authenticated" \in Browser!Steps
    BY DEF Browser!Steps
  <2>2. PICK x \in Asking :
          /\ signIn'[r] = x /\ x.step = "authenticated" /\ x.on = q.on
          /\ x.access = q.access /\ x.begun = q.begun
          /\ x.exchanged <=> q.exchanged
          /\ x.ended <=> q.ended
    BY <1>4, <2>1, StepOf
  <2>3. RequestFits(r)'
    BY <1>1, <1>4, <2>2 DEF RequestFits, OnSession
  <2> QED BY <1>1, <1>2, <1>4, <2>1, <2>3, StepsKeep
<1> QED BY <1>3, <1>4 DEF Browser!ReadAgain

LEMMA RevokeKeeps ==
  ASSUME SignInInv, NEW r \in Calls, Browser!Revoke(r)
  PROVE  SignInInv'
<1>1. /\ signIn[r].step = "revoking" /\ signIn[r].on \in Calls
      /\ sessions' = Browser!Ended(signIn[r].on)
      /\ UNCHANGED <<transactions, member, late>>
      /\ LateFits /\ Browser!To(r, "denied")
  BY Before DEF Browser!Revoke, Browser!At, RequestFits, OnSession
<1>2. StoreGrows /\ NoneMade /\ LateFits'
  BY <1>1, StoreCalls DEF LateFits
<1> QED BY <1>1, <1>2, LeavesKeeps

LEMMA EndSessionKeeps ==
  ASSUME SignInInv, NEW r \in Calls, Browser!EndSession(r)
  PROVE  SignInInv'
<1> DEFINE q == signIn[r]  s == q.on  ended == Browser!Live(s)
           x == [[q EXCEPT !.step = "out"] EXCEPT !.ended = ended]
<1>1. /\ q.step = "ending" /\ s \in Calls /\ q \in Asking
      /\ ~q.exchanged /\ ~q.ended
      /\ sessions[s] # None /\ sessions[r] = None
      /\ sessions' = Browser!Ended(s)
      /\ UNCHANGED <<transactions, member, late>>
      /\ RequestFits(r) /\ LateFits
  BY Before
  DEF Browser!EndSession, Browser!At, RequestFits, OnSession
<1>2. /\ StoreGrows /\ NoneMade /\ LateFits'
      /\ sessions'[s] # None /\ ~sessions'[s].live
  BY <1>1, StoreCalls DEF LateFits, StoreGrows
<1>3. /\ ended \in BOOLEAN /\ "out" \in Browser!Steps
      /\ ended => sessions[s] # None /\ sessions[s].live
  <2>1. sessions[s] \in Sessions
    BY <1>1, Before
  <2> QED BY <2>1 DEF Browser!Live, Sessions, Browser!Steps
<1>4. signIn' = [signIn EXCEPT ![r] = x]
  BY DEF SignInInv, SignInTyped, Browser!EndSession
<1> HIDE DEF ended
<1>5. /\ x \in Asking /\ x.step = "out" /\ x.on = s
      /\ x.begun = q.begun /\ ~x.exchanged /\ (x.ended <=> ended)
  BY <1>1, <1>3 DEF Asking
<1> HIDE DEF x
<1>6. signIn'[r] = x
  BY <1>4 DEF SignInInv, SignInTyped
<1>7. sessions'[r] = None
  BY <1>1, <1>2 DEF NoneMade
<1>8. RequestFits(r)'
  BY <1>1, <1>5, <1>6, <1>7 DEF RequestFits, OnSession
<1> QED
  BY <1>1, <1>2, <1>3, <1>4, <1>5, <1>8, RequestMoves DEF NoneMade

\* The calls that failed and may still take effect.
LEMMA FailKeeps ==
  ASSUME SignInInv, NEW r \in Calls, Browser!Fail(r)
  PROVE  SignInInv'
<1> DEFINE q == signIn[r]
           l == [step |-> q.step, on |-> q.on, access |-> q.access]
<1>1. /\ q.step # "signed_in" /\ Browser!To(r, "failed")
      /\ UNCHANGED <<transactions, sessions, member>>
      /\ LateFits /\ q \in Asking
      /\ late' # late =>
           /\ late' = late \cup {l}
           /\ q.step \in {"consuming", "binding", "revoking", "ending"}
  BY Before DEF Browser!Fail, Browser!StoreSteps
<1>2. late' # late =>
        /\ l \in Late
        /\ l.step = "consuming" => l.on \in Transactions
        /\ l.step # "consuming" => l.on \in Calls
  BY <1>1, Before DEF RequestFits, OnSession, Asking, Late
<1> HIDE DEF l
<1>3. StoreGrows /\ NoneMade /\ LateFits'
  BY <1>1, <1>2, StoreCalls DEF LateFits
<1> QED BY <1>1, <1>3, LeavesKeeps

LEMMA TakesEffectKeeps ==
  ASSUME SignInInv, NEW l \in late, Browser!TakesEffect(l)
  PROVE  SignInInv'
<1>1. /\ l \in Late /\ late' \subseteq late
      /\ l.step = "consuming" => l.on \in Transactions
      /\ l.step # "consuming" => l.on \in Calls
      /\ UNCHANGED <<member, signIn>>
  BY DEF SignInInv, SignInTyped, Browser!TakesEffect
<1>2. l.access \in {None} \cup Versions
  BY <1>1 DEF Late
<1>3. \/ /\ l.on \in Transactions /\ UNCHANGED sessions
         /\ transactions' = Browser!Consumed(l.on)
      \/ /\ l.on \in Calls /\ UNCHANGED transactions
         /\ sessions' = Browser!Bound(l.on, l.access)
      \/ /\ l.on \in Calls /\ UNCHANGED transactions
         /\ sessions' = Browser!Ended(l.on)
  BY <1>1 DEF Browser!TakesEffect
<1>4. StoreGrows /\ NoneMade
  BY <1>2, <1>3, StoreCalls
<1>5. LateFits'
  BY <1>1 DEF SignInInv, SignInTyped, LateFits
<1>6. /\ member' \in [access : Versions, active : BOOLEAN]
      /\ member'.access >= member.access
  BY <1>1 DEF SignInInv, SignInTyped, Versions
<1> QED BY <1>1, <1>4, <1>5, <1>6, StoreMoves DEF NoneMade

LEMMA BrowserStep ==
  ASSUME SignInInv, [Browser!Next]_(Browser!vars)
  PROVE  SignInInv'
<1>1. /\ member \in [access : Versions, active : BOOLEAN]
      /\ member.access >= member.access
      /\ LateFits /\ MaxAccess \in Nat
      /\ transactions \in [Transactions -> {"none", "open", "gone"}]
      /\ sessions \in [Calls -> Sessions \cup {None}]
  BY NumbersAssumption
  DEF SignInInv, SignInTyped, LateFits, Versions
<1>2. ASSUME StoreGrows, NoneMade, UNCHANGED <<member, signIn, late>>
      PROVE  SignInInv'
  BY <1>1, <1>2, StoreMoves DEF LateFits, NoneMade
<1>3. CASE UNCHANGED Browser!vars
  BY <1>2, <1>3, StoreCalls DEF Browser!vars
<1>4. ASSUME NEW t \in Transactions, Browser!Begin(t)
      PROVE  SignInInv'
  <2>1. /\ UNCHANGED <<sessions, member, signIn, late>>
        /\ transactions' = [transactions EXCEPT ![t] = "open"]
        /\ transactions[t] = "none"
    BY <1>4 DEF Browser!Begin
  <2>2. StoreGrows /\ NoneMade
    BY <1>1, <2>1 DEF StoreGrows, NoneMade
  <2> QED BY <1>2, <2>1, <2>2
<1>5. CASE Browser!Expire
  <2>1. /\ UNCHANGED <<member, signIn, late>>
        /\ \/ \E t \in Transactions :
                transactions' = Browser!Consumed(t) /\ UNCHANGED sessions
           \/ \E s \in Calls :
                sessions' = Browser!Ended(s) /\ UNCHANGED transactions
    BY <1>5 DEF Browser!Expire
  <2> QED BY <1>2, <2>1, StoreCalls
<1>6. CASE Browser!MembershipChanges
  <2>1. /\ UNCHANGED <<transactions, sessions, signIn, late>>
        /\ member.access < MaxAccess
        /\ \E active \in BOOLEAN :
             member' = [access |-> member.access + 1, active |-> active]
    BY <1>6 DEF Browser!MembershipChanges
  <2>2. /\ member' \in [access : Versions, active : BOOLEAN]
        /\ member'.access >= member.access
    BY <1>1, <2>1 DEF Versions
  <2> QED BY <1>1, <2>1, <2>2, StoreCalls, StoreMoves
       DEF LateFits, NoneMade
<1>7. ASSUME NEW r \in Calls,
             \/ Browser!Callback(r) \/ Browser!Authenticate(r)
             \/ Browser!Logout(r)
      PROVE  SignInInv'
  BY <1>7, AsksKeeps
  DEF Browser!Callback, Browser!Authenticate, Browser!Logout
<1> QED
  BY <1>3, <1>4, <1>5, <1>6, <1>7, ConsumeKeeps, ExchangeKeeps,
     CreateKeeps, ReadSessionKeeps, ResolveKeeps, BindKeeps,
     ReadAgainKeeps, RevokeKeeps, EndSessionKeeps, FailKeeps,
     TakesEffectKeeps
  DEF Browser!Next

(* All the requests a session authenticates have one and the same access,  *)
(* none from before the request began; a transaction's code is exchanged   *)
(* once and a session's tokens are handed to one logout, however requests  *)
(* overlap and whatever takes effect late.                                 *)
THEOREM SessionsKeep == Browser!Spec => []SessionsKeepTheirAccess
<1>1. SignInInv => SessionsKeepTheirAccess
  BY DEF SignInInv, RequestFits, TakenOnce, Exchanges,
     SessionsKeepTheirAccess, Browser!SessionsKeepTheirAccess,
     Browser!Authenticated, Browser!At
<1>2. Browser!Init => SignInInv
  BY SignInStart
<1>3. SignInInv /\ [Browser!Next]_(Browser!vars) => SignInInv'
  BY BrowserStep
<1> QED BY <1>1, <1>2, <1>3, PTL DEF Browser!Spec

-----------------------------------------------------------------------------
(* Access decisions.                                                       *)

Decisions == [step : Access!Steps, policy : Access!Documents \cup {None},
              entitlement : Access!Documents \cup {None},
              seen : Access!Marks, tried : Nat, doomed : BOOLEAN]

PolicySteps == {"verifying_policy", "reading_policy", "setting_policy"}
EntitlementSteps == {"verifying", "cached", "advancing", "setting"}

(* What a decision's step says of what it read, and of the marks p and m   *)
(* now: a call that is doomed is still overruled.                          *)
DecisionFits(d, p, m) ==
  /\ d.step \in PolicySteps \cup {"activated", "checking_policy"} =>
       d.policy \in Access!Documents
  /\ d.step \in EntitlementSteps \cup {"checking_policy"} =>
       d.entitlement \in Access!Documents
  /\ d.step = "setting_policy" => ~Access!PolicyRefused(d.seen, d.policy)
  /\ d.step = "setting" => ~Access!Overtaken(d.seen, d.entitlement)
  /\ d.doomed =>
       /\ d.step \in PolicySteps \cup EntitlementSteps
                       \cup {"checking_policy"}
       /\ d.step \in PolicySteps => Access!Overruled(p, d.policy)
       /\ d.step \in EntitlementSteps => Access!Overruled(m, d.entitlement)
       /\ d.step = "checking_policy" =>
            Access!Overruled(p, d.policy)
              \/ Access!Overruled(m, d.entitlement)

AccessInv ==
  /\ policyMark \in Access!Marks /\ mark \in Access!Marks
  /\ decision \in [Calls -> Decisions]
  /\ \A c \in Calls : DecisionFits(decision[c], policyMark, mark)

\* A mark is not lowered, nor a revocation undone at its revision.
Climbs(m, n) ==
  m # None => /\ n # None /\ n.revision >= m.revision
              /\ n.revision = m.revision /\ m.revoked => n.revoked

AccessKept ==
  /\ AccessInv'
  /\ Climbs(policyMark, policyMark') /\ Climbs(mark, mark')
  /\ \A c \in Calls : decision[c].doomed =>
       decision'[c].step \notin {"activated", "allowed"}

\* What is known of a mark, and of the one a document makes.
LEMMA MarkFacts ==
  /\ \A m \in Access!Marks : Climbs(m, m)
  /\ \A m \in Access!Marks : m # None =>
       m.revision \in Nat /\ m.revoked \in BOOLEAN
  /\ \A d \in Access!Documents :
       /\ Access!Of(d) \in Access!Marks /\ Access!Of(d) # None
       /\ Access!Of(d).revision = d.revision /\ ~Access!Of(d).revoked
       /\ d.revision \in Nat
<1>1. None \notin [revision : EntitlementRevisions,
                   digest : Digests \cup {None}, revoked : BOOLEAN]
  BY NumbersAssumption, NothingAssumption
<1>2. ASSUME NEW d \in Access!Documents
      PROVE  /\ Access!Of(d) \in [revision : EntitlementRevisions,
                  digest : Digests \cup {None}, revoked : BOOLEAN]
             /\ Access!Of(d).revision = d.revision
             /\ ~Access!Of(d).revoked
             /\ d.revision \in Nat
  BY NumbersAssumption DEF Access!Documents, Access!Of
<1>3. \A m \in Access!Marks : m # None =>
        m.revision \in Nat /\ m.revoked \in BOOLEAN
  BY NumbersAssumption DEF Access!Marks
<1>4. \A m \in Access!Marks : Climbs(m, m)
  BY <1>3 DEF Climbs
<1> QED BY <1>1, <1>2, <1>3, <1>4 DEF Access!Marks

\* What overrules a document still does when the mark has climbed.
LEMMA OverruledStays ==
  ASSUME NEW m \in Access!Marks, NEW n \in Access!Marks, Climbs(m, n),
         NEW d \in Access!Documents, Access!Overruled(m, d)
  PROVE  Access!Overruled(n, d)
<1>1. /\ m # None /\ n # None /\ d.revision \in Nat
      /\ m.revision \in Nat /\ n.revision \in Nat
      /\ n.revision >= m.revision
      /\ n.revision = m.revision /\ m.revoked => n.revoked
  BY MarkFacts DEF Climbs, Access!Overruled
<1> QED BY <1>1 DEF Access!Overruled

LEMMA FitsStays ==
  ASSUME NEW p \in Access!Marks, NEW q \in Access!Marks,
         NEW m \in Access!Marks, NEW n \in Access!Marks,
         Climbs(p, q), Climbs(m, n), NEW d \in Decisions,
         DecisionFits(d, p, m)
  PROVE  DecisionFits(d, q, n)
<1>1. /\ d.policy \in Access!Documents /\ Access!Overruled(p, d.policy)
           => Access!Overruled(q, d.policy)
      /\ d.entitlement \in Access!Documents
           /\ Access!Overruled(m, d.entitlement)
           => Access!Overruled(n, d.entitlement)
  BY OverruledStays
<1> QED BY <1>1 DEF DecisionFits

\* One decision moves, at most one mark with it.
LEMMA DecisionMoves ==
  ASSUME AccessInv, NEW c \in Calls, NEW x \in Decisions,
         decision' = [decision EXCEPT ![c] = x],
         policyMark' \in Access!Marks, mark' \in Access!Marks,
         Climbs(policyMark, policyMark'), Climbs(mark, mark'),
         DecisionFits(x, policyMark', mark'),
         decision[c].doomed => x.step \notin {"activated", "allowed"}
  PROVE  AccessKept
<1>1. /\ decision' \in [Calls -> Decisions] /\ decision'[c] = x
      /\ \A o \in Calls : o # c => decision'[o] = decision[o]
  BY DEF AccessInv
<1>2. \A o \in Calls : DecisionFits(decision[o], policyMark', mark')
  BY FitsStays DEF AccessInv
<1>3. \A o \in Calls : DecisionFits(decision'[o], policyMark', mark')
  BY <1>1, <1>2
<1>4. \A o \in Calls : decision[o].doomed =>
        decision'[o].step \notin {"activated", "allowed"}
  <2>1. ASSUME NEW o \in Calls, o # c, decision[o].doomed
        PROVE  decision'[o].step \notin {"activated", "allowed"}
    <3>1. DecisionFits(decision[o], policyMark, mark)
      BY DEF AccessInv
    <3> QED BY <1>1, <2>1, <3>1
         DEF DecisionFits, PolicySteps, EntitlementSteps
  <2> QED BY <1>1, <2>1
<1> QED BY <1>1, <1>3, <1>4 DEF AccessKept, AccessInv

\* A decision that only goes on to another step.
LEMMA GoesOn ==
  ASSUME AccessInv, NEW c \in Calls, NEW step \in Access!Steps,
         Access!To(c, step), UNCHANGED <<policyMark, mark>>,
         LET d == decision[c] IN
           /\ step \notin {"setting_policy", "setting", "activated",
                           "allowed", "idle", "denied"}
           /\ step \in PolicySteps => d.step \in PolicySteps
           /\ step = "checking_policy" => d.step = "checking_policy"
           /\ step \in EntitlementSteps =>
                \/ d.step \in EntitlementSteps
                \/ /\ d.step = "checking_policy"
                   /\ ~Access!Overruled(policyMark, d.policy)
  PROVE  AccessKept
<1> DEFINE d == decision[c]
           x == [d EXCEPT !.step = step]
<1>1. /\ d \in Decisions /\ decision' = [decision EXCEPT ![c] = x]
      /\ DecisionFits(d, policyMark, mark)
      /\ policyMark' \in Access!Marks /\ mark' \in Access!Marks
      /\ Climbs(policyMark, policyMark') /\ Climbs(mark, mark')
  BY MarkFacts DEF AccessInv, Access!To
<1>2. /\ x \in Decisions /\ x.step = step /\ x.policy = d.policy
      /\ x.entitlement = d.entitlement /\ x.seen = d.seen
      /\ x.doomed = d.doomed
  BY <1>1 DEF Decisions
<1> HIDE DEF x
<1>3. step \in PolicySteps \cup EntitlementSteps
                 \cup {"checking_policy"}
  BY DEF PolicySteps, EntitlementSteps, Access!Steps
<1>4. DecisionFits(x, policyMark', mark')
  BY <1>1, <1>2, <1>3
  DEF DecisionFits, PolicySteps, EntitlementSteps
<1> QED BY <1>1, <1>2, <1>4, DecisionMoves

\* A decision that answers.
LEMMA AnswersKeep ==
  ASSUME AccessInv, NEW c \in Calls,
         NEW step \in {"activated", "allowed", "denied"},
         IF step = "activated" THEN Access!Activated(c)
         ELSE Access!Answers(c, step),
         step = "activated" => decision[c].policy \in Access!Documents,
         decision[c].doomed => step = "denied",
         policyMark' \in Access!Marks, mark' \in Access!Marks,
         Climbs(policyMark, policyMark'), Climbs(mark, mark')
  PROVE  AccessKept
<1> DEFINE policy == IF step = "activated" THEN decision[c].policy ELSE None
           x == [step |-> step, policy |-> policy, entitlement |-> None,
                 seen |-> None, tried |-> 0, doomed |-> FALSE]
<1>1. decision' = [decision EXCEPT ![c] = x]
  BY DEF Access!Activated, Access!Answers, Access!Idle
<1>2. /\ policy \in Access!Documents \cup {None}
      /\ step = "activated" => policy \in Access!Documents
      /\ step \in Access!Steps
  BY DEF Access!Steps
<1> HIDE DEF policy
<1>3. /\ x \in Decisions /\ x.step = step /\ x.policy = policy
      /\ ~x.doomed
  BY <1>2 DEF Decisions, Access!Marks
<1> HIDE DEF x
<1>4. DecisionFits(x, policyMark', mark')
  BY <1>2, <1>3 DEF DecisionFits, PolicySteps, EntitlementSteps
<1> QED BY <1>1, <1>3, <1>4, DecisionMoves

\* A decision that has read a mark it may replace.
LEMMA ReadsKeep ==
  ASSUME AccessInv, NEW c \in Calls, NEW m \in Access!Marks,
         NEW step \in {"setting_policy", "setting"},
         Access!Reads(c, m, step), UNCHANGED <<policyMark, mark>>,
         step = "setting_policy" =>
           /\ decision[c].step = "reading_policy"
           /\ ~Access!PolicyRefused(m, decision[c].policy),
         step = "setting" =>
           /\ decision[c].step = "advancing"
           /\ ~Access!Overtaken(m, decision[c].entitlement)
  PROVE  AccessKept
<1> DEFINE d == decision[c]
           x == [[d EXCEPT !.step = step] EXCEPT !.seen = m]
<1>1. /\ d \in Decisions /\ decision' = [decision EXCEPT ![c] = x]
      /\ DecisionFits(d, policyMark, mark)
      /\ policyMark' \in Access!Marks /\ mark' \in Access!Marks
      /\ Climbs(policyMark, policyMark') /\ Climbs(mark, mark')
      /\ step \in Access!Steps
  BY MarkFacts DEF AccessInv, Access!Reads, Access!Steps
<1>2. /\ x \in Decisions /\ x.step = step /\ x.policy = d.policy
      /\ x.entitlement = d.entitlement /\ x.seen = m
      /\ x.doomed = d.doomed
  BY <1>1 DEF Decisions
<1> HIDE DEF x
<1>3. DecisionFits(x, policyMark', mark')
  BY <1>1, <1>2 DEF DecisionFits, PolicySteps, EntitlementSteps
<1> QED BY <1>1, <1>2, <1>3, DecisionMoves

\* A document that may replace a mark lets it climb, and is not overruled.
LEMMA Replaces ==
  ASSUME NEW m \in Access!Marks, NEW d \in Access!Documents,
         ~Access!PolicyRefused(m, d) \/ ~Access!Overtaken(m, d)
  PROVE  /\ Climbs(m, Access!Of(d)) /\ Access!Of(d) \in Access!Marks
         /\ ~Access!Overruled(m, d)
<1>1. /\ Access!Of(d) \in Access!Marks /\ Access!Of(d) # None
      /\ Access!Of(d).revision = d.revision /\ ~Access!Of(d).revoked
      /\ d.revision \in Nat
      /\ m # None => m.revision \in Nat /\ m.revoked \in BOOLEAN
  BY MarkFacts
<1> QED BY <1>1 DEF Climbs, Access!PolicyRefused, Access!Overtaken,
     Access!Overruled

LEMMA InForce ==
  ASSUME NEW d \in Access!Documents
  PROVE  ~Access!Overruled(Access!Of(d), d)
BY MarkFacts DEF Access!Overruled

-----------------------------------------------------------------------------
LEMMA BeginsKeeps ==
  ASSUME AccessInv, NEW c \in Calls, NEW d \in Access!Documents,
         \/ Access!Activate(c, d)
         \/ \E a \in Calls : Access!Evaluate(c, a, d)
  PROVE  AccessKept
<1>1. /\ decision[c].step = "idle" /\ UNCHANGED <<policyMark, mark>>
  BY DEF Access!Activate, Access!Evaluate, Access!At
<1>2. /\ decision[c] \in Decisions
      /\ DecisionFits(decision[c], policyMark, mark)
      /\ policyMark' \in Access!Marks /\ mark' \in Access!Marks
      /\ Climbs(policyMark, policyMark') /\ Climbs(mark, mark')
  BY <1>1, MarkFacts DEF AccessInv
<1>3. /\ Access!Idle \in Decisions
      /\ "verifying_policy" \in Access!Steps
      /\ "checking_policy" \in Access!Steps
  BY DEF Access!Idle, Decisions, Access!Steps, Access!Marks
<1>4. CASE Access!Activate(c, d)
  <2> DEFINE doomed == Access!Overruled(policyMark, d)
             y == [Access!Idle EXCEPT !.step = "verifying_policy"]
             z == [y EXCEPT !.policy = d]
             x == [z EXCEPT !.doomed = doomed]
  <2>1. decision' = [decision EXCEPT ![c] = x]
    BY <1>4 DEF Access!Activate
  <2>2. doomed \in BOOLEAN
    BY MarkFacts DEF Access!Overruled, AccessInv
  <2> HIDE DEF doomed
  <2>3. /\ x \in Decisions /\ x.step = "verifying_policy"
        /\ x.policy = d /\ x.doomed = doomed
    BY <1>3, <2>2 DEF Decisions
  <2> HIDE DEF x
  <2>4. DecisionFits(x, policyMark', mark')
    BY <1>1, <1>2, <2>3
    DEF DecisionFits, PolicySteps, EntitlementSteps, doomed
  <2> QED BY <1>1, <1>2, <2>1, <2>3, <2>4, DecisionMoves
<1>5. ASSUME NEW a \in Calls, Access!Evaluate(c, a, d)
      PROVE  AccessKept
  <2> DEFINE p == decision[a].policy
             doomed == \/ Access!Overruled(policyMark, p)
                       \/ Access!Overruled(mark, d)
             w == [Access!Idle EXCEPT !.step = "checking_policy"]
             y == [w EXCEPT !.entitlement = d]
             z == [y EXCEPT !.policy = p]
             x == [z EXCEPT !.doomed = doomed]
  <2>1. /\ decision' = [decision EXCEPT ![c] = x]
        /\ p \in Access!Documents
    BY <1>5
    DEF Access!Evaluate, Access!At, AccessInv, DecisionFits
  <2>2. doomed \in BOOLEAN
    BY MarkFacts DEF Access!Overruled, AccessInv
  <2> HIDE DEF doomed, p
  <2>3. /\ x \in Decisions /\ x.step = "checking_policy"
        /\ x.policy = p /\ x.entitlement = d /\ x.doomed = doomed
    BY <1>3, <2>1, <2>2 DEF Decisions
  <2> HIDE DEF x
  <2>4. DecisionFits(x, policyMark', mark')
    BY <1>1, <1>2, <2>1, <2>3
    DEF DecisionFits, PolicySteps, EntitlementSteps, doomed
  <2> QED BY <1>1, <1>2, <2>1, <2>3, <2>4, DecisionMoves
<1> QED BY <1>4, <1>5

\* What is known of a decision that moves on.
LEMMA DecisionBefore ==
  ASSUME AccessInv, NEW c \in Calls
  PROVE  /\ decision[c] \in Decisions
         /\ DecisionFits(decision[c], policyMark, mark)
         /\ policyMark \in Access!Marks /\ mark \in Access!Marks
         /\ Climbs(policyMark, policyMark) /\ Climbs(mark, mark)
         /\ decision[c].seen \in Access!Marks
BY MarkFacts DEF AccessInv, Decisions

\* A refusal, also by a store or a verifier that fails.
LEMMA DenyKeeps ==
  ASSUME AccessInv, NEW c \in Calls, Access!Deny(c),
         policyMark' \in Access!Marks, mark' \in Access!Marks,
         Climbs(policyMark, policyMark'), Climbs(mark, mark')
  PROVE  AccessKept
<1>1. /\ "denied" \in {"activated", "allowed", "denied"}
      /\ "denied" # "activated"
  OBVIOUS
<1> QED BY <1>1, AnswersKeep DEF Access!Deny

LEMMA VerifyPolicyKeeps ==
  ASSUME AccessInv, NEW c \in Calls, Access!VerifyPolicy(c)
  PROVE  AccessKept
<1>1. /\ decision[c].step = "verifying_policy"
      /\ UNCHANGED <<policyMark, mark>>
      /\ Access!To(c, "reading_policy") \/ Access!Deny(c)
  BY DEF Access!VerifyPolicy, Access!At
<1>2. "reading_policy" \in Access!Steps
  BY DEF Access!Steps
<1>3. CASE Access!To(c, "reading_policy")
  BY <1>1, <1>2, <1>3, GoesOn DEF PolicySteps, EntitlementSteps
<1>4. CASE Access!Deny(c)
  BY <1>1, <1>4, DecisionBefore, DenyKeeps
<1> QED BY <1>1, <1>3, <1>4

LEMMA ReadPolicyKeeps ==
  ASSUME AccessInv, NEW c \in Calls, Access!ReadPolicy(c)
  PROVE  AccessKept
<1> DEFINE p == decision[c].policy
<1>1. /\ decision[c].step = "reading_policy"
      /\ UNCHANGED <<policyMark, mark>>
      /\ \/ Access!Deny(c)
         \/ policyMark = Access!Of(p) /\ Access!Activated(c)
         \/ /\ ~Access!PolicyRefused(policyMark, p)
            /\ Access!Reads(c, policyMark, "setting_policy")
  BY Zenon DEF Access!ReadPolicy, Access!At
<1>2. /\ p \in Access!Documents
      /\ decision[c].doomed => Access!Overruled(policyMark, p)
  BY <1>1, DecisionBefore DEF DecisionFits, PolicySteps
<1>3. CASE Access!Deny(c)
  BY <1>1, <1>3, DecisionBefore, DenyKeeps
<1>4. CASE policyMark = Access!Of(p) /\ Access!Activated(c)
  <2>1. ~decision[c].doomed
    BY <1>2, <1>4, InForce
  <2> HIDE DEF p
  <2> QED BY <1>1, <1>2, <1>4, <2>1, DecisionBefore, AnswersKeep DEF p
<1>5. CASE /\ ~Access!PolicyRefused(policyMark, p)
           /\ Access!Reads(c, policyMark, "setting_policy")
  <2>1. "setting_policy" \in {"setting_policy", "setting"}
        /\ "setting_policy" # "setting"
    OBVIOUS
  <2> QED BY <1>1, <1>5, <2>1, DecisionBefore, ReadsKeep
<1> QED BY <1>1, <1>3, <1>4, <1>5

\* The compare-and-set that a decision at one of its last steps makes.
LEMMA Sets ==
  ASSUME AccessInv, NEW c \in Calls
  PROVE  /\ /\ decision[c].step = "setting_policy"
            /\ Access!SameState(policyMark, decision[c].seen)
            => LET m == Access!Of(decision[c].policy) IN
                 /\ m \in Access!Marks /\ Climbs(policyMark, m)
                 /\ decision[c].policy \in Access!Documents
                 /\ ~decision[c].doomed
         /\ /\ decision[c].step = "setting"
            /\ Access!SameState(mark, decision[c].seen)
            => LET m == Access!Of(decision[c].entitlement) IN
                 /\ m \in Access!Marks /\ Climbs(mark, m)
                 /\ ~decision[c].doomed
<1> DEFINE d == decision[c]
<1>1. ASSUME d.step = "setting_policy",
             Access!SameState(policyMark, d.seen)
      PROVE  LET m == Access!Of(d.policy) IN
               /\ m \in Access!Marks /\ Climbs(policyMark, m)
               /\ d.policy \in Access!Documents /\ ~d.doomed
  <2>1. /\ d.policy \in Access!Documents /\ policyMark \in Access!Marks
        /\ ~Access!PolicyRefused(policyMark, d.policy)
        /\ d.doomed => Access!Overruled(policyMark, d.policy)
    BY <1>1, DecisionBefore DEF DecisionFits, PolicySteps,
       Access!SameState
  <2> QED BY <2>1, Replaces
<1>2. ASSUME d.step = "setting", Access!SameState(mark, d.seen)
      PROVE  LET m == Access!Of(d.entitlement) IN
               /\ m \in Access!Marks /\ Climbs(mark, m)
               /\ ~d.doomed
  <2>1. /\ d.entitlement \in Access!Documents /\ mark \in Access!Marks
        /\ ~Access!Overtaken(mark, d.entitlement)
        /\ d.doomed => Access!Overruled(mark, d.entitlement)
    BY <1>2, DecisionBefore DEF DecisionFits, EntitlementSteps,
       Access!SameState
  <2> QED BY <2>1, Replaces
<1> QED BY <1>1, <1>2

LEMMA SetPolicyKeeps ==
  ASSUME AccessInv, NEW c \in Calls, Access!SetPolicy(c)
  PROVE  AccessKept
<1>1. /\ decision[c].step = "setting_policy" /\ UNCHANGED mark
      /\ \/ /\ Access!SameState(policyMark, decision[c].seen)
            /\ policyMark' = Access!Of(decision[c].policy)
            /\ Access!Activated(c)
         \/ Access!Deny(c) /\ UNCHANGED policyMark
  BY DEF Access!SetPolicy, Access!At
<1>2. CASE Access!Deny(c) /\ UNCHANGED policyMark
  BY <1>1, <1>2, DecisionBefore, DenyKeeps
<1>3. CASE /\ Access!SameState(policyMark, decision[c].seen)
           /\ policyMark' = Access!Of(decision[c].policy)
           /\ Access!Activated(c)
  <2>1. /\ policyMark' \in Access!Marks
        /\ Climbs(policyMark, policyMark')
        /\ mark' \in Access!Marks /\ Climbs(mark, mark')
        /\ decision[c].policy \in Access!Documents
        /\ ~decision[c].doomed
    BY <1>1, <1>3, Sets, DecisionBefore
  <2> QED BY <1>3, <2>1, AnswersKeep
<1> QED BY <1>1, <1>2, <1>3

LEMMA CheckPolicyKeeps ==
  ASSUME AccessInv, NEW c \in Calls, Access!CheckPolicy(c)
  PROVE  AccessKept
<1>1. /\ decision[c].step = "checking_policy"
      /\ UNCHANGED <<policyMark, mark>>
      /\ \/ /\ policyMark = Access!Of(decision[c].policy)
            /\ Access!To(c, "verifying")
         \/ Access!Deny(c)
  BY DEF Access!CheckPolicy, Access!At
<1>2. CASE Access!Deny(c)
  BY <1>1, <1>2, DecisionBefore, DenyKeeps
<1>3. CASE /\ policyMark = Access!Of(decision[c].policy)
           /\ Access!To(c, "verifying")
  <2>1. decision[c].policy \in Access!Documents
    BY <1>1, DecisionBefore DEF DecisionFits
  <2>2. ~Access!Overruled(policyMark, decision[c].policy)
    BY <1>3, <2>1, InForce
  <2>3. "verifying" \in Access!Steps
    BY DEF Access!Steps
  <2> QED BY <1>1, <1>3, <2>2, <2>3, GoesOn
       DEF PolicySteps, EntitlementSteps
<1> QED BY <1>1, <1>2, <1>3

LEMMA AllowKeeps ==
  ASSUME AccessInv, NEW c \in Calls, Access!Allow(c),
         ~decision[c].doomed,
         policyMark' \in Access!Marks, mark' \in Access!Marks,
         Climbs(policyMark, policyMark'), Climbs(mark, mark')
  PROVE  AccessKept
<1>1. /\ "allowed" \in {"activated", "allowed", "denied"}
      /\ "allowed" # "activated"
  OBVIOUS
<1> QED BY <1>1, AnswersKeep DEF Access!Allow

LEMMA VerifyKeeps ==
  ASSUME AccessInv, NEW c \in Calls, Access!Verify(c)
  PROVE  AccessKept
<1>1. /\ decision[c].step = "verifying"
      /\ UNCHANGED <<policyMark, mark>>
      /\ \/ Access!To(c, "advancing") \/ Access!To(c, "cached")
         \/ Access!Deny(c)
  BY DEF Access!Verify, Access!At
<1>2. "advancing" \in Access!Steps /\ "cached" \in Access!Steps
  BY DEF Access!Steps
<1>3. CASE Access!To(c, "advancing") \/ Access!To(c, "cached")
  BY <1>1, <1>2, <1>3, GoesOn DEF PolicySteps, EntitlementSteps
<1>4. CASE Access!Deny(c)
  BY <1>1, <1>4, DecisionBefore, DenyKeeps
<1> QED BY <1>1, <1>3, <1>4

\* What stands in the mark is not overruled.
LEMMA NotDoomed ==
  ASSUME AccessInv, NEW c \in Calls, decision[c].step \in EntitlementSteps,
         mark = Access!Of(decision[c].entitlement)
  PROVE  ~decision[c].doomed
<1>1. /\ decision[c].entitlement \in Access!Documents
      /\ decision[c].doomed =>
           Access!Overruled(mark, decision[c].entitlement)
  BY DecisionBefore DEF DecisionFits
<1> QED BY <1>1, InForce

LEMMA UseCachedKeeps ==
  ASSUME AccessInv, NEW c \in Calls, Access!UseCached(c)
  PROVE  AccessKept
<1>1. /\ decision[c].step \in EntitlementSteps
      /\ UNCHANGED <<policyMark, mark>>
      /\ \/ /\ mark = Access!Of(decision[c].entitlement)
            /\ Access!Allow(c)
         \/ Access!Deny(c)
  BY DEF Access!UseCached, Access!At, EntitlementSteps
<1> QED BY <1>1, NotDoomed, DecisionBefore, DenyKeeps, AllowKeeps

LEMMA AdvanceKeeps ==
  ASSUME AccessInv, NEW c \in Calls, Access!Advance(c)
  PROVE  AccessKept
<1> DEFINE e == decision[c].entitlement
<1>1. /\ decision[c].step = "advancing"
      /\ UNCHANGED <<policyMark, mark>>
      /\ \/ Access!Deny(c)
         \/ mark = Access!Of(e) /\ Access!Allow(c)
         \/ ~Access!Overtaken(mark, e) /\ Access!Reads(c, mark, "setting")
  BY Zenon DEF Access!Advance, Access!At
<1>2. decision[c].step \in EntitlementSteps
  BY <1>1 DEF EntitlementSteps
<1>3. CASE Access!Deny(c)
  BY <1>1, <1>3, DecisionBefore, DenyKeeps
<1>4. CASE mark = Access!Of(e) /\ Access!Allow(c)
  BY <1>1, <1>2, <1>4, NotDoomed, DecisionBefore, AllowKeeps
<1>5. CASE ~Access!Overtaken(mark, e) /\ Access!Reads(c, mark, "setting")
  <2>1. "setting" \in {"setting_policy", "setting"}
        /\ "setting_policy" # "setting"
    OBVIOUS
  <2> QED BY <1>1, <1>5, <2>1, DecisionBefore, ReadsKeep
<1> QED BY <1>1, <1>3, <1>4, <1>5

LEMMA SetMarkKeeps ==
  ASSUME AccessInv, NEW c \in Calls, Access!SetMark(c)
  PROVE  AccessKept
<1> DEFINE d == decision[c]
           y == [d EXCEPT !.step = "advancing"]
           z == [y EXCEPT !.tried = d.tried + 1]
           x == [z EXCEPT !.seen = None]
<1>1. /\ d.step = "setting" /\ UNCHANGED policyMark
      /\ \/ /\ Access!SameState(mark, d.seen)
            /\ mark' = Access!Of(d.entitlement) /\ Access!Allow(c)
         \/ Access!Deny(c) /\ UNCHANGED mark
         \/ decision' = [decision EXCEPT ![c] = x] /\ UNCHANGED mark
  BY DEF Access!SetMark, Access!At, AccessInv
<1>2. CASE Access!Deny(c) /\ UNCHANGED mark
  BY <1>1, <1>2, DecisionBefore, DenyKeeps
<1>3. CASE /\ Access!SameState(mark, d.seen)
           /\ mark' = Access!Of(d.entitlement) /\ Access!Allow(c)
  <2>1. /\ mark' \in Access!Marks /\ Climbs(mark, mark')
        /\ policyMark' \in Access!Marks
        /\ Climbs(policyMark, policyMark')
        /\ ~d.doomed
    BY <1>1, <1>3, Sets, DecisionBefore
  <2> QED BY <1>3, <2>1, AllowKeeps
<1>4. CASE decision' = [decision EXCEPT ![c] = x] /\ UNCHANGED mark
  <2>1. /\ d \in Decisions /\ DecisionFits(d, policyMark, mark)
        /\ "advancing" \in Access!Steps
        /\ policyMark' \in Access!Marks /\ mark' \in Access!Marks
        /\ Climbs(policyMark, policyMark') /\ Climbs(mark, mark')
        /\ None \in Access!Marks
    BY <1>1, <1>4, DecisionBefore DEF Access!Steps, Access!Marks
  <2>2. /\ y \in Decisions /\ y.step = "advancing"
        /\ y.entitlement = d.entitlement /\ y.doomed = d.doomed
    BY <2>1 DEF Decisions
  <2>3. d.tried \in Nat
    BY <2>1 DEF Decisions
  <2> HIDE DEF y
  <2>4. d.tried + 1 \in Nat
    BY <2>3
  <2>5. /\ x \in Decisions /\ x.step = "advancing"
        /\ x.entitlement = d.entitlement /\ x.doomed = d.doomed
    BY <2>1, <2>2, <2>4 DEF Decisions
  <2> HIDE DEF x
  <2>6. DecisionFits(x, policyMark', mark')
    BY <1>1, <1>4, <2>1, <2>5
    DEF DecisionFits, PolicySteps, EntitlementSteps
  <2> QED BY <1>4, <2>1, <2>5, <2>6, DecisionMoves DEF y
<1> QED BY <1>1, <1>2, <1>3, <1>4

LEMMA AccessFailKeeps ==
  ASSUME AccessInv, NEW c \in Calls, Access!Fail(c)
  PROVE  AccessKept
<1>1. /\ Access!Deny(c)
      /\ \/ UNCHANGED <<policyMark, mark>>
         \/ /\ decision[c].step = "setting_policy"
            /\ Access!SameState(policyMark, decision[c].seen)
            /\ policyMark' = Access!Of(decision[c].policy)
            /\ UNCHANGED mark
         \/ /\ decision[c].step = "setting"
            /\ Access!SameState(mark, decision[c].seen)
            /\ mark' = Access!Of(decision[c].entitlement)
            /\ UNCHANGED policyMark
  BY DEF Access!Fail, Access!At
<1>2. /\ policyMark' \in Access!Marks /\ mark' \in Access!Marks
      /\ Climbs(policyMark, policyMark') /\ Climbs(mark, mark')
  BY <1>1, Sets, DecisionBefore
<1> QED BY <1>1, <1>2, DenyKeeps

\* The marks climb while no decision moves.
LEMMA MarksClimb ==
  ASSUME AccessInv, UNCHANGED decision,
         policyMark' \in Access!Marks, mark' \in Access!Marks,
         Climbs(policyMark, policyMark'), Climbs(mark, mark')
  PROVE  AccessKept
<1>1. \A c \in Calls : DecisionFits(decision[c], policyMark', mark')
  BY FitsStays DEF AccessInv
<1>2. \A c \in Calls : decision[c].doomed =>
        decision'[c].step \notin {"activated", "allowed"}
  BY DEF AccessInv, DecisionFits, PolicySteps, EntitlementSteps
<1> QED BY <1>1, <1>2 DEF AccessKept, AccessInv

LEMMA RevokePolicyKeeps ==
  ASSUME AccessInv, Access!RevokePolicy
  PROVE  AccessKept
<1> DEFINE n == [policyMark EXCEPT !.revoked = TRUE]
<1>1. /\ policyMark # None /\ policyMark' = n
      /\ UNCHANGED <<mark, decision>>
      /\ policyMark \in Access!Marks /\ mark \in Access!Marks
  BY DEF Access!RevokePolicy, AccessInv
<1>2. /\ n \in Access!Marks /\ n # None /\ n.revoked
      /\ n.revision = policyMark.revision
      /\ policyMark.revision \in Nat
  <2>1. policyMark \in [revision : EntitlementRevisions,
                        digest : Digests \cup {None}, revoked : BOOLEAN]
    BY <1>1 DEF Access!Marks
  <2>2. /\ n \in [revision : EntitlementRevisions,
                  digest : Digests \cup {None}, revoked : BOOLEAN]
        /\ n.revoked /\ n.revision = policyMark.revision
    BY <2>1
  <2> HIDE DEF n
  <2> QED BY <1>1, <2>1, <2>2, NumbersAssumption, NothingAssumption
       DEF Access!Marks
<1> HIDE DEF n
<1>3. Climbs(policyMark, policyMark') /\ Climbs(mark, mark')
  BY <1>1, <1>2, MarkFacts DEF Climbs
<1> QED BY <1>1, <1>2, <1>3, MarksClimb

LEMMA RevokeMarkKeeps ==
  ASSUME AccessInv, NEW revision \in EntitlementRevisions,
         Access!Revoke(revision)
  PROVE  AccessKept
<1> DEFINE later == IF mark.revision > revision THEN mark.revision
                    ELSE revision
           y == [mark EXCEPT !.revoked = TRUE]
           z == [y EXCEPT !.revision = later]
           new == [revision |-> revision, digest |-> None,
                   revoked |-> TRUE]
<1>1. /\ UNCHANGED <<policyMark, decision>>
      /\ policyMark \in Access!Marks /\ mark \in Access!Marks
      /\ revision \in Nat
  BY NumbersAssumption DEF Access!Revoke, AccessInv
<1>2. CASE mark = None
  <2>1. mark' = new
    BY <1>2 DEF Access!Revoke
  <2>2. new \in Access!Marks
    BY DEF Access!Marks
  <2>3. Climbs(policyMark, policyMark') /\ Climbs(mark, mark')
    BY <1>1, <1>2, MarkFacts DEF Climbs
  <2> QED BY <1>1, <2>1, <2>2, <2>3, MarksClimb
<1>3. CASE mark # None
  <2>1. mark \in [revision : EntitlementRevisions,
                  digest : Digests \cup {None}, revoked : BOOLEAN]
    BY <1>1, <1>3 DEF Access!Marks
  <2>2. mark' = z
    BY <1>3, <2>1 DEF Access!Revoke
  <2>3. /\ mark.revision \in Nat /\ later \in EntitlementRevisions
        /\ later \in Nat /\ later >= mark.revision
    <3>1. mark.revision \in EntitlementRevisions
      BY <2>1
    <3>2. mark.revision \in Nat
      BY <3>1, NumbersAssumption
    <3> QED BY <1>1, <3>1, <3>2
  <2> HIDE DEF later
  <2>4. /\ z \in [revision : EntitlementRevisions,
                  digest : Digests \cup {None}, revoked : BOOLEAN]
        /\ z.revoked /\ z.revision = later
    BY <2>1, <2>3
  <2> HIDE DEF z
  <2>5. z \in Access!Marks /\ z # None
    BY <2>4, NumbersAssumption, NothingAssumption DEF Access!Marks
  <2>6. Climbs(policyMark, policyMark') /\ Climbs(mark, mark')
    BY <1>1, <2>2, <2>3, <2>4, <2>5, MarkFacts DEF Climbs
  <2> QED BY <1>1, <2>2, <2>5, <2>6, MarksClimb
<1> QED BY <1>2, <1>3

LEMMA AccessStart ==
  ASSUME Access!Init
  PROVE  AccessInv
<1>1. Access!Idle \in Decisions
  BY DEF Access!Idle, Decisions, Access!Steps, Access!Marks
<1>2. DecisionFits(Access!Idle, None, None)
  BY DEF DecisionFits, Access!Idle, PolicySteps, EntitlementSteps
<1> QED BY <1>1, <1>2 DEF Access!Init, AccessInv, Access!Marks

LEMMA AccessStep ==
  ASSUME AccessInv, [Access!Next]_(Access!vars)
  PROVE  AccessKept
<1>1. CASE UNCHANGED Access!vars
  <2>1. /\ UNCHANGED <<policyMark, mark, decision>>
        /\ policyMark \in Access!Marks /\ mark \in Access!Marks
    BY <1>1 DEF Access!vars, AccessInv
  <2> QED BY <2>1, MarkFacts, MarksClimb
<1>2. ASSUME NEW c \in Calls, NEW d \in Access!Documents,
             Access!Activate(c, d)
               \/ \E a \in Calls : Access!Evaluate(c, a, d)
      PROVE  AccessKept
  BY <1>2, BeginsKeeps
<1> QED
  BY <1>1, <1>2, VerifyPolicyKeeps, ReadPolicyKeeps, SetPolicyKeeps,
     CheckPolicyKeeps, VerifyKeeps, UseCachedKeeps, AdvanceKeeps,
     SetMarkKeeps, AccessFailKeeps, RevokePolicyKeeps, RevokeMarkKeeps
  DEF Access!Next

(* No mark is ever lowered and no revocation undone at its revision; no    *)
(* policy is activated and no access allowed by a document that was        *)
(* overruled when the call began, however calls overlap and stores fail.   *)
THEOREM RevocationsKeep == Access!Spec => RevocationsHold
<1>1. Access!Init => AccessInv
  BY AccessStart
<1>2. AccessInv /\ [Access!Next]_(Access!vars) => AccessInv'
  BY AccessStep DEF AccessKept
<1>3. AccessInv /\ [Access!Next]_(Access!vars) =>
        [/\ \A m \in {<<policyMark, policyMark'>>, <<mark, mark'>>} :
              m[1] # None =>
                /\ m[2] # None /\ m[2].revision >= m[1].revision
                /\ m[2].revision = m[1].revision /\ m[1].revoked =>
                     m[2].revoked
         /\ \A c \in Calls : decision[c].doomed =>
              decision'[c].step \notin {"activated", "allowed"}
        ]_(Access!vars)
  BY AccessStep DEF AccessKept, Climbs
<1> QED BY <1>1, <1>2, <1>3, PTL DEF Access!Spec, RevocationsHold,
       Access!RevocationsHold

-----------------------------------------------------------------------------
(* The outbox of security events.                                          *)

Leases == [batch : Calls, until : Int]
Entries == [attempts : Nat, due : Int, claim : Leases \cup {None}]
Claims == [attempts : Nat, step : Outbox!Steps]
BatchOf(es) == [now : Nat, workers : Int, claims : [es -> Claims]]
IsBatch(x) == \E es \in SUBSET Operations : x \in BatchOf(es)

OutboxTyped ==
  /\ clock \in Nat /\ known \subseteq Operations
  /\ siem \subseteq Operations /\ dead \subseteq Operations
  /\ queue \in [Operations -> Entries \cup {None}]
  /\ batch = [b \in Calls |-> batch[b]]
  /\ \A b \in Calls : batch[b] = None \/ IsBatch(batch[b])
  /\ tries \in [Operations -> Nat]

\* An event is one of a batch's claims, and not settled.
Claimed(b, e) == batch[b] # None /\ e \in DOMAIN batch[b].claims
Unsettled(b, e) ==
  Claimed(b, e) /\ batch[b].claims[e].step \notin {"settled", "left"}

\* The queue has the event under the batch's claim.
Leased(b, e) ==
  /\ queue[e] # None /\ queue[e].claim # None /\ queue[e].claim.batch = b
  /\ queue[e].claim.until = batch[b].now + Lease

(* What a batch's claim says of its event: a delivered one was received,   *)
(* each step past waiting was a try, and an unsettled one is in the queue  *)
(* under the batch's claim or its lease has run out.                       *)
ClaimFits(b, e) == Claimed(b, e) =>
  LET k == batch[b].claims[e] IN
  /\ batch[b].now <= clock
  /\ k.step = "delivered" => e \in siem
  /\ tries[e] >= k.attempts
  /\ k.step # "waiting" => tries[e] >= k.attempts + 1
  /\ Unsettled(b, e) => Leased(b, e) \/ batch[b].now + Lease <= clock

\* What the queue and the dead letters say of an event.
EventFits(e) ==
  /\ queue[e] # None =>
       LET c == queue[e].claim IN
       /\ e \in known /\ e \notin dead /\ tries[e] >= queue[e].attempts
       /\ c # None => /\ Claimed(c.batch, e)
                      /\ batch[c.batch].claims[e].attempts
                           = queue[e].attempts
                      /\ c.until = batch[c.batch].now + Lease
  /\ queue[e] = None /\ e \in known => e \in siem \cup dead
  /\ e \in dead => e \in known /\ tries[e] >= MaxAttempts

\* Of two batches with the event unsettled, one began after the other's lease.
Apart(b, c, e) ==
  b # c /\ Unsettled(b, e) /\ Unsettled(c, e) =>
    \/ batch[b].now + Lease <= batch[c].now
    \/ batch[c].now + Lease <= batch[b].now

OutboxInv ==
  /\ OutboxTyped
  /\ \A e \in Operations : EventFits(e)
  /\ \A b \in Calls, e \in Operations : ClaimFits(b, e)
  /\ \A b, c \in Calls, e \in Operations : Apart(b, c, e)

LEMMA OutboxStart ==
  ASSUME Outbox!Init
  PROVE  OutboxInv
<1>1. /\ clock = 0 /\ known = {} /\ dead = {} /\ siem = {}
      /\ queue = [e \in Operations |-> None]
      /\ batch = [b \in Calls |-> None]
      /\ tries = [e \in Operations |-> 0]
  BY DEF Outbox!Init
<1>2. OutboxTyped
  BY <1>1 DEF OutboxTyped
<1>3. \A b \in Calls, e \in Operations : ~Claimed(b, e)
  BY <1>1 DEF Claimed
<1>4. \A e \in Operations : EventFits(e)
  BY <1>1 DEF EventFits
<1> QED BY <1>2, <1>3, <1>4 DEF OutboxInv, ClaimFits, Apart, Unsettled

\* What a batch is.
LEMMA BatchFacts ==
  ASSUME NEW x, IsBatch(x)
  PROVE  /\ x # None /\ x.now \in Nat /\ x.workers \in Int
         /\ DOMAIN x.claims \subseteq Operations
         /\ \A e \in DOMAIN x.claims : x.claims[e] \in Claims
<1> PICK es \in SUBSET Operations : x \in BatchOf(es)
  BY DEF IsBatch
<1>1. None \notin BatchOf(es)
  BY NothingAssumption DEF BatchOf, Claims
<1>2. /\ x.now \in Nat /\ x.workers \in Int
      /\ x.claims \in [es -> Claims]
  BY DEF BatchOf
<1> QED BY <1>1, <1>2

LEMMA NothingQueued == None \notin Entries /\ None \notin Leases
BY NothingAssumption DEF Entries, Leases

\* What is known before a step.
LEMMA OutboxBefore ==
  ASSUME OutboxInv
  PROVE  /\ OutboxTyped
         /\ \A e \in Operations :
              /\ EventFits(e) /\ tries[e] \in Nat
              /\ queue[e] # None =>
                   /\ queue[e] \in Entries /\ queue[e].attempts \in Nat
                   /\ queue[e].due \in Int
                   /\ queue[e].claim # None =>
                        /\ queue[e].claim \in Leases
                        /\ queue[e].claim.batch \in Calls
                        /\ queue[e].claim.until \in Int
         /\ \A b \in Calls, e \in Operations : ClaimFits(b, e)
         /\ \A b \in Calls : \A e : Claimed(b, e) =>
              /\ e \in Operations /\ IsBatch(batch[b])
              /\ batch[b].now \in Nat /\ batch[b].claims[e] \in Claims
              /\ batch[b].claims[e].attempts \in Nat
         /\ clock \in Nat /\ Lease \in Nat /\ MaxAttempts \in Nat
<1>1. OutboxTyped
  BY DEF OutboxInv
<1>2. ASSUME NEW e \in Operations, queue[e] # None
      PROVE  /\ queue[e] \in Entries /\ queue[e].attempts \in Nat
             /\ queue[e].due \in Int
             /\ queue[e].claim # None =>
                  /\ queue[e].claim \in Leases
                  /\ queue[e].claim.batch \in Calls
                  /\ queue[e].claim.until \in Int
  BY <1>1, <1>2 DEF OutboxTyped, Entries, Leases
<1>3. ASSUME NEW b \in Calls, NEW e, Claimed(b, e)
      PROVE  /\ e \in Operations /\ IsBatch(batch[b])
             /\ batch[b].now \in Nat /\ batch[b].claims[e] \in Claims
             /\ batch[b].claims[e].attempts \in Nat
  <2>1. IsBatch(batch[b]) /\ e \in DOMAIN batch[b].claims
    BY <1>1, <1>3 DEF OutboxTyped, Claimed
  <2> QED BY <2>1, BatchFacts DEF Claims
<1> QED BY <1>1, <1>2, <1>3, NumbersAssumption DEF OutboxInv, OutboxTyped

\* A batch's claim goes on to a step; its other claims stay.
Moved(b, e, step) ==
  /\ batch' = [c \in Calls |-> batch'[c]]
  /\ \A c \in Calls : c # b => batch'[c] = batch[c]
  /\ IsBatch(batch'[b]) /\ batch'[b].now = batch[b].now
  /\ DOMAIN batch'[b].claims = DOMAIN batch[b].claims
  /\ \A f \in DOMAIN batch[b].claims :
       f # e => batch'[b].claims[f] = batch[b].claims[f]
  /\ batch'[b].claims[e].attempts = batch[b].claims[e].attempts
  /\ batch'[b].claims[e].step = step

\* The batch after its claim has gone on.
LEMMA BatchMoves ==
  ASSUME OutboxInv, NEW b \in Calls, NEW e \in Operations, Claimed(b, e),
         NEW step \in Outbox!Steps, NEW left \in Int,
         LET k == [batch[b].claims[e] EXCEPT !.step = step]
             claims == [batch[b].claims EXCEPT ![e] = k]
             y == [batch[b] EXCEPT !.claims = claims]
         IN  batch' = [batch EXCEPT ![b] = [y EXCEPT !.workers = left]]
  PROVE  Moved(b, e, step)
<1> DEFINE x == batch[b]
           k == [x.claims[e] EXCEPT !.step = step]
           cs == [x.claims EXCEPT ![e] = k]
           y == [x EXCEPT !.claims = cs]
           z == [y EXCEPT !.workers = left]
<1>1. IsBatch(x) /\ e \in DOMAIN x.claims /\ x.claims[e] \in Claims
  BY OutboxBefore DEF Claimed
<1> PICK es \in SUBSET Operations : x \in BatchOf(es)
  BY <1>1 DEF IsBatch
<1>2. x.claims \in [es -> Claims] /\ x.now \in Nat
  BY DEF BatchOf
<1>3. batch' = [batch EXCEPT ![b] = z]
  OBVIOUS
<1>4. batch = [c \in Calls |-> batch[c]]
  BY OutboxBefore DEF OutboxTyped
<1>5. k \in Claims /\ k.attempts = x.claims[e].attempts /\ k.step = step
  BY <1>1 DEF Claims
<1> HIDE DEF k, x
<1>6. /\ cs \in [es -> Claims] /\ cs[e] = k
      /\ \A f \in es : f # e => cs[f] = x.claims[f]
      /\ DOMAIN x.claims = es
  BY <1>1, <1>2, <1>5
<1> HIDE DEF cs
<1>7. z \in BatchOf(es) /\ z.claims = cs /\ z.now = x.now
  BY <1>2, <1>6 DEF BatchOf
<1> HIDE DEF z
<1>8. /\ batch' = [c \in Calls |-> batch'[c]] /\ batch'[b] = z
      /\ \A c \in Calls : c # b => batch'[c] = batch[c]
  BY <1>3, <1>4
<1>9. IsBatch(z) /\ DOMAIN cs = es
  BY <1>6, <1>7 DEF IsBatch
<1> QED BY <1>5, <1>6, <1>7, <1>8, <1>9 DEF Moved, x

LEMMA ToMoves ==
  ASSUME OutboxInv, NEW b \in Calls, NEW e \in Operations, Claimed(b, e),
         NEW step \in Outbox!Steps, Outbox!To(b, e, step)
  PROVE  Moved(b, e, step)
<1> DEFINE x == batch[b]
           k == [x.claims[e] EXCEPT !.step = step]
           cs == [x.claims EXCEPT ![e] = k]
           y == [x EXCEPT !.claims = cs]
<1>1. IsBatch(x) /\ e \in DOMAIN x.claims /\ x.claims[e] \in Claims
  BY OutboxBefore DEF Claimed
<1> PICK es \in SUBSET Operations : x \in BatchOf(es)
  BY <1>1 DEF IsBatch
<1>2. x.claims \in [es -> Claims] /\ x.workers \in Int
  BY DEF BatchOf
<1>3. batch = [c \in Calls |-> batch[c]]
  BY OutboxBefore DEF OutboxTyped
<1>4. batch' = [batch EXCEPT ![b] = y]
  BY <1>1, <1>2, <1>3 DEF Outbox!To
<1> HIDE DEF cs
<1>5. [y EXCEPT !.workers = x.workers] = y
  BY DEF BatchOf
<1> QED BY <1>2, <1>4, <1>5, BatchMoves DEF cs

\* One claim of a batch moves, and with it its event alone.
LEMMA ClaimMoves ==
  ASSUME OutboxInv, NEW b \in Calls, NEW e \in Operations, Claimed(b, e),
         NEW step \in Outbox!Steps, Moved(b, e, step),
         UNCHANGED <<clock, known>>,
         queue' \in [Operations -> Entries \cup {None}],
         tries' \in [Operations -> Nat], tries'[e] >= tries[e],
         siem' \subseteq Operations, siem \subseteq siem',
         dead \subseteq dead', dead' \subseteq Operations,
         \A f \in Operations : f # e =>
           /\ queue'[f] = queue[f] /\ tries'[f] = tries[f]
           /\ f \in dead' => f \in dead,
         \/ queue'[e] = queue[e]
         \/ queue[e].claim # None /\ queue[e].claim.batch = b,
         EventFits(e)', ClaimFits(b, e)',
         step \notin {"settled", "left"} => Unsettled(b, e)
  PROVE  OutboxInv'
<1>1. OutboxTyped'
  <2>1. \A c \in Calls : batch'[c] = None \/ IsBatch(batch'[c])
    BY DEF OutboxInv, OutboxTyped, Moved
  <2> QED BY <2>1 DEF OutboxInv, OutboxTyped, Moved
<1>2. batch[b] # None /\ batch'[b] # None
  BY BatchFacts DEF Moved, Claimed
<1>3. \A c \in Calls, f \in Operations :
        /\ Claimed(c, f)' <=> Claimed(c, f)
        /\ Claimed(c, f) => batch'[c].now = batch[c].now
        /\ Claimed(c, f) =>
             batch'[c].claims[f].attempts = batch[c].claims[f].attempts
        /\ Claimed(c, f) /\ (c # b \/ f # e) =>
             batch'[c].claims[f] = batch[c].claims[f]
        /\ Unsettled(c, f)' => Unsettled(c, f)
  <2>1. ASSUME NEW c \in Calls, NEW f \in Operations, c # b
        PROVE  /\ Claimed(c, f)' <=> Claimed(c, f)
               /\ batch'[c] = batch[c]
    BY <2>1 DEF Moved, Claimed
  <2>2. ASSUME NEW f \in Operations
        PROVE  /\ Claimed(b, f)' <=> Claimed(b, f)
               /\ batch'[b].now = batch[b].now
               /\ Claimed(b, f) =>
                    batch'[b].claims[f].attempts
                      = batch[b].claims[f].attempts
               /\ Claimed(b, f) /\ f # e =>
                    batch'[b].claims[f] = batch[b].claims[f]
    BY <1>2, <2>2 DEF Moved, Claimed
  <2>3. Unsettled(b, e)' => Unsettled(b, e)
    BY DEF Unsettled, Moved
  <2> QED BY <2>1, <2>2, <2>3 DEF Unsettled
<1>4. \A f \in Operations : EventFits(f)'
  <2>1. ASSUME NEW f \in Operations, f # e
        PROVE  EventFits(f)'
    <3>1. /\ EventFits(f) /\ queue'[f] = queue[f] /\ tries'[f] = tries[f]
          /\ f \in dead' <=> f \in dead
          /\ queue[f] # None /\ queue[f].claim # None =>
               queue[f].claim.batch \in Calls
      BY <2>1, OutboxBefore
    <3> QED BY <1>3, <3>1 DEF EventFits
  <2> QED BY <2>1
<1>5. \A c \in Calls, f \in Operations : ClaimFits(c, f)'
  <2>1. ASSUME NEW c \in Calls, NEW f \in Operations, c # b \/ f # e,
               Claimed(c, f)'
        PROVE  ClaimFits(c, f)'
    <3>1. /\ ClaimFits(c, f) /\ Claimed(c, f)
          /\ batch'[c].now = batch[c].now
          /\ batch'[c].claims[f] = batch[c].claims[f]
          /\ batch[c].claims[f].attempts \in Nat
          /\ Unsettled(c, f)' => Unsettled(c, f)
          /\ tries[f] \in Nat /\ tries'[f] \in Nat
          /\ tries'[f] >= tries[f]
      BY <1>3, <2>1, OutboxBefore
    <3>2. Leased(c, f) => Leased(c, f)'
      <4>1. CASE queue'[f] = queue[f]
        BY <3>1, <4>1 DEF Leased
      <4>2. CASE f = e /\ queue[e].claim.batch = b
        BY <2>1, <4>2 DEF Leased
      <4> QED BY <4>1, <4>2
    <3> QED BY <3>1, <3>2 DEF ClaimFits
  <2> QED BY <2>1 DEF ClaimFits
<1>6. \A c, d \in Calls, f \in Operations : Apart(c, d, f)'
  <2>1. ASSUME NEW c \in Calls, NEW d \in Calls, NEW f \in Operations,
               c # d, Unsettled(c, f)', Unsettled(d, f)'
        PROVE  \/ batch'[c].now + Lease <= batch'[d].now
               \/ batch'[d].now + Lease <= batch'[c].now
    <3>1. /\ Unsettled(c, f) /\ Unsettled(d, f) /\ Apart(c, d, f)
          /\ batch'[c].now = batch[c].now /\ batch'[d].now = batch[d].now
      BY <1>3, <2>1 DEF OutboxInv, Unsettled
    <3> QED BY <2>1, <3>1 DEF Apart
  <2> QED BY <2>1 DEF Apart
<1> QED BY <1>1, <1>4, <1>5, <1>6 DEF OutboxInv

\* The steps there are.
LEMMA StepNames ==
  /\ "waiting" \in Outbox!Steps /\ "delivering" \in Outbox!Steps
  /\ "delivered" \in Outbox!Steps /\ "failed" \in Outbox!Steps
  /\ "settled" \in Outbox!Steps /\ "left" \in Outbox!Steps
BY DEF Outbox!Steps

LEMMA DeliverKeeps ==
  ASSUME OutboxInv, NEW b \in Calls, NEW e \in Operations,
         Outbox!Deliver(b, e)
  PROVE  OutboxInv'
<1>1. /\ Claimed(b, e) /\ batch[b].claims[e].step = "waiting"
      /\ Outbox!To(b, e, "delivering")
      /\ tries' = [tries EXCEPT ![e] = tries[e] + 1]
      /\ UNCHANGED <<clock, known, queue, dead, siem>>
  BY DEF Outbox!Deliver, Outbox!At, Claimed
<1>2. Moved(b, e, "delivering")
  BY <1>1, StepNames, ToMoves
<1>3. /\ OutboxTyped /\ EventFits(e) /\ ClaimFits(b, e)
      /\ tries[e] \in Nat /\ batch[b].claims[e].attempts \in Nat
      /\ queue[e] # None => queue[e].attempts \in Nat
      /\ queue[e] # None /\ queue[e].claim # None =>
           queue[e].claim.batch \in Calls
  BY <1>1, OutboxBefore
<1>4. /\ tries' \in [Operations -> Nat] /\ tries'[e] = tries[e] + 1
      /\ \A f \in Operations : f # e => tries'[f] = tries[f]
  BY <1>1, <1>3 DEF OutboxTyped
<1>5. Unsettled(b, e)
  BY <1>1 DEF Unsettled
<1>6. /\ batch'[b].now = batch[b].now
      /\ batch'[b].claims[e].attempts = batch[b].claims[e].attempts
      /\ batch'[b].claims[e].step = "delivering"
      /\ \A c \in Calls : c # b => batch'[c] = batch[c]
      /\ batch'[b] # None
      /\ DOMAIN batch'[b].claims = DOMAIN batch[b].claims
  BY <1>2, BatchFacts DEF Moved
<1>7. ClaimFits(b, e)'
  BY <1>1, <1>3, <1>4, <1>5, <1>6 DEF ClaimFits, Leased
<1>8. EventFits(e)'
  <2>1. tries'[e] >= tries[e] /\ MaxAttempts \in Nat
    BY <1>3, <1>4, NumbersAssumption
  <2>2. queue[e] # None => tries'[e] >= queue[e].attempts
    BY <1>3, <1>4 DEF EventFits
  <2>3. e \in dead => tries'[e] >= MaxAttempts
    BY <1>3, <1>4, <2>1 DEF EventFits
  <2> QED BY <1>1, <1>3, <1>6, <2>2, <2>3 DEF EventFits, Claimed
<1> QED
  BY <1>1, <1>2, <1>3, <1>4, <1>5, <1>7, <1>8, StepNames, ClaimMoves
  DEF OutboxTyped

\* An event that is not settled yet stays where it is.
LEMMA WaitsKeep ==
  ASSUME OutboxInv, NEW b \in Calls, NEW e \in Operations,
         NEW step \in {"delivered", "failed", "left", "settled"},
         Moved(b, e, step),
         Unsettled(b, e), batch[b].claims[e].step # "waiting",
         UNCHANGED <<clock, known, queue, dead, tries>>,
         siem' \subseteq Operations, siem \subseteq siem',
         \A f \in siem' : f \in siem \/ f = e,
         step = "delivered" => e \in siem'
  PROVE  OutboxInv'
<1>1. /\ OutboxTyped /\ EventFits(e) /\ ClaimFits(b, e)
      /\ tries[e] \in Nat /\ Claimed(b, e)
      /\ queue[e] # None /\ queue[e].claim # None =>
           queue[e].claim.batch \in Calls
  BY OutboxBefore DEF Unsettled
<1>2. /\ batch'[b].now = batch[b].now
      /\ batch'[b].claims[e].attempts = batch[b].claims[e].attempts
      /\ batch'[b].claims[e].step = step
      /\ \A c \in Calls : c # b => batch'[c] = batch[c]
      /\ batch'[b] # None
      /\ DOMAIN batch'[b].claims = DOMAIN batch[b].claims
  BY BatchFacts DEF Moved
<1>3. ClaimFits(b, e)'
  BY <1>1, <1>2 DEF ClaimFits, Leased
<1>4. EventFits(e)'
  BY <1>1, <1>2 DEF EventFits, Claimed
<1>5. step \in Outbox!Steps /\ tries[e] >= tries[e]
  BY <1>1, StepNames
<1> QED BY <1>1, <1>3, <1>4, <1>5, ClaimMoves DEF OutboxTyped

LEMMA AnswerKeeps ==
  ASSUME OutboxInv, NEW b \in Calls, NEW e \in Operations,
         Outbox!Answer(b, e)
  PROVE  OutboxInv'
<1>1. /\ Claimed(b, e) /\ batch[b].claims[e].step = "delivering"
      /\ UNCHANGED <<clock, known, queue, dead, tries>>
      /\ \/ Outbox!To(b, e, "delivered") /\ siem' = siem \cup {e}
         \/ /\ Outbox!To(b, e, "failed")
            /\ siem' \in {siem, siem \cup {e}}
  BY DEF Outbox!Answer, Outbox!At, Claimed
<1>2. /\ Unsettled(b, e) /\ siem \subseteq Operations
      /\ batch[b].claims[e].step # "waiting"
  BY <1>1, OutboxBefore DEF Unsettled, OutboxTyped
<1>3. CASE Outbox!To(b, e, "delivered") /\ siem' = siem \cup {e}
  <2>1. Moved(b, e, "delivered")
    BY <1>1, <1>3, StepNames, ToMoves
  <2> QED BY <1>1, <1>2, <1>3, <2>1, WaitsKeep
<1>4. CASE Outbox!To(b, e, "failed") /\ siem' \in {siem, siem \cup {e}}
  <2>1. Moved(b, e, "failed")
    BY <1>1, <1>4, StepNames, ToMoves
  <2> QED BY <1>1, <1>2, <1>4, <2>1, WaitsKeep
<1> QED BY <1>1, <1>3, <1>4

\* A settled event: deleted, or put back for another try.
LEMMA SettlesKeep ==
  ASSUME OutboxInv, NEW b \in Calls, NEW e \in Operations,
         Moved(b, e, "settled"), Unsettled(b, e),
         batch[b].claims[e].step # "waiting", Outbox!Holds(b, e),
         NEW entry \in Entries \cup {None},
         queue' = [queue EXCEPT ![e] = entry],
         entry # None =>
           entry.claim = None /\ entry.attempts = queue[e].attempts + 1,
         dead' = dead \/ (dead' = dead \cup {e} /\ entry = None),
         entry = None => e \in siem \cup dead',
         e \in dead' => batch[b].claims[e].attempts + 1 >= MaxAttempts,
         UNCHANGED <<clock, known, siem, tries>>
  PROVE  OutboxInv'
<1>1. /\ OutboxTyped /\ EventFits(e) /\ ClaimFits(b, e)
      /\ tries[e] \in Nat /\ Claimed(b, e)
      /\ queue[e] # None /\ queue[e].claim # None
      /\ queue[e].claim.batch = b /\ queue[e].attempts \in Nat
      /\ batch[b].claims[e].attempts \in Nat /\ MaxAttempts \in Nat
  BY OutboxBefore DEF Unsettled, Outbox!Holds
<1>2. /\ e \in known /\ e \notin dead
      /\ batch[b].claims[e].attempts = queue[e].attempts
      /\ tries[e] >= queue[e].attempts + 1
  BY <1>1 DEF EventFits, ClaimFits
<1>3. /\ queue' \in [Operations -> Entries \cup {None}]
      /\ queue'[e] = entry
      /\ \A f \in Operations : f # e => queue'[f] = queue[f]
  BY <1>1 DEF OutboxTyped
<1>4. /\ batch'[b].now = batch[b].now
      /\ batch'[b].claims[e].attempts = batch[b].claims[e].attempts
      /\ batch'[b].claims[e].step = "settled"
      /\ DOMAIN batch'[b].claims = DOMAIN batch[b].claims
  BY DEF Moved
<1>5. ClaimFits(b, e)'
  BY <1>1, <1>4 DEF ClaimFits, Unsettled
<1>6. EventFits(e)'
  <2>1. e \in dead' => tries[e] >= MaxAttempts
    BY <1>1, <1>2
  <2> QED BY <1>1, <1>2, <1>3, <2>1 DEF EventFits
<1>7. "settled" \in Outbox!Steps /\ tries[e] >= tries[e]
  BY <1>1, StepNames
<1> QED BY <1>1, <1>3, <1>5, <1>6, <1>7, ClaimMoves DEF OutboxTyped

LEMMA AcknowledgeKeeps ==
  ASSUME OutboxInv, NEW b \in Calls, NEW e \in Operations,
         Outbox!Acknowledge(b, e)
  PROVE  OutboxInv'
<1>1. /\ Claimed(b, e) /\ batch[b].claims[e].step = "delivered"
      /\ UNCHANGED <<clock, known, dead, siem, tries>>
      /\ \/ /\ Outbox!Holds(b, e) /\ Outbox!Finish(e, queue[e])
            /\ Outbox!To(b, e, "settled")
         \/ Outbox!To(b, e, "failed") /\ UNCHANGED queue
  BY DEF Outbox!Acknowledge, Outbox!At, Claimed
<1>2. /\ Unsettled(b, e) /\ batch[b].claims[e].step # "waiting"
      /\ siem \subseteq Operations /\ e \in siem
      /\ queue[e] # None => e \notin dead
  BY <1>1, OutboxBefore
  DEF Unsettled, OutboxTyped, ClaimFits, EventFits
<1>3. CASE Outbox!To(b, e, "failed") /\ UNCHANGED queue
  <2>1. Moved(b, e, "failed")
    BY <1>1, <1>3, StepNames, ToMoves
  <2> QED BY <1>1, <1>2, <1>3, <2>1, WaitsKeep
<1>4. CASE /\ Outbox!Holds(b, e) /\ Outbox!Finish(e, queue[e])
           /\ Outbox!To(b, e, "settled")
  <2>1. Moved(b, e, "settled")
    BY <1>1, <1>4, StepNames, ToMoves
  <2>2. queue' = [queue EXCEPT ![e] = None] /\ e \notin dead
    BY <1>2, <1>4
    DEF Outbox!Finish, Outbox!Remaining, Outbox!Holds
  <2> QED BY <1>1, <1>2, <1>4, <2>1, <2>2, SettlesKeep
<1> QED BY <1>1, <1>3, <1>4

LEMMA SettleFailureKeeps ==
  ASSUME OutboxInv, NEW b \in Calls, NEW e \in Operations,
         Outbox!SettleFailure(b, e)
  PROVE  OutboxInv'
<1> DEFINE attempts == batch[b].claims[e].attempts
           again == [attempts |-> queue[e].attempts + 1,
                     due |-> batch[b].now + Outbox!Backoff(attempts),
                     claim |-> None]
<1>1. /\ Claimed(b, e) /\ batch[b].claims[e].step = "failed"
      /\ UNCHANGED <<clock, known, siem, tries>>
  BY DEF Outbox!SettleFailure, Outbox!At, Claimed
<1>2. /\ Unsettled(b, e) /\ batch[b].claims[e].step # "waiting"
      /\ siem \subseteq Operations
      /\ queue[e] # None => e \notin dead /\ queue[e].attempts \in Nat
      /\ attempts \in Nat /\ batch[b].now \in Nat
      /\ IsBatch(batch[b]) /\ batch[b].claims[e] \in Claims
  BY <1>1, OutboxBefore DEF Unsettled, OutboxTyped, EventFits
<1>3. CASE ~Outbox!Holds(b, e)
  <2> DEFINE x == batch[b]
             k == [x.claims[e] EXCEPT !.step = "left"]
             cs == [x.claims EXCEPT ![e] = k]
             y == [x EXCEPT !.claims = cs]
  <2>1. /\ batch' = [batch EXCEPT ![b].claims[e].step = "left",
                                  ![b].workers = @ - 1]
        /\ UNCHANGED <<queue, dead>>
    BY <1>3 DEF Outbox!SettleFailure
  <2>2. batch = [c \in Calls |-> batch[c]]
    BY OutboxBefore DEF OutboxTyped
  <2> PICK es \in SUBSET Operations : x \in BatchOf(es)
    BY <1>2 DEF IsBatch
  <2>3. batch' = [batch EXCEPT ![b] = [y EXCEPT !.workers = x.workers - 1]]
    BY <2>1, <2>2 DEF BatchOf
  <2>4. x.workers - 1 \in Int
    BY <1>2, BatchFacts
  <2>5. Moved(b, e, "left")
    BY <1>1, <2>3, <2>4, StepNames, BatchMoves
  <2> QED BY <1>1, <1>2, <2>1, <2>5, WaitsKeep
<1>4. CASE Outbox!Holds(b, e)
  <2>1. /\ Outbox!To(b, e, "settled") /\ queue[e] # None
        /\ queue[e].claim # None
        /\ IF Outbox!GivenUp(b, e)
           THEN dead' = dead \cup {e} /\ Outbox!Finish(e, queue[e])
           ELSE Outbox!Finish(e, again) /\ UNCHANGED dead
    BY <1>4 DEF Outbox!SettleFailure, Outbox!Holds
  <2>2. Moved(b, e, "settled")
    BY <1>1, <2>1, StepNames, ToMoves
  <2>3. CASE Outbox!GivenUp(b, e)
    <3>1. /\ queue' = [queue EXCEPT ![e] = None]
          /\ dead' = dead \cup {e} /\ attempts + 1 >= MaxAttempts
      BY <2>1, <2>3
      DEF Outbox!Finish, Outbox!Remaining, Outbox!GivenUp
    <3> QED BY <1>1, <1>2, <1>4, <2>2, <3>1, SettlesKeep
  <2>4. CASE ~Outbox!GivenUp(b, e)
    <3>1. batch[b].now + Outbox!Backoff(attempts) \in Int
      <4>1. (IF attempts < 5 THEN attempts ELSE 5) \in Nat
        BY <1>2
      <4>2. \A m \in Nat : 2 ^ m \in Int
        OBVIOUS
      <4>3. Outbox!Backoff(attempts) \in Int
        BY <4>1, <4>2 DEF Outbox!Backoff
      <4> QED BY <1>2, <4>3
    <3>2. /\ again \in Entries /\ again.claim = None
          /\ again.attempts = queue[e].attempts + 1
      BY <1>2, <2>1, <3>1 DEF Entries
    <3>3. Outbox!Finish(e, again) /\ UNCHANGED dead
      BY <2>1, <2>4
    <3> HIDE DEF again
    <3>4. queue' = [queue EXCEPT ![e] = again] /\ again # None
      BY <3>2, <3>3, NothingQueued DEF Outbox!Finish, Outbox!Remaining
    <3> HIDE DEF attempts
    <3> QED BY <1>1, <1>2, <1>4, <2>1, <2>2, <3>2, <3>3, <3>4, SettlesKeep
  <2> QED BY <2>3, <2>4
<1> QED BY <1>3, <1>4

\* Time passes, an event is enqueued.
LEMMA TickKeeps ==
  ASSUME OutboxInv, Outbox!Tick
  PROVE  OutboxInv'
<1>1. /\ clock' = clock + 1 /\ clock \in Nat
      /\ UNCHANGED <<known, queue, dead, batch, siem, tries>>
  BY OutboxBefore DEF Outbox!Tick
<1>2. OutboxTyped'
  BY <1>1 DEF OutboxInv, OutboxTyped
<1>3. \A e \in Operations : EventFits(e)'
  BY <1>1 DEF OutboxInv, EventFits, Claimed
<1>4. \A b \in Calls, e \in Operations : ClaimFits(b, e)'
  <2>1. ASSUME NEW b \in Calls, NEW e \in Operations, Claimed(b, e)
        PROVE  /\ batch[b].now \in Nat /\ ClaimFits(b, e)
               /\ Lease \in Nat
    BY <2>1, OutboxBefore
  <2> QED BY <1>1, <2>1 DEF ClaimFits, Claimed, Unsettled, Leased
<1>5. \A b, c \in Calls, e \in Operations : Apart(b, c, e)'
  BY <1>1 DEF OutboxInv, Apart, Unsettled, Claimed
<1> QED BY <1>2, <1>3, <1>4, <1>5 DEF OutboxInv

LEMMA EnqueueKeeps ==
  ASSUME OutboxInv, NEW e \in Operations, Outbox!Enqueue(e)
  PROVE  OutboxInv'
<1> DEFINE new == [attempts |-> 0, due |-> clock, claim |-> None]
<1>1. /\ e \notin known /\ known' = known \cup {e}
      /\ queue' = [queue EXCEPT ![e] = new]
      /\ UNCHANGED <<clock, dead, batch, siem, tries>>
      /\ clock \in Nat /\ OutboxTyped /\ EventFits(e)
      /\ tries[e] \in Nat
  BY OutboxBefore DEF Outbox!Enqueue
<1>2. new \in Entries /\ new.claim = None /\ new.attempts = 0
  BY <1>1 DEF Entries
<1> HIDE DEF new
<1>3. /\ queue' \in [Operations -> Entries \cup {None}]
      /\ queue'[e] = new /\ new # None
      /\ \A f \in Operations : f # e => queue'[f] = queue[f]
  BY <1>1, <1>2, NothingQueued DEF OutboxTyped
<1>4. OutboxTyped'
  BY <1>1, <1>3 DEF OutboxTyped
<1>5. queue[e] = None /\ e \notin dead
  BY <1>1 DEF EventFits
<1>6. \A f \in Operations : EventFits(f)'
  BY <1>1, <1>2, <1>3, <1>5 DEF OutboxInv, EventFits, Claimed
<1>7. \A b \in Calls, f \in Operations : ClaimFits(b, f)'
  <2>1. \A b \in Calls, f \in Operations : Leased(b, f) => Leased(b, f)'
    BY <1>1, <1>3, <1>5 DEF Leased
  <2> QED BY <1>1, <2>1 DEF OutboxInv, ClaimFits, Claimed, Unsettled
<1>8. \A b, c \in Calls, f \in Operations : Apart(b, c, f)'
  BY <1>1 DEF OutboxInv, Apart, Unsettled, Claimed
<1> QED BY <1>4, <1>6, <1>7, <1>8 DEF OutboxInv

\* What a batch that claims makes of the queue and of itself.
Claiming(b, taken) ==
  /\ taken \subseteq Operations /\ batch[b] = None
  /\ \A e \in taken :
       queue[e] # None
         /\ (queue[e].claim # None => queue[e].claim.until <= clock)
  /\ UNCHANGED <<clock, known, dead, siem, tries>>
  /\ batch' = [c \in Calls |-> batch'[c]]
  /\ \A c \in Calls : c # b => batch'[c] = batch[c]
  /\ IsBatch(batch'[b]) /\ batch'[b].now = clock
  /\ DOMAIN batch'[b].claims = taken
  /\ \A e \in taken : /\ batch'[b].claims[e].step = "waiting"
                      /\ batch'[b].claims[e].attempts = queue[e].attempts
  /\ queue' \in [Operations -> Entries \cup {None}]
  /\ \A e \in Operations :
       /\ queue'[e] # None <=> queue[e] # None
       /\ queue[e] # None => queue'[e].attempts = queue[e].attempts
       /\ e \in taken =>
            /\ queue'[e].claim # None /\ queue'[e].claim.batch = b
            /\ queue'[e].claim.until = clock + Lease
       /\ e \notin taken =>
            \/ queue'[e] = queue[e]
            \/ /\ queue[e] # None /\ queue'[e].claim = None
               /\ queue[e].claim # None => queue[e].claim.until <= clock

LEMMA ClaimClaims ==
  ASSUME OutboxInv, NEW b \in Calls, Outbox!Claim(b)
  PROVE  \E taken \in SUBSET Operations : Claiming(b, taken)
<1> DEFINE Lent(e, t) ==
             [queue[e] EXCEPT !.claim =
                IF e \in t THEN [batch |-> b, until |-> clock + Lease]
                ELSE None]
           After(e, t) ==
             IF queue[e] = None \/ ~Outbox!Unclaimed(e) THEN queue[e]
             ELSE Lent(e, t)
           Made(t) ==
             [now |-> clock, workers |-> Workers,
              claims |-> [e \in t |-> [attempts |-> queue[e].attempts,
                                       step |-> "waiting"]]]
<1> PICK taken \in SUBSET Outbox!Due :
      /\ queue' = [e \in Operations |-> After(e, taken)]
      /\ batch' = [batch EXCEPT ![b] = Made(taken)]
  BY DEF Outbox!Claim
<1>1. /\ batch[b] = None /\ UNCHANGED <<clock, known, dead, siem, tries>>
      /\ taken \subseteq Operations
      /\ \A e \in taken : queue[e] # None /\ Outbox!Unclaimed(e)
      /\ clock \in Nat /\ Lease \in Nat /\ Workers \in Nat
      /\ OutboxTyped
  BY OutboxBefore, NumbersAssumption
  DEF Outbox!Claim, Outbox!Due, Outbox!Queued
<1>2. /\ Made(taken) \in BatchOf(taken) /\ Made(taken).now = clock
      /\ DOMAIN Made(taken).claims = taken
      /\ \A e \in taken :
           /\ Made(taken).claims[e].step = "waiting"
           /\ Made(taken).claims[e].attempts = queue[e].attempts
  <2>1. \A e \in taken : queue[e].attempts \in Nat
    BY <1>1, OutboxBefore
  <2>2. [e \in taken |-> [attempts |-> queue[e].attempts,
                          step |-> "waiting"]] \in [taken -> Claims]
    BY <2>1, StepNames DEF Claims
  <2> DEFINE cs == [e \in taken |-> [attempts |-> queue[e].attempts,
                                     step |-> "waiting"]]
  <2>3. \A e \in taken : /\ cs[e].step = "waiting"
                         /\ cs[e].attempts = queue[e].attempts
    OBVIOUS
  <2> HIDE DEF cs
  <2>4. [now |-> clock, workers |-> Workers, claims |-> cs]
          \in BatchOf(taken)
    BY <1>1, <2>2 DEF BatchOf, cs
  <2>5. DOMAIN cs = taken
    BY DEF cs
  <2> QED BY <2>3, <2>4, <2>5 DEF cs
<1> HIDE DEF Made
<1>3. /\ batch' = [c \in Calls |-> batch'[c]]
      /\ \A c \in Calls : c # b => batch'[c] = batch[c]
      /\ batch'[b] = Made(taken)
  <2>1. batch = [c \in Calls |-> batch[c]]
    BY <1>1 DEF OutboxTyped
  <2> QED BY <2>1
<1>4. IsBatch(batch'[b])
  BY <1>1, <1>2, <1>3 DEF IsBatch
<1>5. ASSUME NEW e \in Operations, queue[e] # None
      PROVE  LET x == Lent(e, taken) IN
             /\ x \in Entries /\ x # None
             /\ x.attempts = queue[e].attempts
             /\ e \notin taken => x.claim = None
             /\ e \in taken => /\ x.claim # None /\ x.claim.batch = b
                               /\ x.claim.until = clock + Lease
  <2> DEFINE l == [batch |-> b, until |-> clock + Lease]
             m == IF e \in taken THEN l ELSE None
             x == [queue[e] EXCEPT !.claim = m]
  <2>1. /\ l \in Leases /\ l.batch = b /\ l.until = clock + Lease
    BY <1>1 DEF Leases
  <2> HIDE DEF l
  <2>2. /\ m \in Leases \cup {None}
        /\ e \notin taken => m = None
        /\ e \in taken => m = l /\ m # None
    BY <2>1, NothingQueued
  <2> HIDE DEF m
  <2>3. queue[e] \in Entries
    BY <1>5, OutboxBefore
  <2>4. /\ x \in Entries /\ x.claim = m
        /\ x.attempts = queue[e].attempts
    BY <2>2, <2>3 DEF Entries
  <2>5. x = Lent(e, taken)
    BY DEF m, l
  <2> HIDE DEF x, Lent
  <2> QED BY <2>1, <2>2, <2>4, <2>5, NothingQueued
<1> HIDE DEF Lent
<1>6. /\ queue' \in [Operations -> Entries \cup {None}]
      /\ \A e \in Operations : queue'[e] = After(e, taken)
  BY <1>1, <1>5 DEF OutboxTyped
<1>7. ASSUME NEW e \in Operations
      PROVE  /\ queue'[e] # None <=> queue[e] # None
             /\ queue[e] # None => queue'[e].attempts = queue[e].attempts
             /\ e \in taken =>
                  /\ queue'[e].claim # None /\ queue'[e].claim.batch = b
                  /\ queue'[e].claim.until = clock + Lease
             /\ e \notin taken =>
                  \/ queue'[e] = queue[e]
                  \/ /\ queue[e] # None /\ queue'[e].claim = None
                     /\ queue[e].claim # None =>
                          queue[e].claim.until <= clock
  <2>1. CASE queue[e] = None \/ ~Outbox!Unclaimed(e)
    BY <1>1, <1>6, <2>1
  <2>2. CASE queue[e] # None /\ Outbox!Unclaimed(e)
    <3>1. queue'[e] = Lent(e, taken)
      BY <1>6, <2>2
    <3> QED BY <1>5, <2>2, <3>1 DEF Outbox!Unclaimed
  <2> QED BY <2>1, <2>2
<1>8. \A e \in taken :
        queue[e].claim # None => queue[e].claim.until <= clock
  BY <1>1 DEF Outbox!Unclaimed
<1>9. /\ taken \subseteq Operations /\ batch[b] = None
      /\ \A e \in taken :
           queue[e] # None
             /\ (queue[e].claim # None => queue[e].claim.until <= clock)
      /\ UNCHANGED <<clock, known, dead, siem, tries>>
  BY <1>1, <1>8
<1>10. /\ batch' = [c \in Calls |-> batch'[c]]
       /\ \A c \in Calls : c # b => batch'[c] = batch[c]
       /\ IsBatch(batch'[b]) /\ batch'[b].now = clock
       /\ DOMAIN batch'[b].claims = taken
       /\ \A e \in taken :
            /\ batch'[b].claims[e].step = "waiting"
            /\ batch'[b].claims[e].attempts = queue[e].attempts
  BY <1>2, <1>3, <1>4
<1>11. queue' \in [Operations -> Entries \cup {None}]
  BY <1>6
<1> QED BY <1>7, <1>9, <1>10, <1>11 DEF Claiming

LEMMA ClaimKeeps ==
  ASSUME OutboxInv, NEW b \in Calls, NEW taken \in SUBSET Operations,
         Claiming(b, taken)
  PROVE  OutboxInv'
<1>1. /\ batch[b] = None /\ UNCHANGED <<clock, known, dead, siem, tries>>
      /\ \A c \in Calls : c # b => batch'[c] = batch[c]
      /\ batch'[b] # None /\ batch'[b].now = clock
      /\ clock \in Nat /\ Lease \in Nat
  BY OutboxBefore, BatchFacts DEF Claiming
<1>2. OutboxTyped'
  BY DEF OutboxInv, OutboxTyped, Claiming
<1>3. \A c \in Calls, e \in Operations :
        /\ c # b => /\ Claimed(c, e)' <=> Claimed(c, e)
                    /\ Unsettled(c, e)' <=> Unsettled(c, e)
        /\ ~Claimed(b, e) /\ (Claimed(b, e)' <=> e \in taken)
  BY <1>1 DEF Claimed, Unsettled, Claiming
<1>4. ASSUME NEW e \in Operations
      PROVE  EventFits(e)'
  <2>1. /\ EventFits(e)
        /\ queue[e] # None /\ queue[e].claim # None =>
             queue[e].claim.batch \in Calls
    BY OutboxBefore
  <2>2. ASSUME queue'[e] # None, queue'[e].claim # None
        PROVE  \E c \in Calls :
                 /\ c = queue'[e].claim.batch /\ batch'[c] # None
                 /\ e \in DOMAIN batch'[c].claims
                 /\ batch'[c].claims[e].attempts = queue[e].attempts
                 /\ queue'[e].claim.until = batch'[c].now + Lease
                 /\ queue[e] # None
    <3>1. CASE e \in taken
      <4>1. /\ queue'[e].claim.batch = b /\ queue[e] # None
            /\ queue'[e].claim.until = clock + Lease
            /\ e \in DOMAIN batch'[b].claims
            /\ batch'[b].claims[e].attempts = queue[e].attempts
        BY <3>1 DEF Claiming
      <4> QED BY <1>1, <4>1
    <3>2. CASE e \notin taken
      <4>1. queue'[e] = queue[e] /\ queue[e] # None
        BY <2>2, <3>2 DEF Claiming
      <4>2. /\ queue[e].claim # None /\ queue[e].claim.batch \in Calls
            /\ Claimed(queue[e].claim.batch, e)
            /\ batch[queue[e].claim.batch].claims[e].attempts
                 = queue[e].attempts
            /\ queue[e].claim.until
                 = batch[queue[e].claim.batch].now + Lease
        BY <2>1, <2>2, <4>1 DEF EventFits
      <4>3. queue[e].claim.batch # b
        BY <1>1, <4>2 DEF Claimed
      <4> QED BY <1>1, <4>1, <4>2, <4>3 DEF Claimed
    <3> QED BY <3>1, <3>2
  <2>3. /\ queue'[e] # None <=> queue[e] # None
        /\ queue[e] # None => queue'[e].attempts = queue[e].attempts
    BY DEF Claiming
  <2> QED BY <1>1, <2>1, <2>2, <2>3 DEF EventFits, Claimed
<1>5. ASSUME NEW c \in Calls, NEW e \in Operations, c # b,
             Unsettled(c, e)
      PROVE  /\ Leased(c, e)' \/ batch[c].now + Lease <= clock
             /\ e \in taken => batch[c].now + Lease <= clock
  <2>1. ClaimFits(c, e) /\ Claimed(c, e)
    BY <1>5, OutboxBefore DEF Unsettled
  <2>2. Leased(c, e) \/ batch[c].now + Lease <= clock
    BY <1>5, <2>1 DEF ClaimFits
  <2>3. CASE Leased(c, e)
    <3>1. /\ queue[e].claim # None
          /\ queue[e].claim.until = batch[c].now + Lease
      BY <2>3 DEF Leased
    <3>2. \/ e \notin taken /\ queue'[e] = queue[e]
          \/ queue[e].claim.until <= clock
      BY <3>1 DEF Claiming
    <3>3. e \in taken => queue[e].claim.until <= clock
      BY <3>1 DEF Claiming
    <3> QED BY <1>1, <1>5, <2>3, <3>1, <3>2, <3>3 DEF Leased
  <2> QED BY <2>2, <2>3
<1>6. ASSUME NEW c \in Calls, NEW e \in Operations
      PROVE  ClaimFits(c, e)'
  <2>1. CASE c = b
    <3>1. ASSUME e \in taken
          PROVE  /\ batch'[b].claims[e].step = "waiting"
                 /\ tries[e] >= batch'[b].claims[e].attempts
                 /\ Leased(b, e)'
      <4>1. /\ queue[e] # None /\ EventFits(e)
            /\ batch'[b].claims[e].step = "waiting"
            /\ batch'[b].claims[e].attempts = queue[e].attempts
            /\ queue'[e] # None /\ queue'[e].claim # None
            /\ queue'[e].claim.batch = b
            /\ queue'[e].claim.until = clock + Lease
        BY <3>1, OutboxBefore DEF Claiming
      <4> QED BY <1>1, <4>1 DEF EventFits, Leased
    <3> QED BY <1>1, <1>3, <2>1, <3>1 DEF ClaimFits
  <2>2. CASE c # b
    <3>1. ClaimFits(c, e)
      BY OutboxBefore
    <3> QED BY <1>1, <1>3, <1>5, <2>2, <3>1 DEF ClaimFits
  <2> QED BY <2>1, <2>2
<1>7. ASSUME NEW c \in Calls, NEW d \in Calls, NEW e \in Operations
      PROVE  Apart(c, d, e)'
  <2>1. CASE c # b /\ d # b
    BY <1>1, <1>3, <2>1 DEF OutboxInv, Apart
  <2>2. ASSUME NEW o \in Calls, o # b, Unsettled(o, e)', e \in taken
        PROVE  batch'[o].now + Lease <= batch'[b].now
    BY <1>1, <1>3, <1>5, <2>2
  <2>3. Unsettled(b, e)' => e \in taken
    BY <1>3 DEF Unsettled
  <2> QED BY <2>1, <2>2, <2>3 DEF Apart
<1> QED BY <1>2, <1>4, <1>6, <1>7 DEF OutboxInv

LEMMA OutboxStep ==
  ASSUME OutboxInv, [Outbox!Next]_(Outbox!vars)
  PROVE  OutboxInv'
<1>1. CASE UNCHANGED Outbox!vars
  <2>1. /\ clock' = clock /\ known' = known /\ queue' = queue
        /\ dead' = dead /\ batch' = batch /\ siem' = siem /\ tries' = tries
    BY <1>1 DEF Outbox!vars
  <2>2. OutboxTyped' = OutboxTyped
    BY <2>1 DEF OutboxTyped
  <2>3. \A b \in Calls, e \in Operations :
          /\ Claimed(b, e)' = Claimed(b, e)
          /\ Unsettled(b, e)' = Unsettled(b, e)
          /\ Leased(b, e)' = Leased(b, e)
    BY <2>1 DEF Claimed, Unsettled, Leased
  <2>4. \A e \in Operations : EventFits(e)' = EventFits(e)
    BY <2>1 DEF EventFits, Claimed
  <2>5. \A b \in Calls, e \in Operations : ClaimFits(b, e)' = ClaimFits(b, e)
    BY <2>1, <2>3 DEF ClaimFits
  <2>6. \A b, c \in Calls, e \in Operations :
          Apart(b, c, e)' = Apart(b, c, e)
    BY <2>1, <2>3 DEF Apart
  <2> QED BY <2>2, <2>4, <2>5, <2>6 DEF OutboxInv
<1>2. ASSUME NEW b \in Calls, Outbox!Claim(b)
      PROVE  OutboxInv'
  BY <1>2, ClaimClaims, ClaimKeeps
<1> QED
  BY <1>1, <1>2, EnqueueKeeps, DeliverKeeps, AnswerKeeps,
     AcknowledgeKeeps, SettleFailureKeeps, TickKeeps
  DEF Outbox!Next

(* An event leaves the queue only when the receiver has it or after enough *)
(* tries as a dead letter, and two batches only hold an event unsettled    *)
(* when the lease of one had run out before the other began.               *)
THEOREM EventsSettle == Outbox!Spec => []EventsAreSettledOnce
<1>1. OutboxInv => EventsAreSettledOnce
  <2>1. ASSUME OutboxInv, NEW b \in Calls, NEW e \in Operations,
               NEW s \in Outbox!Steps \ {"settled", "left"},
               Outbox!At(b, e, s)
        PROVE  Unsettled(b, e)
    BY <2>1 DEF Outbox!At, Unsettled, Claimed
  <2>2. ASSUME OutboxInv
        PROVE  /\ \A e \in known : queue[e] = None => e \in siem \cup dead
               /\ \A e \in dead : queue[e] = None /\ tries[e] >= MaxAttempts
    <3>1. known \subseteq Operations /\ \A e \in Operations : EventFits(e)
      BY <2>2 DEF OutboxInv, OutboxTyped
    <3>2. dead \subseteq Operations
      BY <2>2 DEF OutboxInv, OutboxTyped
    <3> QED BY <3>1, <3>2 DEF EventFits
  <2> QED BY <2>1, <2>2
       DEF OutboxInv, Apart, EventsAreSettledOnce,
           Outbox!EventsAreSettledOnce
<1>2. Outbox!Init => OutboxInv
  BY OutboxStart
<1>3. OutboxInv /\ [Outbox!Next]_(Outbox!vars) => OutboxInv'
  BY OutboxStep
<1> QED BY <1>1, <1>2, <1>3, PTL DEF Outbox!Spec

-----------------------------------------------------------------------------
(* The review threads.                                                     *)

(* The part of a thread that a call's change has to be found in.           *)
HasChange(value, c, calls) ==
  /\ calls[c].kind \in {"create", "reply", "append"} =>
       calls[c].operation \in value.messages
  /\ calls[c].kind \in {"react", "read"} => c \in value.marks

SameRequest(k, l) ==
  k.operation = l.operation /\ k.kind = l.kind /\ k.expected = l.expected

(* A thread, stored or exported, and the calls whose changes it has: they  *)
(* are counted by its version, a mutation among them expected an earlier   *)
(* one, and none is in progress any more.                                  *)
Copied(value, done, before, calls, mixed) ==
  /\ before \in {0, 1}
  /\ value = None => done = {}
  /\ \A c \in done : calls[c].phase = "done"
  /\ \A c, d \in done :
       /\ {calls[c].kind, calls[d].kind} \subseteq Mutations
       /\ SameRequest(calls[c], calls[d])
       => c = d
  /\ value # None =>
       /\ value.version = before + Cardinality(done)
       /\ \A c \in done :
            calls[c].kind \in Mutations => calls[c].expected < value.version
       /\ ~mixed => \A c \in done : HasChange(value, c, calls)

(* What a call asks for, and that a thread changes its version with each   *)
(* change: what has the version that was read is what was read.            *)
Asks(k) ==
  /\ k.phase # "idle" /\ k.kind \in Mutations \cup Direct =>
       /\ k.thread \in Threads /\ k.operation \in Operations
       /\ k.kind \in {"create", "move"} => k.revision \in Revisions
       /\ k.kind = "create" => k.expected = 0
  /\ k.phase \in {"row", "scope"} => k.kind \in Mutations
  /\ k.phase = "project" => k.kind \in Mutations \cup {"replace"}

HasRead(k, stored, where, mixed) ==
  k.phase = "read" =>
    /\ where = "postgres" /\ k.kind \in Direct /\ k.seen # None
    /\ ~mixed =>
         LET current == stored[k.thread] IN
         /\ current # None /\ k.seen.version <= current.version
         /\ k.seen.version = current.version => k.seen = current

ThreadsInv ==
  /\ TypeOK
  /\ \A t \in Threads :
       /\ Copied(threads[t], applied[t], base[t], call, crossed)
       /\ Copied(backup[t].thread, backup[t].applied, backup[t].base, call,
                 crossed)
       /\ \A r \in ToSet(receipts[t]) : r.operation \in ever[t]
  /\ \A c \in Calls :
       Asks(call[c]) /\ HasRead(call[c], threads, repository, crossed)

LEMMA CopyFields ==
  ASSUME NEW value, NEW done, NEW before
  PROVE  LET copy == Copy(value, done, before) IN
         copy.thread = value /\ copy.applied = done /\ copy.base = before
BY DEF Copy

LEMMA CopiedNothing ==
  ASSUME NEW value, NEW before \in {0, 1}, NEW calls, NEW mixed,
         value # None => value.version = before
  PROVE  Copied(value, {}, before, calls, mixed)
<1>1. Cardinality({}) = 0
  BY FS_EmptySet
<1> QED BY <1>1 DEF Copied

LEMMA ThreadsStart == Init => ThreadsInv
<1> SUFFICES ASSUME Init PROVE ThreadsInv
  OBVIOUS
<1>0. MaxVersion \in Nat /\ MaxVersion >= 1
  BY CallsAssumption, FS_CardinalityType DEF MaxVersion
<1>1. NewCall \in CallValues /\ NewCall.phase = "idle"
  BY <1>0 DEF NewCall, CallValues, Phases, Answers, Whole
<1>2. Existing \subseteq ThreadValues
  BY <1>0 DEF Existing, ThreadValues
<1>3. \A t \in Threads :
        /\ threads[t] # None => threads[t] \in Existing
        /\ backup[t] = IF threads[t] = None THEN NoCopy
                       ELSE Copy(threads[t], {}, 1)
        /\ applied[t] = {} /\ base[t] = backup[t].base
        /\ receipts[t] = <<>>
  BY DEF Init
<1>5. \A t \in Threads :
        /\ backup[t].thread = threads[t] /\ backup[t].applied = {}
        /\ backup[t].base \in {0, 1}
        /\ threads[t] # None => backup[t].base = 1
  <2> TAKE t \in Threads
  <2>1. CASE threads[t] = None
    BY <1>3, <2>1, CopyFields DEF NoCopy
  <2>2. CASE threads[t] # None
    BY <1>3, <2>2, CopyFields
  <2> QED BY <2>1, <2>2
<1>6. \A t \in Threads : threads[t] # None => threads[t].version = 1
  BY <1>3 DEF Existing
<1>7. TypeOK
  <2>1. \A t \in Threads :
          backup[t] \in [thread : ThreadValues \cup {None},
                         applied : SUBSET Calls, base : 0..MaxVersion]
    <3> TAKE t \in Threads
    <3>1. NoCopy \in [thread : ThreadValues \cup {None},
                     applied : SUBSET Calls, base : 0..MaxVersion]
      BY <1>0 DEF NoCopy, Copy
    <3>2. ASSUME threads[t] # None
          PROVE  Copy(threads[t], {}, 1) \in
                   [thread : ThreadValues \cup {None},
                    applied : SUBSET Calls, base : 0..MaxVersion]
      <4>1. /\ threads[t] \in ThreadValues \cup {None}
            /\ {} \in SUBSET Calls /\ 1 \in 0..MaxVersion
        BY <1>0, <1>2, <1>3, <3>2
      <4> QED BY <4>1 DEF Copy
    <3> QED BY <1>3, <3>1, <3>2
  <2>2. backup \in [Threads -> [thread : ThreadValues \cup {None},
                         applied : SUBSET Calls, base : 0..MaxVersion]]
    BY <2>1 DEF Init
  <2>3. /\ receipts \in [Threads -> Seq(Receipts)]
        /\ \A t \in Threads : Len(receipts[t]) <= MaxReceipts
    BY ReceiptsAssumption DEF Init
  <2>4. /\ threads \in [Threads -> ThreadValues \cup {None}]
        /\ base \in [Threads -> 0..MaxVersion]
    BY <1>0, <1>2, <1>5 DEF Init
  <2> QED BY <1>1, <2>2, <2>3, <2>4 DEF Init, TypeOK
<1>8. ASSUME NEW t \in Threads
      PROVE  /\ Copied(threads[t], applied[t], base[t], call, crossed)
             /\ Copied(backup[t].thread, backup[t].applied, backup[t].base,
                       call, crossed)
             /\ \A r \in ToSet(receipts[t]) : r.operation \in ever[t]
  <2>1. Copied(threads[t], {}, base[t], call, crossed)
    BY <1>3, <1>5, <1>6, CopiedNothing
  <2>2. Copied(threads[t], {}, backup[t].base, call, crossed)
    BY <1>3, <1>5, <1>6, CopiedNothing
  <2>3. ToSet(receipts[t]) = {}
    BY <1>3 DEF ToSet
  <2> QED BY <1>3, <1>5, <2>1, <2>2, <2>3
<1>9. \A c \in Calls : call[c] = NewCall
  BY DEF Init
<1>10. \A c \in Calls :
         Asks(call[c]) /\ HasRead(call[c], threads, repository, crossed)
  BY <1>1, <1>9 DEF Asks, HasRead
<1> QED BY <1>7, <1>8, <1>10 DEF ThreadsInv

LEMMA CopiedStays ==
  ASSUME NEW value, NEW done, NEW before, NEW calls, NEW next, NEW mixed,
         NEW after, Copied(value, done, before, calls, mixed),
         \A d \in done : /\ next[d].phase = "done"
                         /\ SameRequest(next[d], calls[d]),
         mixed => after
  PROVE  Copied(value, done, before, next, after)
BY DEF Copied, SameRequest, HasChange

(* A change that a call makes from the version it expects.                 *)
Grown(value, more, c, calls, next, mixed) ==
  /\ calls[c].phase # "done" /\ calls[c].kind # "create"
  /\ value # None /\ value.version \in Nat /\ more # None
  /\ more.version = value.version + 1
  /\ calls[c].kind \in Mutations => calls[c].expected = value.version
  /\ \A d \in Calls : calls[d].expected \in Nat
  /\ ~mixed => /\ value.messages \subseteq more.messages
               /\ value.marks \subseteq more.marks
               /\ HasChange(more, c, calls)
  /\ next[c].phase = "done" /\ SameRequest(next[c], calls[c])
  /\ \A d \in Calls \ {c} : next[d] = calls[d]

LEMMA CopiedGrows ==
  ASSUME NEW value, NEW done \in SUBSET Calls, NEW before, NEW calls,
         NEW mixed, Copied(value, done, before, calls, mixed),
         NEW c \in Calls, NEW more, NEW next,
         Grown(value, more, c, calls, next, mixed)
  PROVE  Copied(more, done \cup {c}, before, next, mixed)
<1> USE DEF Grown
<1> DEFINE all == done \cup {c}
<1>1. c \notin done /\ IsFiniteSet(done) /\ IsFiniteSet(all)
  BY CallsAssumption, FS_Subset DEF Copied
<1>2. Cardinality(done) \in Nat /\ Cardinality(all) = Cardinality(done) + 1
  BY <1>1, FS_CardinalityType, FS_AddElement
<1>3. before \in {0, 1} /\ value.version = before + Cardinality(done)
  BY DEF Copied
<1>4. more.version = before + Cardinality(all)
  BY <1>2, <1>3
<1>5. \A d \in done : /\ next[d] = calls[d] /\ calls[d].phase = "done"
                      /\ calls[d].expected \in Nat
                      /\ calls[d].kind \in Mutations =>
                           calls[d].expected < value.version
  BY <1>1 DEF Copied
<1>6. \A d \in all : next[d].phase = "done"
  BY <1>5
<1>7. \A d \in all : next[d].kind \in Mutations =>
                       next[d].expected < more.version
  BY <1>5 DEF SameRequest
<1>8. ~mixed => \A d \in all : HasChange(more, d, next)
  BY <1>5 DEF Copied, HasChange, SameRequest
<1>9. ASSUME NEW d \in all, NEW e \in all,
             {next[d].kind, next[e].kind} \subseteq Mutations,
             SameRequest(next[d], next[e])
      PROVE  d = e
  <2>1. CASE d \in done /\ e \in done
    BY <1>5, <1>9, <2>1 DEF Copied
  <2>2. CASE d = c /\ e \in done
    BY <1>5, <1>9, <2>2 DEF SameRequest
  <2>3. CASE d \in done /\ e = c
    BY <1>5, <1>9, <2>3 DEF SameRequest
  <2> QED BY <2>1, <2>2, <2>3
<1> HIDE DEF all
<1>10. more # None => /\ more.version = before + Cardinality(all)
                      /\ \A d \in all : next[d].kind \in Mutations =>
                                        next[d].expected < more.version
                      /\ ~mixed => \A d \in all : HasChange(more, d, next)
  BY <1>4, <1>7, <1>8
<1>11. more # None
  OBVIOUS
<1> QED BY <1>3, <1>6, <1>9, <1>10 DEF Copied, all

ThreadLocks ==
  /\ rowLock \in [Threads -> Calls \cup {None}]
  /\ projectLock \in Calls \cup {None} /\ keyShare \in SUBSET Calls
  /\ scopeLock \in [Threads -> Calls \cup {None}]

(* The calls whose changes a thread or its copy has are not in progress.   *)
LEMMA InProgress ==
  ASSUME ThreadsInv, NEW c \in Calls, call[c].phase # "done",
         NEW next, \A d \in Calls \ {c} : next[d] = call[d],
         NEW t \in Threads
  PROVE  /\ c \notin applied[t] /\ c \notin backup[t].applied
         /\ applied[t] \in SUBSET Calls /\ backup[t].applied \in SUBSET Calls
         /\ Copied(threads[t], applied[t], base[t], next, crossed)
         /\ Copied(backup[t].thread, backup[t].applied, backup[t].base, next,
                   crossed)
<1>1. /\ Copied(threads[t], applied[t], base[t], call, crossed)
      /\ Copied(backup[t].thread, backup[t].applied, backup[t].base, call,
                crossed)
      /\ applied[t] \in SUBSET Calls /\ backup[t].applied \in SUBSET Calls
  BY DEF ThreadsInv, TypeOK
<1>2. c \notin applied[t] /\ c \notin backup[t].applied
  BY <1>1 DEF Copied
<1>3. /\ \A d \in applied[t] : next[d] = call[d]
      /\ \A d \in backup[t].applied : next[d] = call[d]
  BY <1>1, <1>2
<1>4. \A d \in applied[t] :
        next[d].phase = "done" /\ SameRequest(next[d], call[d])
  BY <1>1, <1>3 DEF Copied, SameRequest
<1>5. \A d \in backup[t].applied :
        next[d].phase = "done" /\ SameRequest(next[d], call[d])
  BY <1>1, <1>3 DEF Copied, SameRequest
<1>6. Copied(threads[t], applied[t], base[t], next, crossed)
  BY <1>1, <1>4, CopiedStays
<1>7. Copied(backup[t].thread, backup[t].applied, backup[t].base, next,
             crossed)
  BY <1>1, <1>5, CopiedStays
<1> QED BY <1>1, <1>2, <1>6, <1>7

(* A step that leaves the threads alone.                                   *)
LEMMA ThreadsStay ==
  ASSUME ThreadsInv, NEW c \in Calls, call[c].phase # "done",
         call' \in [Calls -> CallValues],
         \A d \in Calls \ {c} : call'[d] = call[d],
         Asks(call'[c]), HasRead(call'[c], threads, repository, crossed),
         UNCHANGED <<repository, threads, receipts, backup, applied, base,
                     ever, crossed>>,
         live' \in BOOLEAN, ThreadLocks'
  PROVE  ThreadsInv'
<1>1. TypeOK'
  BY DEF ThreadsInv, TypeOK, ThreadLocks
<1>2. ASSUME NEW t \in Threads
      PROVE  /\ Copied(threads[t], applied[t], base[t], call, crossed)'
             /\ Copied(backup[t].thread, backup[t].applied, backup[t].base,
                       call, crossed)'
             /\ \A r \in ToSet(receipts'[t]) : r.operation \in ever'[t]
  BY InProgress DEF ThreadsInv
<1>3. ASSUME NEW d \in Calls
      PROVE  (Asks(call[d]) /\ HasRead(call[d], threads, repository,
                                       crossed))'
  BY DEF ThreadsInv
<1> QED BY <1>1, <1>2, <1>3 DEF ThreadsInv

(* A call's next phase, and its answer.                                    *)
LEMMA PhaseGoes ==
  ASSUME ThreadsInv, NEW c \in Calls, NEW p \in Phases,
         call' = [call EXCEPT ![c].phase = p]
  PROVE  /\ call' \in [Calls -> CallValues]
         /\ call'[c] = [call[c] EXCEPT !.phase = p]
         /\ \A d \in Calls \ {c} : call'[d] = call[d]
<1>1. call \in [Calls -> CallValues] /\ call[c] \in CallValues
  BY DEF ThreadsInv, TypeOK
<1>2. [call[c] EXCEPT !.phase = p] \in CallValues
  BY <1>1 DEF CallValues
<1> QED BY <1>1, <1>2

AnsweredCall(k, told) ==
  [k EXCEPT !.phase = "done", !.answer = told, !.seen = None]

LEMMA AnswerGiven ==
  ASSUME ThreadsInv, NEW c \in Calls, NEW answer \in Answers,
         Answer(c, answer)
  PROVE  /\ call' \in [Calls -> CallValues]
         /\ call'[c].phase = "done" /\ call'[c].answer \in {answer, "unknown"}
         /\ SameRequest(call'[c], call[c])
         /\ call'[c].thread = call[c].thread
         /\ \A d \in Calls \ {c} : call'[d] = call[d]
         /\ call[c].phase # "idle" => Asks(call'[c])
         /\ \A stored, where, mixed : HasRead(call'[c], stored, where, mixed)
<1>1. call \in [Calls -> CallValues] /\ call[c] \in CallValues
  BY DEF ThreadsInv, TypeOK
<1>2. PICK told \in {answer, "unknown"} :
        call' = [call EXCEPT ![c].phase = "done", ![c].answer = told,
                             ![c].seen = None]
  BY DEF Answer
<1> DEFINE k == AnsweredCall(call[c], told)
<1>3. /\ k \in CallValues /\ k.phase = "done" /\ k.answer = told
      /\ k.kind = call[c].kind /\ k.operation = call[c].operation
      /\ k.expected = call[c].expected /\ k.thread = call[c].thread
      /\ k.revision = call[c].revision
  <2>1. /\ told \in Answers /\ "done" \in Phases
        /\ None \in ThreadValues \cup {None}
    BY DEF Answers, Phases
  <2> QED BY <1>1, <2>1 DEF CallValues, AnsweredCall
<1>4. call' = [call EXCEPT ![c] = k]
  BY <1>1, <1>2 DEF AnsweredCall
<1> HIDE DEF k
<1>5. call'[c] = k /\ \A d \in Calls \ {c} : call'[d] = call[d]
  BY <1>1, <1>4
<1>6. call' \in [Calls -> CallValues]
  BY <1>1, <1>3, <1>4
<1>7. call[c].phase # "idle" => Asks(k)
  <2>1. Asks(call[c])
    BY DEF ThreadsInv
  <2> QED BY <1>3, <2>1 DEF Asks
<1> QED BY <1>3, <1>5, <1>6, <1>7 DEF SameRequest, HasRead

(* There is room for one more change as long as a call is in progress.     *)
LEMMA MayGrow ==
  ASSUME ThreadsInv, NEW c \in Calls, call[c].phase # "done",
         NEW t \in Threads, threads[t] # None
  PROVE  /\ threads[t] \in ThreadValues
         /\ threads[t].version \in Nat
         /\ threads[t].version + 1 \in 1..MaxVersion
<1>1. /\ Copied(threads[t], applied[t], base[t], call, crossed)
      /\ applied[t] \in SUBSET Calls /\ threads[t] \in ThreadValues
  BY DEF ThreadsInv, TypeOK
<1>2. c \notin applied[t]
  BY <1>1 DEF Copied
<1>3. /\ IsFiniteSet(applied[t] \cup {c}) /\ IsFiniteSet(applied[t])
      /\ Cardinality(applied[t] \cup {c}) <= Cardinality(Calls)
      /\ Cardinality(applied[t] \cup {c}) \in Nat
      /\ Cardinality(Calls) \in Nat
  <2>1. applied[t] \cup {c} \in SUBSET Calls
    BY <1>1
  <2> QED BY <1>1, <2>1, CallsAssumption, FS_Subset, FS_CardinalityType
<1>4. /\ Cardinality(applied[t] \cup {c}) = Cardinality(applied[t]) + 1
      /\ Cardinality(applied[t]) \in Nat
  BY <1>2, <1>3, FS_AddElement, FS_CardinalityType
<1>5. base[t] \in {0, 1}
      /\ threads[t].version = base[t] + Cardinality(applied[t])
  BY <1>1 DEF Copied
<1> QED BY <1>1, <1>3, <1>4, <1>5 DEF MaxVersion

LEMMA ChangedFits ==
  ASSUME NEW c \in Calls,
         call[c].kind \in (Mutations \cup Direct) \ {"create"},
         call[c].operation \in Operations,
         call[c].kind = "move" => call[c].revision \in Revisions,
         NEW value \in ThreadValues, value.version + 1 \in 1..MaxVersion
  PROVE  LET more == Changed(c, value) IN
         /\ more \in ThreadValues /\ more.version = value.version + 1
         /\ value.messages \subseteq more.messages
         /\ value.marks \subseteq more.marks
         /\ HasChange(more, c, call)
<1> DEFINE next == [value EXCEPT !.version = @ + 1]
           more == Changed(c, value)
<1>1. /\ next \in ThreadValues /\ next.version = value.version + 1
      /\ next.messages = value.messages /\ next.marks = value.marks
  BY DEF ThreadValues
<1> HIDE DEF next
<1>2. CASE call[c].kind \in {"reply", "append"}
  <2>1. more = [next EXCEPT !.messages = @ \cup {call[c].operation}]
    BY <1>2 DEF Changed, next
  <2> QED BY <1>1, <1>2, <2>1 DEF ThreadValues, HasChange
<1>3. CASE call[c].kind \in {"resolve", "close"}
  <2>1. more = [next EXCEPT !.lifecycle = "resolved"]
    BY <1>3 DEF Changed, next
  <2> QED BY <1>1, <1>3, <2>1 DEF ThreadValues, HasChange
<1>4. CASE call[c].kind \in {"reopen", "open"}
  <2>1. more = [next EXCEPT !.lifecycle = "open"]
    BY <1>4 DEF Changed, next
  <2> QED BY <1>1, <1>4, <2>1 DEF ThreadValues, HasChange
<1>5. CASE call[c].kind \in {"react", "read"}
  <2>1. more = [next EXCEPT !.marks = @ \cup {c}]
    BY <1>5 DEF Changed, next
  <2> QED BY <1>1, <1>5, <2>1 DEF ThreadValues, HasChange
<1>6. CASE call[c].kind = "move"
  <2>1. more = [next EXCEPT !.revision = call[c].revision]
    BY <1>6 DEF Changed, next
  <2> QED BY <1>1, <1>6, <2>1 DEF ThreadValues, HasChange
<1> QED BY <1>2, <1>3, <1>4, <1>5, <1>6 DEF Mutations, Direct

LEMMA Remembered ==
  ASSUME TypeOK, NEW t \in Threads, NEW r \in Receipts
  PROVE  /\ Remember(t, r) \in Seq(Receipts)
         /\ Len(Remember(t, r)) <= MaxReceipts
         /\ \A s \in ToSet(Remember(t, r)) :
              s = r \/ s \in ToSet(receipts[t])
<1> DEFINE all == Append(receipts[t], r)
<1>1. receipts[t] \in Seq(Receipts) /\ Len(receipts[t]) <= MaxReceipts
  BY DEF TypeOK
<1>2. /\ all \in Seq(Receipts) /\ Len(all) = Len(receipts[t]) + 1
      /\ \A i \in 1..Len(all) : all[i] = r \/ all[i] \in ToSet(receipts[t])
  BY <1>1 DEF ToSet
<1>3. CASE Len(all) > MaxReceipts
  <2>1. Tail(all) \in Seq(Receipts) /\ Len(Tail(all)) = Len(all) - 1
        /\ \A i \in 1..Len(Tail(all)) :
             Tail(all)[i] = all[i + 1] /\ i + 1 \in 1..Len(all)
    BY <1>1, <1>2, ReceiptsAssumption
  <2>2. Remember(t, r) = Tail(all)
    BY <1>3 DEF Remember
  <2>3. Len(Tail(all)) <= MaxReceipts
    BY <1>1, <1>2, <2>1, ReceiptsAssumption
  <2> HIDE DEF all
  <2> QED BY <1>2, <2>1, <2>2, <2>3 DEF ToSet
<1>4. CASE ~(Len(all) > MaxReceipts)
  <2>1. Remember(t, r) = all
    BY <1>4 DEF Remember
  <2>2. Len(all) <= MaxReceipts
    BY <1>1, <1>2, <1>4, ReceiptsAssumption
  <2> HIDE DEF all
  <2> QED BY <1>2, <2>1, <2>2 DEF ToSet
<1> QED BY <1>3, <1>4

(* A change that is made to the thread as it is stored, or a thread that   *)
(* is created.                                                             *)
Fits(c, more) ==
  LET current == threads[call[c].thread] IN
  /\ more \in ThreadValues
  /\ \/ /\ current # None /\ call[c].kind # "create"
        /\ more.version = current.version + 1
        /\ call[c].kind \in Mutations => call[c].expected = current.version
        /\ ~crossed => /\ current.messages \subseteq more.messages
                       /\ current.marks \subseteq more.marks
                       /\ HasChange(more, c, call)
     \/ /\ current = None /\ call[c].kind = "create"
        /\ more.version = 1 /\ HasChange(more, c, call)

LEMMA CopiedOnce ==
  ASSUME NEW more, NEW c, NEW calls, NEW mixed, more # None,
         more.version = 1, calls[c].phase = "done",
         calls[c].kind \in Mutations => calls[c].expected = 0,
         HasChange(more, c, calls)
  PROVE  Copied(more, {c}, 0, calls, mixed)
<1>1. Cardinality({c}) = 1
  BY FS_Singleton
<1> QED BY <1>1 DEF Copied

LEMMA ChangePut ==
  ASSUME ThreadsInv, NEW c \in Calls, call[c].phase \notin {"idle", "done"},
         call[c].thread \in Threads, NEW more, Fits(c, more), Put(c, more),
         NEW answer \in Answers, Answer(c, answer),
         UNCHANGED <<repository, backup, crossed>>, live' \in BOOLEAN,
         ThreadLocks',
         receipts' \in [Threads -> Seq(Receipts)],
         ever' \in [Threads -> SUBSET Operations],
         \A t \in Threads : /\ Len(receipts'[t]) <= MaxReceipts
                            /\ \A r \in ToSet(receipts'[t]) :
                                 r.operation \in ever'[t]
  PROVE  ThreadsInv'
<1> DEFINE t == call[c].thread
<1>0. /\ threads \in [Threads -> ThreadValues \cup {None}]
      /\ applied \in [Threads -> SUBSET Calls]
      /\ base \in [Threads -> 0..MaxVersion]
      /\ None \notin ThreadValues /\ MaxVersion \in Nat /\ MaxVersion >= 1
      /\ \A d \in Calls : call[d] \in CallValues
  BY CallsAssumption, FS_CardinalityType, NothingAssumption
     DEF ThreadsInv, TypeOK, MaxVersion
<1>1. /\ call' \in [Calls -> CallValues] /\ call'[c].phase = "done"
      /\ SameRequest(call'[c], call[c])
      /\ \A d \in Calls \ {c} : call'[d] = call[d]
      /\ Asks(call'[c])
      /\ \A stored, where, mixed : HasRead(call'[c], stored, where, mixed)
  BY AnswerGiven
<1>2. /\ threads' = [threads EXCEPT ![t] = more]
      /\ more \in ThreadValues
  BY DEF Put, Fits
<1>3. ASSUME NEW u \in Threads \ {t}
      PROVE  /\ threads'[u] = threads[u] /\ applied'[u] = applied[u]
             /\ base'[u] = base[u]
  BY <1>0 DEF Put
<1>4. threads'[t] = more
  BY <1>0, <1>2
<1>5. /\ Copied(more, applied'[t], base'[t], call', crossed)
      /\ applied'[t] \in SUBSET Calls /\ base'[t] \in 0..MaxVersion
  <2>1. CASE threads[t] # None
    <3>1. applied'[t] = applied[t] \cup {c} /\ base'[t] = base[t]
      BY <1>0, <2>1 DEF Put
    <3>2. /\ Copied(threads[t], applied[t], base[t], call, crossed)
          /\ applied[t] \in SUBSET Calls /\ threads[t].version \in Nat
          /\ \A d \in Calls : call[d].expected \in Nat
      BY <1>0, <2>1, MayGrow DEF ThreadsInv, CallValues
    <3>3. /\ call[c].kind # "create" /\ more # None
          /\ more.version = threads[t].version + 1
          /\ call[c].kind \in Mutations =>
               call[c].expected = threads[t].version
          /\ ~crossed => /\ threads[t].messages \subseteq more.messages
                         /\ threads[t].marks \subseteq more.marks
                         /\ HasChange(more, c, call)
      BY <1>0, <2>1 DEF Fits
    <3>4. Copied(more, applied[t] \cup {c}, base[t], call', crossed)
      <4>1. PICK value, done, before, calls, next, mixed :
              /\ value = threads[t] /\ done = applied[t] /\ before = base[t]
              /\ calls = call /\ next = call' /\ mixed = crossed
        OBVIOUS
      <4>2. done \in SUBSET Calls
        BY <3>2, <4>1
      <4>3. Copied(value, done, before, calls, mixed)
        BY <3>2, <4>1
      <4>4. Grown(value, more, c, calls, next, mixed)
        BY <1>1, <2>1, <3>2, <3>3, <4>1 DEF Grown
      <4>5. Copied(more, done \cup {c}, before, next, mixed)
        BY <4>2, <4>3, <4>4, CopiedGrows
      <4> QED BY <4>1, <4>5
    <3> QED BY <1>0, <3>1, <3>4
  <2>2. CASE threads[t] = None
    <3>1. applied'[t] = {c} /\ base'[t] = 0
      BY <1>0, <2>2 DEF Put
    <3>2. call[c].kind = "create" /\ more # None /\ more.version = 1
          /\ HasChange(more, c, call)
      BY <1>0, <2>2 DEF Fits
    <3>3. call[c].expected = 0
      BY <3>2 DEF ThreadsInv, Asks, Mutations
    <3>4. /\ HasChange(more, c, call')
          /\ call'[c].kind \in Mutations => call'[c].expected = 0
      BY <1>1, <3>2, <3>3 DEF HasChange, SameRequest
    <3>5. Copied(more, {c}, 0, call', crossed)
      BY <1>1, <3>2, <3>4, CopiedOnce
    <3> QED BY <1>0, <3>1, <3>5
  <2> QED BY <2>1, <2>2
<1>6. TypeOK'
  <2>1. threads' \in [Threads -> ThreadValues \cup {None}]
    BY <1>0, <1>2
  <2>2. /\ applied' \in [Threads -> SUBSET Calls]
        /\ base' \in [Threads -> 0..MaxVersion]
    BY <1>0, <1>3, <1>5 DEF Put
  <2> QED BY <1>1, <2>1, <2>2 DEF ThreadsInv, TypeOK, ThreadLocks
<1>7. ASSUME NEW u \in Threads
      PROVE  /\ Copied(threads'[u], applied'[u], base'[u], call', crossed')
             /\ Copied(backup'[u].thread, backup'[u].applied, backup'[u].base,
                       call', crossed')
             /\ \A r \in ToSet(receipts'[u]) : r.operation \in ever'[u]
  <2>1. /\ Copied(threads[u], applied[u], base[u], call', crossed)
        /\ Copied(backup[u].thread, backup[u].applied, backup[u].base, call',
                  crossed)
    BY <1>1, InProgress
  <2> QED BY <1>3, <1>4, <1>5, <2>1
<1>8. ASSUME NEW d \in Calls
      PROVE  /\ Asks(call'[d])
             /\ HasRead(call'[d], threads', repository', crossed')
  <2>1. CASE d = c
    BY <1>1, <2>1
  <2>2. CASE d # c
    <3> DEFINE k == call[d]
    <3>1. /\ call'[d] = k /\ Asks(k)
          /\ HasRead(k, threads, repository, crossed) /\ k \in CallValues
      BY <1>0, <1>1, <2>2 DEF ThreadsInv
    <3>2. ASSUME k.phase = "read", ~crossed
          PROVE  /\ threads'[k.thread] # None
                 /\ k.seen.version <= threads'[k.thread].version
                 /\ k.seen.version = threads'[k.thread].version =>
                      k.seen = threads'[k.thread]
      <4>1. /\ k.thread \in Threads /\ threads[k.thread] # None
            /\ k.seen.version <= threads[k.thread].version
            /\ k.seen.version = threads[k.thread].version =>
                 k.seen = threads[k.thread]
            /\ k.seen \in ThreadValues
        BY <3>1, <3>2 DEF HasRead, Asks, CallValues
      <4>2. CASE k.thread # t
        BY <1>3, <4>1, <4>2
      <4>3. CASE k.thread = t
        <5>1. threads[t].version \in Nat /\ k.seen.version \in Int
          BY <4>1, <4>3, MayGrow DEF ThreadValues
        <5>2. more.version = threads[t].version + 1 /\ more # None
          BY <1>0, <4>1, <4>3 DEF Fits
        <5> QED BY <1>4, <4>1, <4>3, <5>1, <5>2
      <4> QED BY <4>2, <4>3
    <3> QED BY <3>1, <3>2 DEF HasRead
  <2> QED BY <2>1, <2>2
<1> QED BY <1>6, <1>7, <1>8 DEF ThreadsInv

(* The request that a call makes.                                          *)
LEMMA RequestMade ==
  ASSUME ThreadsInv, NEW c \in Calls, NEW request \in CallValues,
         Request(c, request), request.phase = "calling", Asks(request)
  PROVE  ThreadsInv'
<1>1. /\ call[c].phase = "idle" /\ call' = [call EXCEPT ![c] = request]
      /\ UNCHANGED <<repository, live, threads, receipts, backup, rowLock,
                     projectLock, keyShare, scopeLock, applied, base, ever,
                     crossed>>
  BY DEF Request, store, locks, history
<1>2. /\ call' \in [Calls -> CallValues] /\ call'[c] = request
      /\ \A d \in Calls \ {c} : call'[d] = call[d]
  BY <1>1 DEF ThreadsInv, TypeOK
<1>3. ThreadLocks' /\ live' \in BOOLEAN
  BY <1>1 DEF ThreadsInv, TypeOK, ThreadLocks
<1>4. HasRead(call'[c], threads, repository, crossed)
  BY <1>2 DEF HasRead
<1> QED BY <1>1, <1>2, <1>3, <1>4, ThreadsStay

Requested(c) ==
  \E request \in CallValues :
    /\ Request(c, request)
    /\ request.phase = "calling" /\ request.answer = "none" /\ Asks(request)

LEMMA RequestsAsked ==
  ASSUME NEW c \in Calls, Asked(c)
  PROVE  Requested(c)
<1>0. /\ NewCall.seen \in ThreadValues \cup {None}
      /\ NewCall \in CallValues
  <2>1. MaxVersion \in Nat
    BY CallsAssumption, FS_CardinalityType DEF MaxVersion
  <2> QED BY <2>1 DEF NewCall, CallValues, Phases, Answers, Whole
<1>1. ASSUME NEW t \in Threads, NEW o \in Operations, NEW r \in Revisions,
             NEW h \in BOOLEAN, Create(c, t, o, r, h)
      PROVE  Requested(c)
  <2> DEFINE request ==
        [NewCall EXCEPT
           !.phase = "calling", !.kind = "create", !.thread = t,
           !.operation = o, !.revision = r,
           !.bound = IF h THEN r ELSE None]
  <2>1. request \in CallValues
    BY <1>0 DEF CallValues, Phases, Mutations
  <2>2. /\ request.phase = "calling" /\ request.answer = "none"
        /\ Asks(request)
    BY DEF NewCall, Asks
  <2>3. Request(c, request)
    BY <1>1 DEF Create
  <2> HIDE DEF request
  <2> QED BY <2>1, <2>2, <2>3 DEF Requested
<1>2. ASSUME NEW t \in Threads, NEW o \in Operations, NEW k \in Mutations,
             NEW v \in 1..MaxVersion, NEW h \in BOOLEAN,
             Change(c, k, t, o, v, h)
      PROVE  Requested(c)
  <2> DEFINE request ==
        [NewCall EXCEPT
           !.phase = "calling", !.kind = k, !.thread = t, !.operation = o,
           !.expected = v]
  <2>0. k # "create" /\ k # "move" /\ v \in 0..MaxVersion
    BY <1>2 DEF Change, Mutations
  <2>1. request \in CallValues
    BY <1>0, <2>0 DEF CallValues, Phases
  <2>2. /\ request.phase = "calling" /\ request.answer = "none"
        /\ Asks(request)
    BY <2>0 DEF NewCall, Asks
  <2>3. Request(c, request)
    BY <1>2 DEF Change
  <2> HIDE DEF request
  <2> QED BY <2>1, <2>2, <2>3 DEF Requested
<1>3. ASSUME NEW t \in Threads, NEW o \in Operations, NEW k \in Direct,
             NEW r \in Revisions, Touch(c, k, t, o, r)
      PROVE  Requested(c)
  <2> DEFINE request ==
        [NewCall EXCEPT
           !.phase = "calling", !.kind = k, !.thread = t, !.operation = o,
           !.revision = r]
  <2>1. request \in CallValues
    BY <1>0 DEF CallValues, Phases, Mutations
  <2>2. /\ request.phase = "calling" /\ request.answer = "none"
        /\ Asks(request)
    BY DEF NewCall, Asks, Direct
  <2>3. Request(c, request)
    BY <1>3 DEF Touch
  <2> HIDE DEF request
  <2> QED BY <2>1, <2>2, <2>3 DEF Requested
<1>4. ASSUME NEW k \in Whole, Manage(c, k)
      PROVE  Requested(c)
  <2> DEFINE request == [NewCall EXCEPT !.phase = "calling", !.kind = k]
  <2>1. request \in CallValues
    BY <1>0 DEF CallValues, Phases, Mutations
  <2>2. /\ request.phase = "calling" /\ request.answer = "none"
        /\ Asks(request)
    BY DEF NewCall, Asks, Mutations, Direct, Whole
  <2>3. Request(c, request)
    BY <1>4 DEF Manage
  <2> HIDE DEF request
  <2> QED BY <2>1, <2>2, <2>3 DEF Requested
<1> QED BY <1>1, <1>2, <1>3, <1>4 DEF Asked

LEMMA ThreadsAsked ==
  ASSUME ThreadsInv, NEW c \in Calls, Asked(c)
  PROVE  ThreadsInv'
<1>1. PICK request \in CallValues :
        /\ Request(c, request)
        /\ request.phase = "calling" /\ Asks(request)
  BY RequestsAsked DEF Requested
<1> QED BY <1>1, RequestMade

LEMMA LocksReleased ==
  ASSUME ThreadsInv, NEW c \in Calls, Released(c)
  PROVE  ThreadLocks'
BY DEF ThreadsInv, TypeOK, ThreadLocks, Released

LEMMA LocksStay == ThreadsInv /\ UNCHANGED locks => ThreadLocks'
BY DEF ThreadsInv, TypeOK, ThreadLocks, locks

(* A call that is answered and has changed nothing.                        *)
LEMMA AnswerOnly ==
  ASSUME ThreadsInv, NEW c \in Calls, call[c].phase \notin {"idle", "done"},
         NEW answer \in Answers, Answer(c, answer),
         UNCHANGED <<repository, threads, receipts, backup, applied, base,
                     ever, crossed>>,
         live' \in BOOLEAN, ThreadLocks'
  PROVE  ThreadsInv'
<1>1. /\ call' \in [Calls -> CallValues] /\ Asks(call'[c])
      /\ \A d \in Calls \ {c} : call'[d] = call[d]
      /\ HasRead(call'[c], threads, repository, crossed)
  BY AnswerGiven
<1> QED BY <1>1, ThreadsStay

LEMMA RolledBack ==
  ASSUME ThreadsInv, NEW c \in Calls, call[c].phase \notin {"idle", "done"},
         NEW answer \in Answers, RollBack(c, answer)
  PROVE  ThreadsInv'
<1>1. /\ Answer(c, answer) /\ Released(c)
      /\ UNCHANGED <<repository, threads, receipts, backup, applied, base,
                     ever, crossed>>
      /\ live' \in BOOLEAN
  BY DEF RollBack, store, history, ThreadsInv, TypeOK
<1> QED BY <1>1, LocksReleased, AnswerOnly

(* A call that goes on to its next phase and has changed nothing yet.      *)
LEMMA PhaseOnly ==
  ASSUME ThreadsInv, NEW c \in Calls, call[c].phase \notin {"idle", "done"},
         NEW p \in Phases \ {"idle", "done", "read"},
         call' = [call EXCEPT ![c].phase = p],
         p \in {"row", "scope"} => call[c].kind \in Mutations,
         p = "project" => call[c].kind \in Mutations \cup {"replace"},
         UNCHANGED <<repository, store, backup, history>>, ThreadLocks'
  PROVE  ThreadsInv'
<1>1. /\ call' \in [Calls -> CallValues]
      /\ call'[c] = [call[c] EXCEPT !.phase = p]
      /\ \A d \in Calls \ {c} : call'[d] = call[d]
      /\ call[c] \in CallValues /\ Asks(call[c])
  BY PhaseGoes DEF ThreadsInv, TypeOK
<1>2. /\ call'[c].phase = p /\ call'[c].kind = call[c].kind
      /\ call'[c].thread = call[c].thread
      /\ call'[c].operation = call[c].operation
      /\ call'[c].revision = call[c].revision
      /\ call'[c].expected = call[c].expected
  BY <1>1 DEF CallValues
<1>3. Asks(call'[c]) /\ HasRead(call'[c], threads, repository, crossed)
  BY <1>1, <1>2 DEF Asks, HasRead
<1>4. live' \in BOOLEAN
  BY DEF ThreadsInv, TypeOK, store
<1> QED BY <1>1, <1>3, <1>4, ThreadsStay DEF store, history

(* The steps of PostgreSQL's transactions that change no thread.           *)
LEMMA LocksTaken ==
  ASSUME ThreadsInv, NEW c \in Calls,
         LockRow(c) \/ LockProject(c) \/ LockScope(c)
           \/ LockForReplacement(c)
  PROVE  ThreadsInv'
<1>0. /\ Asks(call[c]) /\ ThreadLocks /\ call[c] \in CallValues
      /\ {"conflict", "refused"} \subseteq Answers
      /\ {"row", "project", "scope"} \subseteq
           Phases \ {"idle", "done", "read"}
  BY DEF ThreadsInv, TypeOK, ThreadLocks, Answers, Phases
<1>1. CASE LockRow(c)
  <2> DEFINE t == call[c].thread
  <2>1. /\ call[c].phase \notin {"idle", "done"}
        /\ call[c].kind \in Mutations /\ t \in Threads
    BY <1>0, <1>1 DEF LockRow, Postgres, Asks
  <2>2. CASE RollBack(c, "conflict")
    BY <1>0, <2>1, <2>2, RolledBack
  <2>3. CASE ~RollBack(c, "conflict")
    <3>1. /\ rowLock' = [rowLock EXCEPT ![t] = c]
          /\ call' = [call EXCEPT ![c].phase = "row"]
          /\ UNCHANGED <<repository, store, backup, projectLock, keyShare,
                         scopeLock, history>>
      BY <1>1, <2>3 DEF LockRow
    <3>2. ThreadLocks'
      BY <1>0, <3>1 DEF ThreadLocks
    <3> QED BY <1>0, <2>1, <3>1, <3>2, PhaseOnly
  <2> QED BY <2>2, <2>3
<1>2. CASE LockProject(c)
  <2>1. /\ call[c].phase \notin {"idle", "done"}
        /\ call[c].kind \in Mutations
    BY <1>0, <1>2 DEF LockProject, Postgres, Asks, Mutations
  <2>2. CASE RollBack(c, "refused")
    BY <1>0, <2>1, <2>2, RolledBack
  <2>3. CASE ~RollBack(c, "refused")
    <3>1. /\ keyShare' = keyShare \cup {c}
          /\ call' = [call EXCEPT ![c].phase = "project"]
          /\ UNCHANGED <<repository, store, backup, rowLock, projectLock,
                         scopeLock, history>>
      BY <1>2, <2>3 DEF LockProject
    <3>2. ThreadLocks'
      BY <1>0, <3>1 DEF ThreadLocks
    <3> QED BY <1>0, <2>1, <3>1, <3>2, PhaseOnly
  <2> QED BY <2>2, <2>3
<1>3. CASE LockScope(c)
  <2>1. /\ call[c].phase \notin {"idle", "done"}
        /\ call[c].kind \in Mutations
        /\ scopeLock' = [scopeLock EXCEPT ![call[c].thread] = c]
        /\ call' = [call EXCEPT ![c].phase = "scope"]
        /\ UNCHANGED <<repository, store, backup, rowLock, projectLock,
                       keyShare, history>>
    BY <1>3 DEF LockScope, Postgres
  <2>2. ThreadLocks'
    BY <1>0, <2>1 DEF ThreadLocks
  <2> QED BY <1>0, <2>1, <2>2, PhaseOnly
<1>4. CASE LockForReplacement(c)
  <2>1. /\ call[c].phase \notin {"idle", "done"}
        /\ call[c].kind = "replace" /\ projectLock' = c
        /\ call' = [call EXCEPT ![c].phase = "project"]
        /\ UNCHANGED <<repository, store, backup, rowLock, keyShare,
                       scopeLock, history>>
    BY <1>4 DEF LockForReplacement, Postgres
  <2>2. ThreadLocks'
    BY <1>0, <2>1 DEF ThreadLocks
  <2> QED BY <1>0, <2>1, <2>2, PhaseOnly
<1> QED BY <1>1, <1>2, <1>3, <1>4

LEMMA RowDeleted ==
  ASSUME ThreadsInv, NEW c \in Calls, NEW t \in Threads, DeleteRow(c, t)
  PROVE  ThreadsInv'
<1>1. /\ rowLock' = [rowLock EXCEPT ![t] = c]
      /\ call[c].phase # "done"
      /\ UNCHANGED <<repository, live, threads, receipts, backup, projectLock,
                     keyShare, scopeLock, call, applied, base, ever, crossed>>
  BY DEF DeleteRow, Postgres, store, history
<1>2. ThreadLocks' /\ live' \in BOOLEAN
  BY <1>1 DEF ThreadsInv, TypeOK, ThreadLocks
<1>3. /\ call' \in [Calls -> CallValues]
      /\ \A d \in Calls \ {c} : call'[d] = call[d]
      /\ Asks(call'[c]) /\ HasRead(call'[c], threads, repository, crossed)
  BY <1>1 DEF ThreadsInv, TypeOK
<1> QED BY <1>1, <1>2, <1>3, ThreadsStay

LEMMA ProjectMarked ==
  ASSUME ThreadsInv, NEW c \in Calls, MarkDeleted(c)
  PROVE  ThreadsInv'
<1>1. /\ Answer(c, "applied") /\ "applied" \in Answers
      /\ call[c].phase \notin {"idle", "done"} /\ live' \in BOOLEAN
      /\ UNCHANGED <<repository, threads, receipts, backup, locks, applied,
                     base, ever, crossed>>
  BY DEF MarkDeleted, Postgres, history, Answers
<1> QED BY <1>1, LocksStay, AnswerOnly

LEMMA ThreadRead ==
  ASSUME ThreadsInv, NEW c \in Calls, ReadThread(c)
  PROVE  ThreadsInv'
<1> DEFINE current == threads[call[c].thread]
<1>1. /\ call[c].phase = "calling" /\ call[c].kind \in Direct
      /\ repository = "postgres"
      /\ UNCHANGED <<repository, live, threads, receipts, backup, locks,
                     applied, base, ever, crossed>>
      /\ \/ /\ current # None
            /\ call' = [call EXCEPT ![c].seen = current, ![c].phase = "read"]
         \/ Answer(c, "refused")
  BY DEF ReadThread, Postgres, store, history
<1>2. ThreadLocks' /\ live' \in BOOLEAN /\ "refused" \in Answers
  BY <1>1, LocksStay DEF ThreadsInv, TypeOK, Answers
<1>3. CASE Answer(c, "refused")
  BY <1>1, <1>2, <1>3, AnswerOnly
<1>4. CASE /\ current # None
           /\ call' = [call EXCEPT ![c].seen = current, ![c].phase = "read"]
  <2>1. /\ call \in [Calls -> CallValues] /\ Asks(call[c])
        /\ call[c].thread \in Threads /\ current \in ThreadValues
        /\ "read" \in Phases
    BY <1>1, <1>4 DEF ThreadsInv, TypeOK, Asks, Phases
  <2>2. PICK k \in CallValues :
          k = [call[c] EXCEPT !.seen = current, !.phase = "read"]
    BY <2>1 DEF CallValues
  <2>3. call' = [call EXCEPT ![c] = k]
    BY <1>4, <2>1, <2>2
  <2>4. /\ call' \in [Calls -> CallValues] /\ call'[c] = k
        /\ \A d \in Calls \ {c} : call'[d] = call[d]
    BY <2>1, <2>3
  <2>5. /\ k.phase = "read" /\ k.seen = current /\ k.kind = call[c].kind
        /\ k.thread = call[c].thread /\ k.operation = call[c].operation
        /\ k.revision = call[c].revision /\ k.expected = call[c].expected
    BY <2>1, <2>2 DEF CallValues
  <2>6. Asks(k)
    BY <1>1, <2>1, <2>5 DEF Asks
  <2>7. HasRead(k, threads, repository, crossed)
    BY <1>1, <1>4, <2>1, <2>5, MayGrow DEF HasRead
  <2> QED BY <1>1, <1>2, <2>4, <2>6, <2>7, ThreadsStay
<1> QED BY <1>1, <1>3, <1>4

LEMMA TransactionLost ==
  ASSUME ThreadsInv, NEW c \in Calls, Lose(c) \/ Victim(c)
  PROVE  ThreadsInv'
<1>1. RollBack(c, "unknown") /\ "unknown" \in Answers
  BY DEF Lose, Victim, Answers
<1>2. call[c].phase \notin {"idle", "done"}
  <2>1. CASE Lose(c)
    BY <2>1 DEF Lose
  <2>2. CASE Victim(c)
    <3>1. WaitsFor(c) # {}
      BY <2>2 DEF Victim
    <3> QED BY <3>1 DEF WaitsFor
  <2> QED BY <2>1, <2>2
<1> QED BY <1>1, <1>2, RolledBack

(* Threads that are exchanged for their copies, removed, or copied.        *)
Copies == [thread : ThreadValues \cup {None}, applied : SUBSET Calls,
           base : 0..MaxVersion]

LEMMA CopiesMoved ==
  ASSUME ThreadsInv, NEW c \in Calls, call[c].phase \notin {"idle", "done"},
         NEW answer \in Answers, Answer(c, answer),
         UNCHANGED <<repository, receipts, ever>>, live' \in BOOLEAN,
         ThreadLocks', crossed' \in BOOLEAN, crossed => crossed',
         threads' \in [Threads -> ThreadValues \cup {None}],
         applied' \in [Threads -> SUBSET Calls],
         base' \in [Threads -> 0..MaxVersion],
         backup' \in [Threads -> Copies],
         \A t \in Threads :
           /\ Copied(threads'[t], applied'[t], base'[t], call', crossed')
           /\ Copied(backup'[t].thread, backup'[t].applied, backup'[t].base,
                     call', crossed'),
         \A d \in Calls :
           call[d].phase = "read" => crossed' \/ threads' = threads
  PROVE  ThreadsInv'
<1>1. /\ call' \in [Calls -> CallValues] /\ Asks(call'[c])
      /\ \A d \in Calls \ {c} : call'[d] = call[d]
      /\ \A stored, where, mixed : HasRead(call'[c], stored, where, mixed)
  BY AnswerGiven
<1>2. TypeOK'
  BY <1>1 DEF ThreadsInv, TypeOK, ThreadLocks, Copies
<1>3. ASSUME NEW d \in Calls
      PROVE  /\ Asks(call'[d])
             /\ HasRead(call'[d], threads', repository', crossed')
  <2>1. CASE d = c
    BY <1>1, <2>1
  <2>2. CASE d # c
    <3>1. /\ call'[d] = call[d] /\ Asks(call[d])
          /\ HasRead(call[d], threads, repository, crossed)
      BY <1>1, <2>2 DEF ThreadsInv
    <3> QED BY <3>1 DEF HasRead
  <2> QED BY <2>1, <2>2
<1>4. \A t \in Threads : \A r \in ToSet(receipts'[t]) :
        r.operation \in ever'[t]
  BY DEF ThreadsInv
<1> QED BY <1>2, <1>3, <1>4 DEF ThreadsInv

LEMMA CopiesKept ==
  ASSUME ThreadsInv, NEW c \in Calls, call[c].phase \notin {"idle", "done"},
         NEW answer \in Answers, Answer(c, answer), NEW t \in Threads,
         NEW mixed, crossed => mixed
  PROVE  /\ Copied(threads[t], applied[t], base[t], call', mixed)
         /\ Copied(backup[t].thread, backup[t].applied, backup[t].base, call',
                   mixed)
         /\ Copied(None, {}, 0, call', mixed)
<1>1. \A d \in Calls \ {c} : call'[d] = call[d]
  BY AnswerGiven
<1>2. /\ Copied(threads[t], applied[t], base[t], call', crossed)
      /\ Copied(backup[t].thread, backup[t].applied, backup[t].base, call',
                crossed)
  BY <1>1, InProgress
<1>3. Copied(None, {}, 0, call', mixed)
  BY CopiedNothing
<1> QED BY <1>2, <1>3 DEF Copied

LEMMA ThreadsRestored ==
  ASSUME ThreadsInv, NEW c \in Calls,
         ReplaceInMemory(c) \/ CommitReplacement(c)
  PROVE  ThreadsInv'
<1>1. /\ call[c].phase \notin {"idle", "done"} /\ "applied" \in Answers
      /\ Restored /\ Answer(c, "applied") /\ ThreadLocks'
  <2>1. CASE ReplaceInMemory(c)
    BY <2>1, LocksStay DEF ReplaceInMemory, InMemory, Answers
  <2>2. CASE CommitReplacement(c)
    BY <2>2, LocksReleased DEF CommitReplacement, Postgres, Answers
  <2> QED BY <2>1, <2>2
<1>2. /\ live' \in BOOLEAN /\ UNCHANGED <<repository, receipts, backup, ever>>
      /\ threads' = [t \in Threads |-> backup[t].thread]
      /\ applied' = [t \in Threads |-> backup[t].applied]
      /\ base' = [t \in Threads |-> backup[t].base]
      /\ crossed' = (crossed \/ \E d \in Calls : call[d].phase = "read")
  BY <1>1 DEF Restored
<1>3. /\ crossed' \in BOOLEAN
      /\ crossed => crossed'
      /\ \A d \in Calls : call[d].phase = "read" => crossed'
      /\ backup \in [Threads -> Copies]
  BY <1>2 DEF ThreadsInv, TypeOK, Copies
<1>4. ASSUME NEW t \in Threads
      PROVE  Copied(backup[t].thread, backup[t].applied, backup[t].base,
                    call', crossed')
  BY <1>1, <1>3, CopiesKept
<1>5. /\ threads' \in [Threads -> ThreadValues \cup {None}]
      /\ applied' \in [Threads -> SUBSET Calls]
      /\ base' \in [Threads -> 0..MaxVersion]
  BY <1>2, <1>3 DEF Copies
<1>6. \A t \in Threads :
        /\ threads'[t] = backup[t].thread /\ applied'[t] = backup[t].applied
        /\ base'[t] = backup[t].base
  BY <1>2
<1>7. \A t \in Threads :
        /\ Copied(threads'[t], applied'[t], base'[t], call', crossed')
        /\ Copied(backup'[t].thread, backup'[t].applied, backup'[t].base,
                  call', crossed')
  BY <1>2, <1>4, <1>6
<1> QED BY <1>1, <1>2, <1>3, <1>5, <1>7, CopiesMoved

LEMMA ThreadsRemoved ==
  ASSUME ThreadsInv, NEW c \in Calls, DeleteInMemory(c)
  PROVE  ThreadsInv'
<1>1. /\ call[c].phase \notin {"idle", "done"} /\ "applied" \in Answers
      /\ repository = "memory" /\ live' \in BOOLEAN
      /\ threads' = [t \in Threads |-> None]
      /\ applied' = [t \in Threads |-> {}] /\ base' = [t \in Threads |-> 0]
      /\ Answer(c, "applied")
      /\ UNCHANGED <<repository, receipts, backup, locks, ever, crossed>>
  BY DEF DeleteInMemory, InMemory, Answers
<1>2. ThreadLocks' /\ MaxVersion \in Nat
  BY <1>1, LocksStay, CallsAssumption, FS_CardinalityType DEF MaxVersion
<1>3. ASSUME NEW t \in Threads
      PROVE  /\ Copied(None, {}, 0, call', crossed)
             /\ Copied(backup[t].thread, backup[t].applied, backup[t].base,
                       call', crossed)
  BY <1>1, CopiesKept
<1>4. \A d \in Calls : call[d].phase # "read"
  BY <1>1 DEF ThreadsInv, HasRead
<1>5. /\ threads' \in [Threads -> ThreadValues \cup {None}]
      /\ applied' \in [Threads -> SUBSET Calls]
      /\ base' \in [Threads -> 0..MaxVersion]
      /\ backup' \in [Threads -> Copies]
      /\ crossed' \in BOOLEAN
  BY <1>1, <1>2 DEF ThreadsInv, TypeOK, Copies
<1>6. \A t \in Threads :
        /\ Copied(threads'[t], applied'[t], base'[t], call', crossed')
        /\ Copied(backup'[t].thread, backup'[t].applied, backup'[t].base,
                  call', crossed')
  BY <1>1, <1>3
<1> QED BY <1>1, <1>2, <1>4, <1>5, <1>6, CopiesMoved

LEMMA ThreadsExported ==
  ASSUME ThreadsInv, NEW c \in Calls, Export(c)
  PROVE  ThreadsInv'
<1> DEFINE answer == IF live THEN "applied" ELSE "refused"
           copy(t) == IF threads[t] = None THEN NoCopy
                      ELSE Copy(threads[t], applied[t], base[t])
<1>1. /\ call[c].phase \notin {"idle", "done"} /\ answer \in Answers
      /\ Answer(c, answer)
      /\ UNCHANGED <<repository, live, threads, receipts, locks, applied,
                     base, ever, crossed>>
      /\ backup' = IF ~live THEN backup ELSE [t \in Threads |-> copy(t)]
  BY DEF Export, store, history, Answers
<1>2. ThreadLocks' /\ MaxVersion \in Nat
  BY <1>1, LocksStay, CallsAssumption, FS_CardinalityType DEF MaxVersion
<1>3. ASSUME NEW t \in Threads
      PROVE  /\ Copied(threads[t], applied[t], base[t], call', crossed)
             /\ Copied(backup[t].thread, backup[t].applied, backup[t].base,
                       call', crossed)
             /\ Copied(None, {}, 0, call', crossed)
  BY <1>1, CopiesKept
<1>4. ASSUME NEW t \in Threads
      PROVE  /\ copy(t) \in Copies
             /\ Copied(copy(t).thread, copy(t).applied, copy(t).base, call',
                       crossed)
  <2>1. /\ threads[t] \in ThreadValues \cup {None}
        /\ applied[t] \in SUBSET Calls /\ base[t] \in 0..MaxVersion
    BY DEF ThreadsInv, TypeOK
  <2>2. CASE threads[t] = None
    <3>1. copy(t) = Copy(None, {}, 0)
      BY <2>2 DEF NoCopy
    <3>2. /\ Copy(None, {}, 0).thread = None
          /\ Copy(None, {}, 0).applied = {} /\ Copy(None, {}, 0).base = 0
      BY CopyFields
    <3>3. Copy(None, {}, 0) \in Copies
      BY <1>2 DEF Copy, Copies
    <3> QED BY <1>3, <3>1, <3>2, <3>3
  <2>3. CASE threads[t] # None
    <3>1. copy(t) = Copy(threads[t], applied[t], base[t])
      BY <2>3
    <3>2. /\ copy(t).thread = threads[t] /\ copy(t).applied = applied[t]
          /\ copy(t).base = base[t]
      BY <3>1, CopyFields
    <3>3. copy(t) \in Copies
      BY <2>1, <3>1 DEF Copy, Copies
    <3> QED BY <1>3, <3>2, <3>3
  <2> QED BY <2>2, <2>3
<1> HIDE DEF copy
<1>5. ASSUME NEW t \in Threads
      PROVE  /\ backup'[t] \in Copies
             /\ Copied(backup'[t].thread, backup'[t].applied,
                       backup'[t].base, call', crossed)
  <2>1. CASE live
    BY <1>1, <1>4, <2>1
  <2>2. CASE ~live
    BY <1>1, <1>3, <2>2 DEF ThreadsInv, TypeOK, Copies
  <2> QED BY <2>1, <2>2
<1>6. backup' \in [Threads -> Copies]
  BY <1>1, <1>5 DEF ThreadsInv, TypeOK, Copies
<1>7. /\ threads' \in [Threads -> ThreadValues \cup {None}]
      /\ applied' \in [Threads -> SUBSET Calls]
      /\ base' \in [Threads -> 0..MaxVersion]
      /\ crossed' \in BOOLEAN /\ live' \in BOOLEAN
  BY <1>1 DEF ThreadsInv, TypeOK
<1> HIDE DEF answer
<1>8. \A t \in Threads :
        /\ Copied(threads'[t], applied'[t], base'[t], call', crossed')
        /\ Copied(backup'[t].thread, backup'[t].applied, backup'[t].base,
                  call', crossed')
  BY <1>1, <1>3, <1>5
<1> QED BY <1>1, <1>2, <1>6, <1>7, <1>8, CopiesMoved

(* mutateReviewThread, in either repository.                               *)
LEMMA OutcomeApplied ==
  ASSUME NEW c, NEW exists, Outcome(c, exists) = "applied"
  PROVE  /\ AsExpected(c)
         /\ call[c].kind # "create" => threads[call[c].thread] # None
BY DEF Outcome

LEMMA OutcomeAnswers ==
  ASSUME NEW c, NEW exists
  PROVE  Outcome(c, exists) \in Answers
BY DEF Outcome, Answers

LEMMA ThreadWritten ==
  ASSUME ThreadsInv, NEW c \in Calls, call[c].phase \notin {"idle", "done"},
         call[c].kind \in Mutations, NEW exists \in BOOLEAN,
         Write(c, exists), Answer(c, Outcome(c, exists)), ThreadLocks'
  PROVE  ThreadsInv'
<1> DEFINE t == call[c].thread
           answer == Outcome(c, exists)
           more == IF call[c].kind = "create" THEN NewThread(c)
                   ELSE Changed(c, threads[t])
<1>0. /\ answer \in Answers /\ call[c] \in CallValues
      /\ t \in Threads /\ call[c].operation \in Operations
      /\ call[c].kind \in {"create", "move"} => call[c].revision \in Revisions
      /\ UNCHANGED <<repository, live, backup, crossed>>
      /\ live' \in BOOLEAN
  <2>1. answer \in Answers
    BY OutcomeAnswers
  <2>2. UNCHANGED <<repository, live, backup, crossed>>
    BY DEF Write
  <2>3. Asks(call[c]) /\ call[c] \in CallValues /\ live \in BOOLEAN
    BY DEF ThreadsInv, TypeOK
  <2> HIDE DEF answer
  <2> QED BY <2>1, <2>2, <2>3 DEF Asks
<1>1. CASE answer # "applied"
  <2>1. UNCHANGED <<threads, receipts, applied, base, ever>>
    BY <1>1 DEF Write
  <2> HIDE DEF answer
  <2> QED BY <1>0, <2>1, AnswerOnly DEF answer
<1>2. CASE answer = "applied"
  <2>1. /\ Put(c, more)
        /\ receipts' = [receipts EXCEPT ![t] = Remember(t, Receipt(c))]
        /\ ever' = [ever EXCEPT ![t] = @ \cup {call[c].operation}]
        /\ AsExpected(c)
        /\ call[c].kind # "create" => threads[t] # None
    BY <1>2, OutcomeApplied DEF Write
  <2>2. Fits(c, more)
    <3>1. CASE call[c].kind = "create"
      <4>1. /\ more = NewThread(c) /\ threads[t] = None
            /\ call[c].bound \in Revisions \cup {None}
            /\ call[c].revision \in Revisions
        BY <1>0, <2>1, <3>1 DEF AsExpected, CallValues
      <4>2. MaxVersion \in Nat /\ MaxVersion >= 1
        BY CallsAssumption, FS_CardinalityType DEF MaxVersion
      <4>3. /\ NewThread(c) \in ThreadValues /\ NewThread(c).version = 1
            /\ call[c].operation \in NewThread(c).messages
        BY <1>0, <4>1, <4>2 DEF NewThread, ThreadValues
      <4> HIDE DEF more
      <4> QED BY <3>1, <4>1, <4>3 DEF Fits, HasChange
    <3>2. CASE call[c].kind # "create"
      <4>1. /\ more = Changed(c, threads[t]) /\ threads[t] # None
            /\ threads[t].version = call[c].expected
        BY <2>1, <3>2 DEF AsExpected
      <4>2. /\ threads[t] \in ThreadValues
            /\ threads[t].version + 1 \in 1..MaxVersion
        BY <1>0, <4>1, MayGrow
      <4>3. call[c].kind \in (Mutations \cup Direct) \ {"create"}
        BY <3>2
      <4>4. /\ Changed(c, threads[t]) \in ThreadValues
            /\ Changed(c, threads[t]).version = threads[t].version + 1
            /\ threads[t].messages \subseteq Changed(c, threads[t]).messages
            /\ threads[t].marks \subseteq Changed(c, threads[t]).marks
            /\ HasChange(Changed(c, threads[t]), c, call)
        BY <1>0, <4>2, <4>3, ChangedFits
      <4> HIDE DEF more
      <4> QED BY <3>2, <4>1, <4>4 DEF Fits
    <3> QED BY <3>1, <3>2
  <2>3. Receipt(c) \in Receipts /\ Receipt(c).operation = call[c].operation
    BY <1>0 DEF Receipt, Receipts, CallValues
  <2>4. /\ Remember(t, Receipt(c)) \in Seq(Receipts)
        /\ Len(Remember(t, Receipt(c))) <= MaxReceipts
        /\ \A s \in ToSet(Remember(t, Receipt(c))) :
             s = Receipt(c) \/ s \in ToSet(receipts[t])
    BY <1>0, <2>3, Remembered DEF ThreadsInv
  <2>5. /\ receipts \in [Threads -> Seq(Receipts)]
        /\ ever \in [Threads -> SUBSET Operations]
        /\ \A u \in Threads : /\ Len(receipts[u]) <= MaxReceipts
                              /\ \A r \in ToSet(receipts[u]) :
                                   r.operation \in ever[u]
    BY DEF ThreadsInv, TypeOK
  <2>6. /\ receipts' \in [Threads -> Seq(Receipts)]
        /\ ever' \in [Threads -> SUBSET Operations]
    BY <1>0, <2>1, <2>4, <2>5
  <2>7. ASSUME NEW u \in Threads
        PROVE  /\ Len(receipts'[u]) <= MaxReceipts
               /\ \A r \in ToSet(receipts'[u]) : r.operation \in ever'[u]
    <3>1. CASE u = t
      <4>1. /\ receipts'[u] = Remember(t, Receipt(c))
            /\ ever'[u] = ever[t] \cup {call[c].operation}
        BY <1>0, <2>1, <2>5, <3>1
      <4> QED BY <1>0, <2>3, <2>4, <2>5, <4>1
    <3>2. CASE u # t
      BY <2>1, <2>5, <3>2
    <3> QED BY <3>1, <3>2
  <2> HIDE DEF more, answer
  <2> QED BY <1>0, <2>1, <2>2, <2>6, <2>7, ChangePut DEF answer
<1> QED BY <1>1, <1>2

LEMMA MutationMade ==
  ASSUME ThreadsInv, NEW c \in Calls, MutateInMemory(c) \/ CommitMutation(c)
  PROVE  ThreadsInv'
<1>1. CASE MutateInMemory(c)
  <2>1. /\ call[c].phase \notin {"idle", "done"}
        /\ call[c].kind \in Mutations /\ live \in BOOLEAN
        /\ Write(c, live) /\ Answer(c, Outcome(c, live)) /\ ThreadLocks'
    BY <1>1, LocksStay DEF MutateInMemory, InMemory, ThreadsInv, TypeOK
  <2> QED BY <2>1, ThreadWritten
<1>2. CASE CommitMutation(c)
  <2>1. /\ call[c].phase \notin {"idle", "done"}
        /\ call[c].kind \in Mutations
        /\ Write(c, TRUE) /\ Answer(c, Outcome(c, TRUE)) /\ ThreadLocks'
    BY <1>2, LocksReleased DEF CommitMutation, Postgres, ThreadsInv, Asks
  <2> QED BY <2>1, ThreadWritten
<1> QED BY <1>1, <1>2

(* The changes that are made without a receipt.                            *)
LEMMA TouchedInMemory ==
  ASSUME ThreadsInv, NEW c \in Calls, TouchInMemory(c)
  PROVE  ThreadsInv'
<1> DEFINE t == call[c].thread
           more == Changed(c, threads[t])
           fits == /\ threads[t] # None
                   /\ threads[t].lifecycle \in FromLifecycle(call[c].kind)
                   /\ Valid(c, threads[t])
           answer == IF fits THEN "applied" ELSE "refused"
<1>1. /\ call[c].phase = "calling" /\ call[c].kind \in Direct
      /\ UNCHANGED <<repository, live, receipts, backup, locks, ever, crossed>>
      /\ Answer(c, answer)
      /\ IF fits THEN Put(c, more) ELSE UNCHANGED <<threads, applied, base>>
  BY DEF TouchInMemory, InMemory
<1> HIDE DEF fits
<1>2. /\ answer \in Answers /\ ThreadLocks' /\ live' \in BOOLEAN
      /\ t \in Threads /\ call[c].operation \in Operations
      /\ call[c].kind = "move" => call[c].revision \in Revisions
      /\ call[c].kind \in (Mutations \cup Direct) \ {"create"}
      /\ call[c].kind \notin Mutations
  BY <1>1, LocksStay
     DEF ThreadsInv, TypeOK, Asks, Answers, Mutations, Direct
<1> HIDE DEF answer
<1>3. CASE ~fits
  BY <1>1, <1>2, <1>3, AnswerOnly
<1>4. CASE fits
  <2>1. Put(c, more) /\ threads[t] # None
    BY <1>1, <1>4 DEF fits
  <2>2. /\ threads[t] \in ThreadValues
        /\ threads[t].version + 1 \in 1..MaxVersion
    BY <1>1, <1>2, <2>1, MayGrow
  <2>3. /\ more \in ThreadValues /\ more.version = threads[t].version + 1
        /\ threads[t].messages \subseteq more.messages
        /\ threads[t].marks \subseteq more.marks
        /\ HasChange(more, c, call)
    BY <1>2, <2>2, ChangedFits
  <2> HIDE DEF more
  <2>4. Fits(c, more)
    BY <1>2, <2>1, <2>3 DEF Fits
  <2>5. /\ receipts' \in [Threads -> Seq(Receipts)]
        /\ ever' \in [Threads -> SUBSET Operations]
        /\ \A u \in Threads : /\ Len(receipts'[u]) <= MaxReceipts
                              /\ \A r \in ToSet(receipts'[u]) :
                                   r.operation \in ever'[u]
    BY <1>1 DEF ThreadsInv, TypeOK
  <2> QED BY <1>1, <1>2, <2>1, <2>4, <2>5, ChangePut
<1> QED BY <1>3, <1>4

(* An update that finds the version that was read writes what a change of  *)
(* the current thread would be, unless a replacement came in between.      *)
RowOf(kind, current, next) ==
  CASE kind \in {"append", "react", "read"} ->
         [current EXCEPT !.version = next.version,
                         !.messages = next.messages,
                         !.marks = next.marks]
    [] kind \in {"close", "open"} ->
         [current EXCEPT !.version = next.version,
                         !.lifecycle = next.lifecycle]
    [] kind = "move" ->
         [current EXCEPT !.version = next.version,
                         !.revision = next.revision]

LEMMA RowFits ==
  ASSUME NEW kind \in Direct, NEW current \in ThreadValues,
         NEW next \in ThreadValues
  PROVE  LET row == RowOf(kind, current, next) IN
         /\ row \in ThreadValues /\ row.version = next.version
         /\ kind \in {"append", "react", "read"} =>
              row.messages = next.messages /\ row.marks = next.marks
         /\ kind \notin {"append", "react", "read"} =>
              row.messages = current.messages /\ row.marks = current.marks
<1> DEFINE row == RowOf(kind, current, next)
<1>1. CASE kind \in {"append", "react", "read"}
  <2>1. row = [current EXCEPT !.version = next.version,
                              !.messages = next.messages,
                              !.marks = next.marks]
    BY <1>1 DEF RowOf
  <2> QED BY <1>1, <2>1 DEF ThreadValues
<1>2. CASE kind \in {"close", "open"}
  <2>1. row = [current EXCEPT !.version = next.version,
                              !.lifecycle = next.lifecycle]
    BY <1>2 DEF RowOf
  <2> QED BY <1>2, <2>1 DEF ThreadValues
<1>3. CASE kind = "move"
  <2>1. row = [current EXCEPT !.version = next.version,
                              !.revision = next.revision]
    BY <1>3 DEF RowOf
  <2> QED BY <1>3, <2>1 DEF ThreadValues
<1> QED BY <1>1, <1>2, <1>3 DEF Direct

LEMMA RowUpdated ==
  ASSUME ThreadsInv, NEW c \in Calls, UpdateRow(c)
  PROVE  ThreadsInv'
<1> DEFINE t == call[c].thread
           current == threads[t]
           next == Changed(c, call[c].seen)
           row == RowOf(call[c].kind, current, next)
           answer == IF StillRead(c) THEN "applied" ELSE "conflict"
<1>1. /\ call[c].phase = "read"
      /\ UNCHANGED <<repository, live, receipts, backup, locks, ever, crossed>>
      /\ Answer(c, answer)
      /\ IF StillRead(c) THEN Put(c, row)
         ELSE UNCHANGED <<threads, applied, base>>
  BY DEF UpdateRow, Postgres, RowOf
<1>2. /\ answer \in Answers /\ ThreadLocks' /\ live' \in BOOLEAN
  BY <1>1, LocksStay DEF ThreadsInv, TypeOK, Answers
<1>3. /\ call[c].kind \in Direct /\ call[c].seen \in ThreadValues
      /\ ~crossed => /\ current # None
                     /\ call[c].seen.version = current.version =>
                          call[c].seen = current
  BY <1>1 DEF ThreadsInv, TypeOK, HasRead, CallValues
<1>4. /\ t \in Threads /\ call[c].operation \in Operations
      /\ call[c].kind = "move" => call[c].revision \in Revisions
      /\ call[c].kind \in (Mutations \cup Direct) \ {"create"}
      /\ call[c].kind \notin Mutations
  BY <1>1, <1>3 DEF ThreadsInv, Asks, Mutations, Direct
<1> HIDE DEF answer, row
<1>5. CASE ~StillRead(c)
  BY <1>1, <1>2, <1>5, AnswerOnly
<1>6. CASE StillRead(c)
  <2>1. /\ Put(c, row) /\ current # None
        /\ current.version = call[c].seen.version
    BY <1>1, <1>6 DEF StillRead
  <2>2. /\ current \in ThreadValues
        /\ call[c].seen.version + 1 \in 1..MaxVersion
    BY <1>1, <1>4, <2>1, MayGrow
  <2>3. /\ next \in ThreadValues
        /\ next.version = call[c].seen.version + 1
        /\ call[c].seen.messages \subseteq next.messages
        /\ call[c].seen.marks \subseteq next.marks
        /\ HasChange(next, c, call)
    BY <1>3, <1>4, <2>2, ChangedFits
  <2> HIDE DEF next, current
  <2>4. /\ row \in ThreadValues /\ row.version = next.version
        /\ call[c].kind \in {"append", "react", "read"} =>
             row.messages = next.messages /\ row.marks = next.marks
        /\ call[c].kind \notin {"append", "react", "read"} =>
             row.messages = current.messages /\ row.marks = current.marks
    BY <1>3, <2>2, <2>3, RowFits DEF row
  <2>5. ~crossed => call[c].seen = current
    BY <1>3, <2>1 DEF current
  <2>6. ~crossed => /\ current.messages \subseteq row.messages
                    /\ current.marks \subseteq row.marks
                    /\ HasChange(row, c, call)
    BY <1>4, <2>3, <2>4, <2>5 DEF HasChange, Mutations
  <2>7. Fits(c, row)
    BY <1>4, <2>1, <2>3, <2>4, <2>6 DEF Fits, current
  <2>8. /\ receipts' \in [Threads -> Seq(Receipts)]
        /\ ever' \in [Threads -> SUBSET Operations]
        /\ \A u \in Threads : /\ Len(receipts'[u]) <= MaxReceipts
                              /\ \A r \in ToSet(receipts'[u]) :
                                   r.operation \in ever'[u]
    BY <1>1 DEF ThreadsInv, TypeOK
  <2> QED BY <1>1, <1>2, <1>4, <2>1, <2>7, <2>8, ChangePut
<1> QED BY <1>5, <1>6

LEMMA ThreadsStep == ThreadsInv /\ [Next]_vars => ThreadsInv'
<1> SUFFICES ASSUME ThreadsInv, [Next]_vars
             PROVE  ThreadsInv'
  OBVIOUS
<1>1. CASE Next
  <2>1. PICK c \in Calls : Asked(c) \/ Progress(c) \/ Lose(c)
    BY <1>1 DEF Next
  <2>2. CASE Asked(c)
    BY <2>2, ThreadsAsked
  <2>3. CASE Lose(c) \/ Victim(c)
    BY <2>3, TransactionLost
  <2>4. CASE Export(c)
    BY <2>4, ThreadsExported
  <2>5. CASE MutateInMemory(c) \/ CommitMutation(c)
    BY <2>5, MutationMade
  <2>6. CASE TouchInMemory(c)
    BY <2>6, TouchedInMemory
  <2>7. CASE ReplaceInMemory(c) \/ CommitReplacement(c)
    BY <2>7, ThreadsRestored
  <2>8. CASE DeleteInMemory(c)
    BY <2>8, ThreadsRemoved
  <2>9. CASE LockRow(c) \/ LockProject(c) \/ LockScope(c)
               \/ LockForReplacement(c)
    BY <2>9, LocksTaken
  <2>10. CASE ReadThread(c)
    BY <2>10, ThreadRead
  <2>11. CASE UpdateRow(c)
    BY <2>11, RowUpdated
  <2>12. ASSUME NEW t \in Threads, DeleteRow(c, t)
         PROVE  ThreadsInv'
    BY <2>12, RowDeleted
  <2>13. CASE MarkDeleted(c)
    BY <2>13, ProjectMarked
  <2> QED BY <2>1, <2>2, <2>3, <2>4, <2>5, <2>6, <2>7, <2>8, <2>9, <2>10,
             <2>11, <2>12, <2>13 DEF Progress
<1>2. CASE UNCHANGED vars
  <2>1. UNCHANGED <<repository, live, threads, receipts, backup, rowLock,
                    projectLock, keyShare, scopeLock, call, applied, base,
                    ever, crossed>>
    BY <1>2 DEF vars, store, locks, history
  <2> QED BY <2>1 DEF ThreadsInv, TypeOK
<1> QED BY <1>1, <1>2

LEMMA ThreadsAlways == Spec => []ThreadsInv
BY ThreadsStart, ThreadsStep, PTL DEF Spec

(* An acknowledged change is in its thread, whose version counts the       *)
(* changes, until a replacement takes it back, and no mutation is in a     *)
(* thread twice (mutateReviewThread and the updates by version).           *)
THEOREM ChangesAreKept == Spec => []ChangesKept
<1>1. ThreadsInv => ChangesKept
  <2> SUFFICES ASSUME ThreadsInv PROVE ChangesKept
    OBVIOUS
  <2>1. ASSUME NEW t \in Threads
        PROVE  Copied(threads[t], applied[t], base[t], call, crossed)
    BY DEF ThreadsInv
  <2>2. ASSUME ~crossed, NEW t \in Threads, threads[t] # None
        PROVE  /\ threads[t].version = base[t] + Cardinality(applied[t])
               /\ \A c \in applied[t] : HasChange(threads[t], c, call)
    BY <2>1, <2>2 DEF Copied
  <2>3. ASSUME NEW t \in Threads, NEW c \in applied[t], NEW d \in applied[t],
               {call[c].kind, call[d].kind} \subseteq Mutations,
               Receipt(c) = Receipt(d)
        PROVE  c = d
    <3>1. SameRequest(call[c], call[d])
      BY <2>3 DEF Receipt, SameRequest
    <3> QED BY <2>1, <2>3, <3>1 DEF Copied
  <2> QED BY <2>2, <2>3 DEF ChangesKept, HasChange
<1> QED BY <1>1, ThreadsAlways, PTL

LEMMA OutcomeReplayed ==
  ASSUME NEW c, NEW exists, Outcome(c, exists) = "replayed"
  PROVE  LET t == call[c].thread IN
         /\ threads[t] # None
         /\ Receipt(c) \in ToSet(receipts[t])
         /\ StillApplied(Receipt(c), threads[t])
BY DEF Outcome, ReceiptsOf

(* Whose answer says so, and that it is a mutation's.                      *)
Replays(c) == call[c].answer # "replayed" /\ call'[c].answer = "replayed"

LEMMA ReplayAnswered ==
  ASSUME ThreadsInv, NEW c \in Calls, NEW d \in Calls, Replays(c),
         NEW answer, Answer(d, answer)
  PROVE  c = d /\ answer = "replayed"
<1>1. call \in [Calls -> CallValues]
  BY DEF ThreadsInv, TypeOK
<1>2. PICK told \in {answer, "unknown"} :
        call' = [call EXCEPT ![d].phase = "done", ![d].answer = told,
                             ![d].seen = None]
  BY DEF Answer
<1>3. c = d
  BY <1>1, <1>2 DEF Replays
<1>4. call'[c].answer = told
  BY <1>1, <1>2, <1>3 DEF CallValues
<1> QED BY <1>2, <1>3, <1>4 DEF Replays

LEMMA ReplayNotAsked ==
  ASSUME ThreadsInv, NEW c \in Calls, NEW d \in Calls, Asked(d)
  PROVE  ~Replays(c)
<1>1. PICK request : Request(d, request) /\ request.answer = "none"
  BY RequestsAsked DEF Requested
<1> QED BY <1>1 DEF Request, Replays, ThreadsInv, TypeOK

LEMMA ReplayNotMoved ==
  ASSUME ThreadsInv, NEW c \in Calls, NEW d \in Calls, NEW p, NEW value,
         \/ call' = [call EXCEPT ![d].phase = p]
         \/ call' = [call EXCEPT ![d].seen = value, ![d].phase = p]
  PROVE  ~Replays(c)
<1>1. call \in [Calls -> CallValues]
  BY DEF ThreadsInv, TypeOK
<1> QED BY <1>1 DEF Replays, CallValues

LEMMA RepliedSo ==
  ASSUME ThreadsInv, NEW c \in Calls, Replays(c), Next
  PROVE  /\ Asks(call[c]) /\ call[c].phase # "idle"
         /\ call[c].kind \in Mutations
         /\ \E exists \in BOOLEAN : Outcome(c, exists) = "replayed"
<1>1. PICK d \in Calls : Asked(d) \/ Progress(d) \/ Lose(d)
  BY DEF Next
<1>2. ~Asked(d)
  BY ReplayNotAsked
<1>3. \A answer : Answer(d, answer) => c = d /\ answer = "replayed"
  BY ReplayAnswered
<1>4. \A answer : RollBack(d, answer) => answer = "replayed"
  BY <1>3 DEF RollBack
<1>5. ~Lose(d) /\ ~Victim(d)
  BY <1>4 DEF Lose, Victim
<1>6. /\ ~Export(d) /\ ~TouchInMemory(d) /\ ~ReplaceInMemory(d)
      /\ ~DeleteInMemory(d)
  BY <1>3 DEF Export, TouchInMemory, ReplaceInMemory, DeleteInMemory
<1>7. ~UpdateRow(d) /\ ~CommitReplacement(d) /\ ~MarkDeleted(d)
  BY <1>3 DEF UpdateRow, CommitReplacement, MarkDeleted
<1>8. /\ ~LockRow(d) /\ ~LockProject(d) /\ ~LockScope(d)
      /\ ~LockForReplacement(d)
  BY <1>4, ReplayNotMoved
     DEF LockRow, LockProject, LockScope, LockForReplacement
<1>9. ~ReadThread(d)
  BY <1>3, ReplayNotMoved DEF ReadThread
<1>10. ~\E t \in Threads : DeleteRow(d, t)
  BY DEF DeleteRow, Replays
<1>11. MutateInMemory(d) \/ CommitMutation(d)
  BY <1>1, <1>2, <1>5, <1>6, <1>7, <1>8, <1>9, <1>10 DEF Progress
<1>12. \E exists \in BOOLEAN : Answer(d, Outcome(d, exists))
  BY <1>11 DEF MutateInMemory, CommitMutation, ThreadsInv, TypeOK
<1>13. c = d /\ \E exists \in BOOLEAN : Outcome(c, exists) = "replayed"
  BY <1>3, <1>12
<1>14. Asks(call[c])
  BY DEF ThreadsInv
<1>15. call[c].phase # "idle" /\ call[c].kind \in Mutations
  BY <1>11, <1>13, <1>14
     DEF MutateInMemory, InMemory, CommitMutation, Postgres, Asks
<1> QED BY <1>13, <1>14, <1>15

(* A client is told of an earlier mutation only if it was applied and its  *)
(* effect still holds (mutateReviewThread's stillApplied).                 *)
THEOREM ReplaysHold == Spec => ReplayHolds
<1>1. ASSUME ThreadsInv, [Next]_vars
      PROVE  [\A c \in Calls :
                call[c].answer # "replayed" /\ call'[c].answer = "replayed" =>
                  LET t == call[c].thread IN
                  /\ call[c].operation \in ever[t]
                  /\ threads[t] # None
                  /\ call[c].kind = "reply" =>
                       call[c].operation \in threads[t].messages
                  /\ call[c].kind = "resolve" =>
                       threads[t].lifecycle = "resolved"
                  /\ call[c].kind = "reopen" =>
                       threads[t].lifecycle = "open"]_vars
  <2>1. ASSUME NEW c \in Calls, Replays(c), Next
        PROVE  LET t == call[c].thread IN
               /\ call[c].operation \in ever[t]
               /\ threads[t] # None
               /\ call[c].kind = "reply" =>
                    call[c].operation \in threads[t].messages
               /\ call[c].kind = "resolve" =>
                    threads[t].lifecycle = "resolved"
               /\ call[c].kind = "reopen" => threads[t].lifecycle = "open"
    <3>1. PICK exists \in BOOLEAN :
            /\ Asks(call[c]) /\ call[c].phase # "idle"
            /\ call[c].kind \in Mutations
            /\ Outcome(c, exists) = "replayed"
      BY <1>1, <2>1, RepliedSo
    <3>2. call[c].thread \in Threads
      BY <3>1 DEF Asks
    <3>3. /\ threads[call[c].thread] # None
          /\ Receipt(c) \in ToSet(receipts[call[c].thread])
          /\ StillApplied(Receipt(c), threads[call[c].thread])
      BY <3>1, OutcomeReplayed
    <3>4. /\ Receipt(c).operation = call[c].operation
          /\ Receipt(c).kind = call[c].kind
      BY DEF Receipt
    <3>5. call[c].operation \in ever[call[c].thread]
      BY <1>1, <3>2, <3>3, <3>4 DEF ThreadsInv
    <3> QED BY <3>3, <3>4, <3>5 DEF StillApplied
  <2> QED BY <1>1, <2>1 DEF Replays
<1> QED BY <1>1, ThreadsAlways, PTL DEF Spec, ReplayHolds

-----------------------------------------------------------------------------
(* The event stream.                                                       *)

RisesUpTo(s, bound) ==
  /\ \A i, j \in DOMAIN s : i < j => s[i] < s[j]
  /\ \A n \in ToSet(s) : n <= bound

(* Nothing is needed of what is pending and required.                      *)
StreamTyped ==
  /\ cursors \in Nat /\ reserved \in BOOLEAN
  /\ cursorOf \in [Calls -> Nat]
  /\ emit \in [Calls -> {"idle", "inserted", "aborted", "committed", "told",
                         "unheard"}]
  /\ received \in Seq(Nat) /\ sent \in Seq(Nat)
  /\ stream \in [open : BOOLEAN, last : Nat, replay : Nat,
                 replaying : BOOLEAN, page : Seq(Nat),
                 pending : {stream.pending}, required : {stream.required}]

(* A page that is being written begins after what was written before it,   *)
(* and the next one is asked for from no later than that.                  *)
Paged ==
  /\ \A e \in Calls : cursorOf[e] <= cursors
  /\ RisesUpTo(stream.page, cursors) /\ stream.last <= cursors
  /\ phase = "loading" => stream.page = <<>>
  /\ phase = "loaded" \/ stream.page = <<>> => stream.replay <= stream.last
  /\ phase # "loaded" /\ stream.page # <<>> =>
       stream.replay <= stream.page[Len(stream.page)]

(* The reader has what it has received and will have what was sent.        *)
Ordered ==
  /\ RisesUpTo(received, cursors) /\ RisesUpTo(sent, stream.last)
  /\ \A n \in ToSet(received) :
       /\ stream.open => n <= stream.last
       /\ \A m \in ToSet(sent) : n < m
  /\ ~stream.open => sent = <<>> /\ phase = "idle"

(* No event that can be read is missing before what is written, or among   *)
(* what is on the page.                                                    *)
CompleteUpTo(c) ==
  /\ c \in 1..cursors
  /\ \A n \in ToSet(received) : c <= n => c \in ToSet(received)
  /\ stream.open /\ c <= stream.last =>
       c \in ToSet(received) \cup ToSet(sent)
  /\ \A n \in ToSet(stream.page) :
       c <= n => c <= stream.last \/ c \in ToSet(stream.page)

Complete == \A e \in Stream!Durable : CompleteUpTo(cursorOf[e])

StreamInv == StreamTyped /\ Paged /\ Ordered /\ (~reserved => Complete)

LEMMA NumbersInSequence == \A s \in Seq(Nat) : ToSet(s) \subseteq Nat
BY DEF ToSet

LEMMA RisingTail ==
  ASSUME NEW s \in Seq(Nat), s # <<>>, NEW bound \in Nat, RisesUpTo(s, bound)
  PROVE  /\ Tail(s) \in Seq(Nat) /\ Head(s) \in Nat
         /\ RisesUpTo(Tail(s), bound)
         /\ Head(s) <= bound
         /\ ToSet(s) = {Head(s)} \cup ToSet(Tail(s))
         /\ \A n \in ToSet(Tail(s)) : Head(s) < n
         /\ IF Tail(s) = <<>> THEN Head(s) = s[Len(s)]
            ELSE Tail(s)[Len(Tail(s))] = s[Len(s)]
<1> DEFINE t == Tail(s)
<1>1. /\ Len(s) \in Nat \ {0} /\ DOMAIN s = 1..Len(s)
      /\ Head(s) = s[1] /\ \A i \in 1..Len(s) : s[i] \in Nat
  OBVIOUS
<1>2. /\ t \in Seq(Nat) /\ Len(t) = Len(s) - 1 /\ DOMAIN t = 1..Len(t)
      /\ \A i \in 1..Len(t) : t[i] = s[i + 1]
  BY <1>1
<1>3. /\ \A i, j \in 1..Len(s) : i < j => s[i] < s[j]
      /\ \A i \in 1..Len(s) : s[i] <= bound
  BY <1>1 DEF RisesUpTo, ToSet
<1> HIDE DEF t
<1>4. \A i \in DOMAIN t :
        i \in Nat \ {0} /\ i + 1 \in 1..Len(s) /\ t[i] = s[i + 1]
  <2> TAKE i \in DOMAIN t
  <2>1. i \in Nat \ {0} /\ i <= Len(s) - 1 /\ Len(s) \in Nat
    BY <1>1, <1>2
  <2>2. i + 1 \in 1..Len(s)
    BY <2>1
  <2>3. t[i] = s[i + 1]
    BY <1>2
  <2> QED BY <2>1, <2>2, <2>3
<1>5. /\ \A i, j \in DOMAIN t : i < j => t[i] < t[j]
      /\ \A n \in ToSet(t) : n <= bound /\ Head(s) < n
  <2>1. ASSUME NEW i \in DOMAIN t, NEW j \in DOMAIN t, i < j
        PROVE  t[i] < t[j]
    <3>1. i + 1 < j + 1
      BY <1>4, <2>1
    <3> QED BY <1>3, <1>4, <3>1
  <2>2. ASSUME NEW i \in DOMAIN t
        PROVE  t[i] <= bound /\ Head(s) < t[i]
    <3>1. 1 < i + 1
      BY <1>4
    <3> QED BY <1>1, <1>3, <1>4, <3>1
  <2> QED BY <2>1, <2>2 DEF ToSet
<1>6. ToSet(s) = {Head(s)} \cup ToSet(t)
  <2>1. ASSUME NEW i \in DOMAIN s PROVE s[i] \in {Head(s)} \cup ToSet(t)
    <3>1. CASE i = 1
      BY <1>1, <3>1
    <3>2. CASE i # 1
      <4>1. i - 1 \in 1..Len(t) /\ (i - 1) + 1 = i
        BY <1>1, <1>2, <3>2
      <4>2. i - 1 \in DOMAIN t /\ t[i - 1] = s[i]
        BY <1>2, <4>1
      <4> QED BY <4>2 DEF ToSet
    <3> QED BY <3>1, <3>2
  <2>2. ASSUME NEW i \in DOMAIN t PROVE t[i] \in ToSet(s)
    <3>1. i + 1 \in DOMAIN s /\ t[i] = s[i + 1]
      BY <1>1, <1>4
    <3> QED BY <3>1 DEF ToSet
  <2>3. Head(s) \in ToSet(s)
    BY <1>1 DEF ToSet
  <2> QED BY <2>1, <2>2, <2>3 DEF ToSet
<1>7. IF t = <<>> THEN Head(s) = s[Len(s)] ELSE t[Len(t)] = s[Len(s)]
  <2>1. CASE Len(s) = 1
    BY <1>1, <1>2, <2>1
  <2>2. CASE Len(s) > 1
    BY <1>1, <1>2, <2>2
  <2> QED BY <1>1, <2>1, <2>2
<1>8. Head(s) <= bound
  BY <1>1, <1>3
<1> QED BY <1>1, <1>2, <1>5, <1>6, <1>7, <1>8 DEF t, RisesUpTo

LEMMA RisingAppend ==
  ASSUME NEW s \in Seq(Nat), NEW c \in Nat,
         \A i, j \in DOMAIN s : i < j => s[i] < s[j],
         \A n \in ToSet(s) : n < c
  PROVE  /\ Append(s, c) \in Seq(Nat)
         /\ RisesUpTo(Append(s, c), c)
         /\ ToSet(Append(s, c)) = ToSet(s) \cup {c}
<1> DEFINE t == Append(s, c)
<1>1. /\ Len(s) \in Nat /\ DOMAIN s = 1..Len(s)
      /\ t \in Seq(Nat) /\ Len(t) = Len(s) + 1 /\ DOMAIN t = 1..Len(t)
      /\ \A i \in 1..Len(t) : t[i] = IF i <= Len(s) THEN s[i] ELSE c
      /\ \A i \in 1..Len(s) : s[i] \in Nat
  OBVIOUS
<1> HIDE DEF t
<1>2. \A i \in DOMAIN s : s[i] < c
  BY DEF ToSet
<1>3. \A i, j \in DOMAIN t : i < j => t[i] < t[j]
  BY <1>1, <1>2
<1>4. ToSet(t) = ToSet(s) \cup {c}
  <2>1. ASSUME NEW i \in DOMAIN t PROVE t[i] \in ToSet(s) \cup {c}
    BY <1>1 DEF ToSet
  <2>2. ASSUME NEW i \in DOMAIN s PROVE s[i] \in ToSet(t)
    <3>1. i \in DOMAIN t /\ t[i] = s[i]
      BY <1>1
    <3> QED BY <3>1 DEF ToSet
  <2>3. c \in ToSet(t)
    <3>1. Len(t) \in DOMAIN t /\ t[Len(t)] = c
      BY <1>1
    <3> QED BY <3>1 DEF ToSet
  <2> QED BY <2>1, <2>2, <2>3 DEF ToSet
<1>5. \A n \in ToSet(t) : n <= c
  <2>1. ASSUME NEW n \in ToSet(s) PROVE n <= c
    <3>1. PICK i \in DOMAIN s : n = s[i]
      BY DEF ToSet
    <3> QED BY <1>1, <1>2, <3>1
  <2> QED BY <1>4, <2>1
<1> QED BY <1>1, <1>3, <1>4, <1>5 DEF t, RisesUpTo

LEMMA StreamStarts == Stream!Init => StreamInv
<1> SUFFICES ASSUME Stream!Init PROVE StreamInv
  OBVIOUS
<1>1. /\ reserved \in BOOLEAN /\ cursors = 0
      /\ emit = [e \in Calls |-> "idle"] /\ cursorOf = [e \in Calls |-> 0]
      /\ stream = [open |-> TRUE, last |-> 0, replay |-> 0,
                   replaying |-> TRUE, page |-> <<>>, pending |-> <<>>,
                   required |-> 0]
      /\ phase = "idle" /\ sent = <<>> /\ received = <<>>
  BY DEF Stream!Init, Stream!NewStream
<1>2. StreamTyped
  BY <1>1 DEF StreamTyped
<1>3. Paged /\ Ordered
  BY <1>1 DEF Paged, Ordered, RisesUpTo, ToSet
<1>4. Stream!Durable = {}
  BY <1>1 DEF Stream!Durable
<1>5. Complete
  BY <1>4 DEF Complete
<1> QED BY <1>2, <1>3, <1>5 DEF StreamInv

(* An event appends: its cursor is beyond all that can be read.            *)
LEMMA EventAppends ==
  ASSUME StreamInv, NEW e \in Calls, Stream!Insert(e) \/ Stream!Commit(e)
  PROVE  StreamInv'
<1>1. /\ StreamTyped /\ Paged /\ Ordered
      /\ ~reserved => Complete
  BY DEF StreamInv
<1>2. /\ UNCHANGED <<reserved, stream, phase, sent, received>>
      /\ cursors' \in Nat /\ cursors' >= cursors
      /\ cursorOf' \in [Calls -> Nat]
      /\ emit' \in [Calls -> {"idle", "inserted", "aborted", "committed",
                              "told", "unheard"}]
      /\ ~reserved =>
           /\ cursors' = cursors + 1
           /\ cursorOf' = [cursorOf EXCEPT ![e] = cursors + 1]
           /\ emit' = [emit EXCEPT ![e] = "committed"]
  <2>0. /\ cursors \in Nat /\ cursorOf \in [Calls -> Nat]
        /\ emit \in [Calls -> {"idle", "inserted", "aborted", "committed",
                               "told", "unheard"}]
    BY <1>1 DEF StreamTyped
  <2>1. CASE Stream!Insert(e)
    BY <2>0, <2>1 DEF Stream!Insert, Stream!server
  <2>2. CASE Stream!Commit(e)
    <3>1. /\ \/ reserved /\ UNCHANGED <<cursors, cursorOf>>
             \/ /\ ~reserved /\ cursors' = cursors + 1
                /\ cursorOf' = [cursorOf EXCEPT ![e] = cursors + 1]
          /\ emit' = [emit EXCEPT ![e] = "committed"]
          /\ UNCHANGED <<reserved, stream, phase, sent, received>>
      BY <2>2 DEF Stream!Commit, Stream!server
    <3> QED BY <2>0, <3>1
  <2> QED BY <2>1, <2>2
<1>3. StreamTyped'
  BY <1>1, <1>2 DEF StreamTyped
<1>4. Paged' /\ Ordered'
  <2>1. ToSet(received) \subseteq Nat /\ ToSet(stream.page) \subseteq Nat
    BY <1>1, NumbersInSequence DEF StreamTyped
  <2>2. stream.last \in Nat /\ cursors \in Nat
    BY <1>1 DEF StreamTyped
  <2>3. Paged'
    <3>1. \A d \in Calls : cursorOf'[d] <= cursors'
      <4>1. \A d \in Calls : cursorOf[d] \in Nat /\ cursorOf[d] <= cursors
        BY <1>1 DEF StreamTyped, Paged
      <4>2. cursors' >= cursors
        BY <1>2
      <4>3. \/ cursorOf' = cursorOf
            \/ /\ cursorOf' = [cursorOf EXCEPT ![e] = cursors + 1]
               /\ cursors' = cursors + 1
        BY DEF Stream!Insert, Stream!Commit
      <4>4. CASE cursorOf' = cursorOf
        BY <1>2, <2>2, <4>1, <4>2, <4>4
      <4>5. CASE /\ cursorOf' = [cursorOf EXCEPT ![e] = cursors + 1]
                 /\ cursors' = cursors + 1
        <5> TAKE d \in Calls
        <5>1. cursorOf'[d] = IF d = e THEN cursors + 1 ELSE cursorOf[d]
          BY <1>1, <4>5 DEF StreamTyped
        <5> QED BY <2>2, <4>1, <4>5, <5>1
      <4> QED BY <4>3, <4>4, <4>5
    <3> QED BY <1>1, <1>2, <2>1, <2>2, <3>1 DEF Paged, RisesUpTo
  <2>4. Ordered'
    BY <1>1, <1>2, <2>1, <2>2 DEF Ordered, RisesUpTo
  <2> QED BY <2>3, <2>4
<1>5. ASSUME ~reserved
      PROVE  Complete'
  <2>1. Complete /\ cursors \in Nat /\ stream.last \in Nat
    BY <1>1, <1>5 DEF StreamTyped
  <2>2. \A d \in Stream!Durable' :
          \/ d = e /\ cursorOf'[d] = cursors + 1
          \/ d \in Stream!Durable /\ cursorOf'[d] = cursorOf[d]
    BY <1>1, <1>2, <1>5 DEF Stream!Durable, StreamTyped
  <2>3. /\ \A n \in ToSet(received) : n \in Nat /\ n <= cursors
        /\ \A n \in ToSet(stream.page) : n \in Nat /\ n <= cursors
        /\ stream.last <= cursors
    BY <1>1, NumbersInSequence DEF StreamTyped, Ordered, Paged, RisesUpTo
  <2>4. ASSUME NEW d \in Stream!Durable', NEW c \in {cursorOf'[d]}
        PROVE  CompleteUpTo(c)'
    <3>1. CASE d = e /\ cursorOf'[d] = cursors + 1
      BY <1>2, <1>5, <2>1, <2>3, <3>1 DEF CompleteUpTo
    <3>2. CASE d \in Stream!Durable /\ cursorOf'[d] = cursorOf[d]
      BY <1>2, <2>1, <3>2 DEF Complete, CompleteUpTo
    <3> QED BY <2>2, <3>1, <3>2
  <2> QED BY <2>4 DEF Complete, CompleteUpTo
<1> QED BY <1>2, <1>3, <1>4, <1>5 DEF StreamInv

(* Where what has been read and written stays as it is, everything does.   *)
LEMMA NothingRead ==
  ASSUME StreamInv,
         UNCHANGED <<reserved, cursors, cursorOf, received, sent>>,
         Stream!Durable' \subseteq Stream!Durable, StreamTyped',
         stream'.open = stream.open, stream'.last = stream.last,
         stream'.page = stream.page,
         \/ stream'.replay = stream.replay
         \/ stream.page = <<>> /\ stream'.replay = stream.last,
         phase' = phase \/ "loaded" \notin {phase, phase'},
         phase' = "loading" => stream.page = <<>>,
         ~stream.open => phase' = "idle"
  PROVE  StreamInv'
<1>1. StreamTyped /\ Paged /\ Ordered /\ (~reserved => Complete)
  BY DEF StreamInv
<1>2. Paged'
  <2>1. /\ \A e \in Calls : cursorOf'[e] <= cursors'
        /\ RisesUpTo(stream'.page, cursors') /\ stream'.last <= cursors'
        /\ phase' = "loading" => stream'.page = <<>>
    BY <1>1 DEF Paged
  <2>2. stream.last \in Nat
    BY <1>1 DEF StreamTyped
  <2>3. phase' = "loaded" \/ stream'.page = <<>> =>
          stream'.replay <= stream'.last
    BY <1>1, <2>2 DEF Paged
  <2>4. phase' # "loaded" /\ stream'.page # <<>> =>
          stream'.replay <= stream'.page[Len(stream'.page)]
    BY <1>1 DEF Paged
  <2> QED BY <2>1, <2>3, <2>4 DEF Paged, RisesUpTo
<1>3. Ordered'
  BY <1>1 DEF Ordered, RisesUpTo
<1>4. Complete => Complete'
  BY DEF Complete, CompleteUpTo
<1> QED BY <1>1, <1>2, <1>3, <1>4 DEF StreamInv

(* What is closed keeps what was received.                                 *)
LEMMA NothingAfterClosing ==
  ASSUME StreamInv, Stream!Closes,
         UNCHANGED <<reserved, cursors, cursorOf, received>>,
         emit' \in [Calls -> {"idle", "inserted", "aborted", "committed",
                              "told", "unheard"}],
         Stream!Durable' \subseteq Stream!Durable
  PROVE  StreamInv'
<1>1. StreamTyped /\ Paged /\ Ordered /\ (~reserved => Complete)
  BY DEF StreamInv
<1>2. /\ stream' = [open |-> FALSE, last |-> 0, replay |-> 0,
                    replaying |-> TRUE, page |-> <<>>, pending |-> <<>>,
                    required |-> 0]
      /\ phase' = "idle" /\ sent' = <<>>
  BY DEF Stream!Closes, Stream!NewStream
<1>3. StreamTyped'
  BY <1>1, <1>2 DEF StreamTyped
<1>4. Paged'
  BY <1>1, <1>2 DEF Paged, RisesUpTo, StreamTyped, ToSet
<1>5. Ordered'
  BY <1>1, <1>2 DEF Ordered, RisesUpTo, ToSet
<1>6. Complete => Complete'
  BY <1>2 DEF Complete, CompleteUpTo, ToSet
<1> QED BY <1>1, <1>3, <1>4, <1>5, <1>6 DEF StreamInv

(* Calls that go on, and subscribers that are told.                        *)
LEMMA TellingReadsNothing ==
  ASSUME StreamInv, NEW e \in Calls,
         Stream!Aborted(e) \/ Stream!Unheard(e) \/ Stream!Tell(e)
  PROVE  StreamInv'
<1>1. StreamTyped
  BY DEF StreamInv
<1>2. /\ UNCHANGED <<reserved, cursors, cursorOf, received>>
      /\ emit' \in [Calls -> {"idle", "inserted", "aborted", "committed",
                              "told", "unheard"}]
      /\ Stream!Durable' \subseteq Stream!Durable
  <2>1. PICK v \in {"aborted", "unheard", "told"} :
          /\ emit' = [emit EXCEPT ![e] = v]
          /\ v = "aborted" \/ emit[e] = "committed"
    BY DEF Stream!Aborted, Stream!Unheard, Stream!Tell
  <2>2. UNCHANGED <<reserved, cursors, cursorOf, received>>
    BY DEF Stream!Aborted, Stream!Unheard, Stream!Tell
  <2> QED BY <1>1, <2>1, <2>2 DEF StreamTyped, Stream!Durable
<1>3. CASE UNCHANGED Stream!server
  <2>1. UNCHANGED <<stream, phase, sent>>
    BY <1>3 DEF Stream!server
  <2>2. /\ StreamTyped' /\ (phase' = "loading" => stream.page = <<>>)
        /\ ~stream.open => phase' = "idle"
    BY <1>1, <1>2, <2>1 DEF StreamTyped, StreamInv, Paged, Ordered
  <2> QED BY <1>2, <2>1, <2>2, NothingRead
<1>4. CASE Stream!Closes
  BY <1>2, <1>4, NothingAfterClosing
<1>5. CASE /\ stream.open
           /\ stream' = [stream EXCEPT !.pending =
                            Append(@, cursorOf[e])]
           /\ phase' = IF phase = "idle" THEN "running" ELSE phase
           /\ UNCHANGED sent
  <2>1. /\ StreamTyped' /\ (phase' = "loading" => stream.page = <<>>)
        /\ stream'.open = stream.open /\ stream'.last = stream.last
        /\ stream'.page = stream.page /\ stream'.replay = stream.replay
        /\ phase' = phase \/ "loaded" \notin {phase, phase'}
    BY <1>1, <1>2, <1>5 DEF StreamTyped, StreamInv, Paged
  <2> QED BY <1>2, <1>5, <2>1, NothingRead
<1> QED
  BY <1>3, <1>4, <1>5
  DEF Stream!Aborted, Stream!Unheard, Stream!Tell, Stream!Writes

(* The pump between two pages.                                             *)
LEMMA PumpingReadsNothing ==
  ASSUME StreamInv,
         \/ Stream!Pull \/ Stream!PumpStops \/ Stream!PumpReplays
         \/ Stream!PumpAsks \/ Stream!Take
  PROVE  StreamInv'
<1>1. StreamTyped /\ Paged /\ (~stream.open => phase = "idle")
  BY DEF StreamInv, Ordered
<1>2. /\ UNCHANGED <<reserved, cursors, emit, cursorOf, received, sent>>
      /\ ~stream.open => phase' = "idle"
  BY <1>1 DEF Stream!Pull, Stream!PumpStops, Stream!PumpReplays,
    Stream!PumpAsks, Stream!Take, Stream!writers
<1>3. Stream!Durable' \subseteq Stream!Durable
  BY <1>2 DEF Stream!Durable
<1>4. CASE UNCHANGED stream
  <2>1. phase' = phase \/ "loaded" \notin {phase, phase'}
    BY <1>4 DEF Stream!Pull, Stream!PumpStops, Stream!PumpReplays,
      Stream!PumpAsks, Stream!Take
  <2>2. phase' = "loading" => stream.page = <<>>
    BY <1>1, <1>4 DEF Stream!Pull, Stream!PumpStops, Stream!PumpReplays,
      Stream!PumpAsks, Stream!Take, Paged
  <2>3. StreamTyped'
    BY <1>1, <1>2, <1>4 DEF StreamTyped
  <2>4. /\ stream'.open = stream.open /\ stream'.last = stream.last
        /\ stream'.page = stream.page /\ stream'.replay = stream.replay
    BY <1>4
  <2> QED BY <1>2, <1>3, <2>1, <2>2, <2>3, <2>4, NothingRead
<1>5. CASE Stream!PumpReplays
  BY <1>1, <1>2, <1>3, <1>5, NothingRead
  DEF StreamTyped, Stream!PumpReplays, Stream!ReplayAgain
<1>6. CASE Stream!PumpAsks
  BY <1>1, <1>2, <1>3, <1>6, NothingRead
  DEF StreamTyped, Stream!PumpAsks
<1> QED
  BY <1>4, <1>5, <1>6 DEF Stream!Pull, Stream!PumpStops, Stream!Take

(* An event is written: all before it have been written, or were before it *)
(* on the page.                                                            *)
LEMMA DeliveringKeepsOrder ==
  ASSUME StreamInv, Stream!PumpDelivers
  PROVE  StreamInv'
<1>1. StreamTyped /\ Paged /\ Ordered /\ (~reserved => Complete)
  BY DEF StreamInv
<1> DEFINE c == Head(stream.page)
<1>2. /\ Tail(stream.page) \in Seq(Nat) /\ c \in Nat
      /\ RisesUpTo(Tail(stream.page), cursors)
      /\ c <= cursors
      /\ ToSet(stream.page) = {c} \cup ToSet(Tail(stream.page))
      /\ \A n \in ToSet(Tail(stream.page)) : c < n
      /\ IF Tail(stream.page) = <<>> THEN c = stream.page[Len(stream.page)]
         ELSE Tail(stream.page)[Len(Tail(stream.page))]
                = stream.page[Len(stream.page)]
  BY <1>1, RisingTail DEF Stream!PumpDelivers, StreamTyped, Paged
<1> HIDE DEF c
<1>3. /\ UNCHANGED <<reserved, cursors, emit, cursorOf, received, phase>>
      /\ phase = "running" /\ stream.page # <<>>
      /\ sent' = IF c <= stream.last THEN sent ELSE Append(sent, c)
      /\ stream' = Stream!Delivered(stream, c)
  BY DEF Stream!PumpDelivers, Stream!writers, c
<1>4. /\ stream'.page = Tail(stream.page)
      /\ stream'.open = stream.open /\ stream'.replay = stream.replay
      /\ stream'.last = IF c <= stream.last THEN stream.last ELSE c
  BY <1>1, <1>3 DEF Stream!Delivered, StreamTyped
<1>5. /\ stream.last \in Nat /\ stream.replay \in Nat /\ cursors \in Nat
      /\ received \in Seq(Nat) /\ sent \in Seq(Nat)
      /\ ToSet(received) \subseteq Nat /\ ToSet(sent) \subseteq Nat
      /\ ToSet(Tail(stream.page)) \subseteq Nat
      /\ stream.open
  BY <1>1, <1>2, <1>3, NumbersInSequence DEF StreamTyped, Ordered
<1>6. /\ sent' \in Seq(Nat) /\ RisesUpTo(sent', stream'.last)
      /\ ToSet(sent') = ToSet(sent) \cup (IF c <= stream.last THEN {} ELSE {c})
  <2>1. CASE c <= stream.last
    BY <1>1, <1>3, <1>4, <1>5, <2>1 DEF Ordered
  <2>2. CASE ~(c <= stream.last)
    <3>1. /\ \A i, j \in DOMAIN sent : i < j => sent[i] < sent[j]
          /\ \A n \in ToSet(sent) : n < c
      BY <1>1, <1>2, <1>5, <2>2 DEF Ordered, RisesUpTo
    <3> QED BY <1>2, <1>3, <1>4, <1>5, <2>2, <3>1, RisingAppend
  <2> QED BY <2>1, <2>2
<1>7. StreamTyped'
  <2>1. CASE c <= stream.last
    BY <1>1, <1>2, <1>3, <1>6, <2>1 DEF Stream!Delivered, StreamTyped
  <2>2. CASE ~(c <= stream.last)
    BY <1>1, <1>2, <1>3, <1>6, <2>2 DEF Stream!Delivered, StreamTyped
  <2> QED BY <2>1, <2>2
<1>8. Paged'
  <2>1. stream'.last <= cursors'
    BY <1>1, <1>2, <1>3, <1>4 DEF Paged
  <2>2. stream.replay <= stream.page[Len(stream.page)]
    BY <1>1, <1>3 DEF Paged
  <2>3. stream'.page = <<>> => stream'.replay <= stream'.last
    <3>1. stream'.page = <<>> => c = stream.page[Len(stream.page)]
      BY <1>2, <1>4
    <3>2. c <= stream'.last
      BY <1>2, <1>4, <1>5
    <3>3. \A n \in Nat : stream.replay <= c /\ c <= n => stream.replay <= n
      BY <1>2, <1>5
    <3>4. stream'.last \in Nat
      BY <1>2, <1>4, <1>5
    <3> QED BY <1>4, <2>2, <3>1, <3>2, <3>3, <3>4, Zenon
  <2>4. stream'.page # <<>> =>
          stream'.replay <= stream'.page[Len(stream'.page)]
    BY <1>2, <1>4, <2>2
  <2>5. \A e \in Calls : cursorOf'[e] <= cursors'
    BY <1>1, <1>3 DEF Paged
  <2> QED BY <1>2, <1>3, <1>4, <2>1, <2>3, <2>4, <2>5 DEF Paged
<1>9. Ordered'
  <2>1. \A n \in ToSet(received) :
          n <= stream'.last /\ \A m \in ToSet(sent') : n < m
    BY <1>1, <1>2, <1>4, <1>5, <1>6 DEF Ordered
  <2> QED BY <1>1, <1>3, <1>4, <1>5, <1>6, <2>1 DEF Ordered
<1>10. ASSUME NEW e \in Stream!Durable, CompleteUpTo(cursorOf[e])
       PROVE  CompleteUpTo(cursorOf[e])'
  <2>1. cursorOf[e] \in Nat
    BY <1>1 DEF Stream!Durable, StreamTyped
  <2> QED BY <1>2, <1>3, <1>4, <1>5, <1>6, <1>10, <2>1 DEF CompleteUpTo
<1>11. Complete => Complete'
  BY <1>3, <1>10 DEF Complete, Stream!Durable
<1> QED BY <1>1, <1>3, <1>7, <1>8, <1>9, <1>11 DEF StreamInv

(* The repository is read: the page leaves out nothing before its own end. *)
LEMMA ReadingLeavesNothingOut ==
  ASSUME StreamInv, Stream!RepositoryReads
  PROVE  StreamInv'
<1>1. StreamTyped /\ Paged /\ Ordered /\ (~reserved => Complete)
  BY DEF StreamInv
<1>2. PICK page \in Stream!PagesAfter(stream.replay) :
        stream' = [stream EXCEPT !.page = page]
  BY DEF Stream!RepositoryReads
<1>3. /\ UNCHANGED <<reserved, cursors, emit, cursorOf, received, sent>>
      /\ phase = "loading" /\ phase' = "loaded"
  BY DEF Stream!RepositoryReads, Stream!writers
<1>4. /\ page \in Seq(Nat)
      /\ \A i, j \in DOMAIN page : i < j => page[i] < page[j]
      /\ \A n \in ToSet(page) :
           \E e \in Stream!Durable : n = cursorOf[e]
      /\ \A e \in Stream!Durable :
           cursorOf[e] > stream.replay =>
             \/ cursorOf[e] \in ToSet(page)
             \/ \A n \in ToSet(page) : n < cursorOf[e]
  <2> DEFINE found == {cursorOf[e] : e \in {d \in Stream!Durable :
                                            cursorOf[d] > stream.replay}}
  <2>1. /\ page \in Stream!SeqOf(Stream!Cursors, PageSize)
        /\ Stream!ToSet(page) \subseteq found
        /\ \A i, j \in DOMAIN page : i < j => page[i] < page[j]
        /\ \A c \in found \ Stream!ToSet(page) :
             \A i \in DOMAIN page : page[i] < c
    BY DEF Stream!PagesAfter
  <2>2. Stream!ToSet(page) = ToSet(page)
    BY DEF Stream!ToSet, ToSet
  <2>3. page \in Seq(Nat)
    <3>1. PICK m \in 0..PageSize : page \in [1..m -> Stream!Cursors]
      BY <2>1 DEF Stream!SeqOf
    <3> QED BY <3>1 DEF Stream!Cursors
  <2>4. \A c \in found \ ToSet(page) : \A n \in ToSet(page) : n < c
    BY <2>1, <2>2 DEF ToSet
  <2>5. \A n \in ToSet(page) : \E e \in Stream!Durable : n = cursorOf[e]
    BY <2>1, <2>2
  <2> QED BY <2>1, <2>3, <2>4, <2>5
<1>5. /\ stream'.page = page
      /\ stream'.open = stream.open /\ stream'.replay = stream.replay
      /\ stream'.last = stream.last
      /\ StreamTyped'
  BY <1>1, <1>2, <1>3, <1>4 DEF StreamTyped
<1>6. Paged'
  <2>1. \A n \in ToSet(page) : n <= cursors
    BY <1>1, <1>4 DEF Paged, Stream!Durable
  <2>2. stream.replay <= stream.last
    BY <1>1, <1>3 DEF Paged
  <2> QED BY <1>1, <1>3, <1>4, <1>5, <2>1, <2>2 DEF Paged, RisesUpTo
<1>7. Ordered'
  BY <1>1, <1>3, <1>5 DEF Ordered
<1>8. ASSUME NEW e \in Stream!Durable, CompleteUpTo(cursorOf[e])
      PROVE  CompleteUpTo(cursorOf[e])'
  <2>1. /\ cursorOf[e] \in Nat /\ stream.replay \in Nat
        /\ stream.last \in Nat /\ stream.replay <= stream.last
        /\ ToSet(page) \subseteq Nat
    BY <1>1, <1>3, <1>4, NumbersInSequence
    DEF Stream!Durable, StreamTyped, Paged
  <2>2. \A n \in ToSet(page) :
          cursorOf[e] <= n =>
            cursorOf[e] <= stream.last \/ cursorOf[e] \in ToSet(page)
    BY <1>4, <2>1
  <2> QED BY <1>3, <1>5, <1>8, <2>2 DEF CompleteUpTo
<1>9. Complete => Complete'
  BY <1>3, <1>8 DEF Complete, Stream!Durable
<1> QED BY <1>1, <1>3, <1>5, <1>6, <1>7, <1>9 DEF StreamInv

(* The page arrives: the next is asked for from its end.                   *)
LEMMA PageGoesOn ==
  ASSUME StreamInv, Stream!PageArrives
  PROVE  StreamInv'
<1>1. StreamTyped /\ Paged /\ Ordered /\ (~reserved => Complete)
  BY DEF StreamInv
<1>2. /\ UNCHANGED <<reserved, cursors, emit, cursorOf, received, sent>>
      /\ phase = "loaded" /\ phase' = "running"
  BY DEF Stream!PageArrives, Stream!writers
<1>3. /\ stream'.page = stream.page /\ stream'.open = stream.open
      /\ stream'.last = stream.last
      /\ stream'.replay = IF stream.page = <<>> THEN stream.replay
                          ELSE stream.page[Len(stream.page)]
      /\ stream'.pending = stream.pending /\ stream'.required = 0
      /\ stream'.replaying \in BOOLEAN
      /\ stream' = Stream!Loaded(stream)
  BY <1>1 DEF Stream!PageArrives, Stream!Loaded, Stream!Last, StreamTyped
<1>4. stream'.replay \in Nat
  BY <1>1, <1>3 DEF StreamTyped
<1>5. StreamTyped'
  BY <1>1, <1>2, <1>3, <1>4 DEF StreamTyped, Stream!Loaded
<1>6. Paged'
  <2>1. stream.page = <<>> => stream'.replay <= stream'.last
    BY <1>1, <1>3 DEF Paged
  <2>2. stream.page # <<>> =>
          stream'.replay <= stream'.page[Len(stream'.page)]
    BY <1>3, <1>4
  <2> QED BY <1>1, <1>2, <1>3, <2>1, <2>2 DEF Paged
<1>7. Ordered'
  BY <1>1, <1>2, <1>3 DEF Ordered
<1>8. Complete => Complete'
  BY <1>2, <1>3 DEF Complete, CompleteUpTo, Stream!Durable
<1> QED BY <1>1, <1>2, <1>5, <1>6, <1>7, <1>8 DEF StreamInv

(* What was sent is received in order.                                     *)
LEMMA ReceivingKeepsOrder ==
  ASSUME StreamInv, Stream!Receive
  PROVE  StreamInv'
<1>1. StreamTyped /\ Paged /\ Ordered /\ (~reserved => Complete)
  BY DEF StreamInv
<1> DEFINE c == Head(sent)
<1>2. /\ UNCHANGED <<reserved, cursors, emit, cursorOf, stream, phase>>
      /\ sent # <<>> /\ sent' = Tail(sent) /\ received' = Append(received, c)
  BY DEF Stream!Receive, Stream!writers
<1>3. /\ stream.last \in Nat /\ cursors \in Nat /\ stream.last <= cursors
      /\ received \in Seq(Nat) /\ sent \in Seq(Nat)
      /\ ToSet(received) \subseteq Nat /\ ToSet(sent) \subseteq Nat
      /\ stream.open
  BY <1>1, <1>2, NumbersInSequence DEF StreamTyped, Paged, Ordered
<1>4. /\ sent' \in Seq(Nat) /\ c \in Nat /\ c <= stream.last
      /\ RisesUpTo(sent', stream.last)
      /\ ToSet(sent) = {c} \cup ToSet(sent')
      /\ \A n \in ToSet(sent') : c < n
  BY <1>1, <1>2, <1>3, RisingTail DEF Ordered
<1> HIDE DEF c
<1>5. /\ received' \in Seq(Nat) /\ RisesUpTo(received', c)
      /\ ToSet(received') = ToSet(received) \cup {c}
  <2>1. /\ \A i, j \in DOMAIN received : i < j => received[i] < received[j]
        /\ \A n \in ToSet(received) : n < c
    BY <1>1, <1>4 DEF Ordered, RisesUpTo
  <2> QED BY <1>2, <1>3, <1>4, <2>1, RisingAppend
<1>6. StreamTyped'
  BY <1>1, <1>2, <1>4, <1>5 DEF StreamTyped
<1>7. Paged'
  BY <1>1, <1>2 DEF Paged
<1>8. Ordered'
  <2>1. ToSet(received') \subseteq Nat
    BY <1>3, <1>4, <1>5
  <2>2. RisesUpTo(received', cursors')
    <3>1. ASSUME NEW n \in ToSet(received') PROVE n <= cursors
      <4>1. n <= c /\ n \in Nat
        BY <1>5, <2>1, <3>1 DEF RisesUpTo
      <4> QED BY <1>3, <1>4, <4>1
    <3> QED BY <1>2, <1>5, <3>1 DEF RisesUpTo
  <2>3. \A n \in ToSet(received') :
          n <= stream.last /\ \A m \in ToSet(sent') : n < m
    BY <1>1, <1>3, <1>4, <1>5 DEF Ordered
  <2> QED BY <1>1, <1>2, <1>3, <1>4, <2>2, <2>3 DEF Ordered
<1>9. ASSUME NEW e \in Stream!Durable, CompleteUpTo(cursorOf[e])
      PROVE  CompleteUpTo(cursorOf[e])'
  <2>1. cursorOf[e] \in Nat
    BY <1>1 DEF Stream!Durable, StreamTyped
  <2>2. cursorOf[e] <= stream.last =>
          cursorOf[e] \in ToSet(received') \cup ToSet(sent')
    BY <1>3, <1>4, <1>5, <1>9 DEF CompleteUpTo
  <2>3. ASSUME cursorOf[e] <= c PROVE cursorOf[e] \in ToSet(received')
    BY <1>3, <1>4, <1>5, <2>1, <2>2, <2>3
  <2> QED BY <1>2, <1>3, <1>4, <1>5, <1>9, <2>2, <2>3 DEF CompleteUpTo
<1>10. Complete => Complete'
  BY <1>2, <1>9 DEF Complete, Stream!Durable
<1> QED BY <1>1, <1>2, <1>6, <1>7, <1>8, <1>10 DEF StreamInv

(* A reader goes on from the last event it received.                       *)
LEMMA ReconnectingGoesOn ==
  ASSUME StreamInv, Stream!Reconnect
  PROVE  StreamInv'
<1>1. StreamTyped /\ Paged /\ Ordered /\ (~reserved => Complete)
  BY DEF StreamInv
<1> DEFINE c == IF received = <<>> THEN 0 ELSE received[Len(received)]
<1>2. /\ UNCHANGED <<reserved, cursors, emit, cursorOf, received, sent>>
      /\ phase' = "idle" /\ sent' = <<>>
      /\ stream' = [open |-> TRUE, last |-> c, replay |-> c,
                    replaying |-> TRUE, page |-> <<>>, pending |-> <<>>,
                    required |-> 0]
  BY <1>1 DEF Stream!Reconnect, Stream!Resumes, Stream!NewStream,
    Stream!Last, Stream!writers, Ordered
<1>3. /\ c \in Nat /\ c <= cursors
      /\ \A n \in ToSet(received) : n <= c /\ c \in ToSet(received)
      /\ received = <<>> => c = 0
  <2>1. CASE received = <<>>
    BY <1>1, <2>1 DEF StreamTyped, ToSet
  <2>2. CASE received # <<>>
    <3>1. /\ Len(received) \in DOMAIN received
          /\ \A i \in DOMAIN received :
               i \in Nat /\ i <= Len(received) /\ received[i] \in Nat
      BY <1>1, <2>2 DEF StreamTyped
    <3>2. c = received[Len(received)] /\ c \in ToSet(received)
      BY <2>2, <3>1 DEF ToSet
    <3>3. \A i \in DOMAIN received : received[i] <= c
      BY <1>1, <3>1, <3>2 DEF Ordered, RisesUpTo
    <3> QED BY <1>1, <2>2, <3>1, <3>2, <3>3 DEF Ordered, RisesUpTo, ToSet
  <2> QED BY <2>1, <2>2
<1> HIDE DEF c
<1>4. StreamTyped'
  BY <1>1, <1>2, <1>3 DEF StreamTyped
<1>5. Paged'
  BY <1>1, <1>2, <1>3 DEF Paged, RisesUpTo, ToSet
<1>6. Ordered'
  BY <1>1, <1>2, <1>3 DEF Ordered, RisesUpTo, ToSet
<1>7. ASSUME NEW e \in Stream!Durable, CompleteUpTo(cursorOf[e])
      PROVE  CompleteUpTo(cursorOf[e])'
  <2>1. cursorOf[e] <= c => cursorOf[e] \in ToSet(received)
    <3>1. CASE received = <<>>
      BY <1>1, <1>3, <1>7, <3>1 DEF CompleteUpTo, StreamTyped
    <3>2. CASE received # <<>>
      <4>1. c \in ToSet(received)
        <5>1. received[1] \in ToSet(received)
          BY <1>1, <3>2 DEF ToSet, StreamTyped
        <5> QED BY <1>3, <5>1
      <4> QED BY <1>7, <4>1 DEF CompleteUpTo
    <3> QED BY <3>1, <3>2
  <2> QED BY <1>2, <1>7, <2>1 DEF CompleteUpTo, ToSet
<1>8. Complete => Complete'
  BY <1>2, <1>7 DEF Complete, Stream!Durable
<1> QED BY <1>1, <1>2, <1>4, <1>5, <1>6, <1>8 DEF StreamInv

LEMMA StreamSteps ==
  ASSUME StreamInv, [Stream!Next]_Stream!vars
  PROVE  StreamInv'
<1>1. CASE UNCHANGED Stream!vars
  <2>1. UNCHANGED <<reserved, cursors, emit, cursorOf, stream, phase, sent,
                    received>>
    BY <1>1 DEF Stream!vars, Stream!writers, Stream!server
  <2> QED
    BY <2>1 DEF StreamInv, StreamTyped, Paged, Ordered, Complete,
      CompleteUpTo, Stream!Durable
<1>2. CASE \E e \in Calls : Stream!Insert(e) \/ Stream!Commit(e)
  BY <1>2, EventAppends
<1>3. CASE \E e \in Calls :
             Stream!Aborted(e) \/ Stream!Unheard(e) \/ Stream!Tell(e)
  BY <1>3, TellingReadsNothing
<1>4. CASE \/ Stream!Pull \/ Stream!PumpStops \/ Stream!PumpReplays
           \/ Stream!PumpAsks \/ Stream!Take
  BY <1>4, PumpingReadsNothing
<1>5. CASE Stream!ReadFails \/ Stream!Disconnect
  <2>1. /\ Stream!Closes
        /\ UNCHANGED <<reserved, cursors, emit, cursorOf, received>>
    BY <1>5 DEF Stream!ReadFails, Stream!Disconnect, Stream!writers
  <2>2. /\ Stream!Durable' \subseteq Stream!Durable
        /\ emit' \in [Calls -> {"idle", "inserted", "aborted", "committed",
                                "told", "unheard"}]
    BY <2>1 DEF StreamInv, StreamTyped, Stream!Durable
  <2> QED BY <2>1, <2>2, NothingAfterClosing
<1>6. CASE \/ Stream!PumpDelivers \/ Stream!RepositoryReads
           \/ Stream!PageArrives \/ Stream!Receive \/ Stream!Reconnect
  BY <1>6, DeliveringKeepsOrder, ReadingLeavesNothingOut, PageGoesOn,
    ReceivingKeepsOrder, ReconnectingGoesOn
<1> QED
  BY <1>1, <1>2, <1>3, <1>4, <1>5, <1>6 DEF Stream!Next, Stream!Pump

LEMMA FollowedHistory == StreamInv => ReaderFollowsHistory
<1> SUFFICES ASSUME StreamInv PROVE ReaderFollowsHistory
  OBVIOUS
<1>1. StreamTyped /\ Ordered /\ (~reserved => Complete)
  BY DEF StreamInv
<1>2. \A i, j \in DOMAIN received : i < j => received[i] < received[j]
  BY <1>1 DEF Ordered, RisesUpTo
<1>3. ASSUME ~reserved, NEW e \in Stream!Durable, received # <<>>,
             cursorOf[e] <= Stream!Last(received)
      PROVE  \E i \in DOMAIN received : received[i] = cursorOf[e]
  <2>1. Stream!Last(received) \in ToSet(received)
    <3>1. Len(received) \in DOMAIN received
      BY <1>1, <1>3 DEF StreamTyped
    <3> QED BY <3>1 DEF Stream!Last, ToSet
  <2>2. cursorOf[e] \in ToSet(received)
    BY <1>1, <1>3, <2>1 DEF Complete, CompleteUpTo
  <2> QED BY <2>2 DEF ToSet
<1> QED
  BY <1>2, <1>3 DEF ReaderFollowsHistory, Stream!ReaderFollowsHistory,
    Stream!NoEventSkipped

(* Whatever its pages, cuts, overflows and reconnections, a reader receives *)
(* events in the order of their cursors, none twice, and none is jumped     *)
(* over where a cursor is not assigned before its event can be read:        *)
(* serveEvents() of the collaboration service.                              *)
THEOREM ReadersFollow == Stream!Spec => []ReaderFollowsHistory
<1>1. Stream!Spec => []StreamInv
  BY StreamStarts, StreamSteps, PTL DEF Stream!Spec
<1> QED BY <1>1, FollowedHistory, PTL

(* Where a cursor the subscribers were told of is kept until it has been   *)
(* written: on the page, among the wake-ups, or beyond what was read.      *)
Awaited(c) ==
  \/ c \in ToSet(stream.page) \cup ToSet(stream.pending)
  \/ /\ stream.replaying /\ c > stream.replay
     /\ phase = "loaded" =>
          Len(stream.page) = PageSize /\ \A n \in ToSet(stream.page) : n < c

Awoken ==
  /\ stream.pending \in Seq(Nat)
  /\ phase \in {"loading", "loaded"} => stream.replaying
  /\ phase = "idle" /\ demand => pull \/ Stream!Rests(stream)

Told == {e \in Calls : emit[e] = "told"}

WakeInv ==
  /\ Awoken
  /\ stream.open =>
       \A e \in Told : cursorOf[e] > stream.last => Awaited(cursorOf[e])

LEMMA LeastNumber ==
  ASSUME NEW T \in SUBSET Nat, T # {}
  PROVE  \E x \in T : \A y \in T : x <= y
<1>1. PICK x \in T : \A y \in T : <<y, x>> \notin OpToRel(<, Nat)
  BY WFMin, NatLessThanWellFounded
<1>2. \A y \in T : ~(y < x)
  BY <1>1 DEF OpToRel
<1> QED BY <1>2

(* What is taken out is all that is no longer there.                       *)
LEMMA OneIsRemoved ==
  ASSUME NEW s \in Seq(Nat), NEW c \in Nat
  PROVE  /\ Stream!RemoveFirst(s, c) \in Seq(Nat)
         /\ ToSet(s) \subseteq ToSet(Stream!RemoveFirst(s, c)) \cup {c}
<1> DEFINE found == {i \in 1..Len(s) : s[i] = c}
<1>1. /\ Len(s) \in Nat /\ DOMAIN s = 1..Len(s)
      /\ \A i \in 1..Len(s) : s[i] \in Nat
  OBVIOUS
<1>2. CASE found = {}
  <2>1. Stream!RemoveFirst(s, c) = s
    BY <1>2 DEF Stream!RemoveFirst
  <2> QED BY <2>1
<1>3. CASE found # {}
  <2> DEFINE i == Stream!Min(found)
  <2>1. \E x \in found : \A y \in found : x <= y
    <3>1. found \in SUBSET Nat
      BY <1>1
    <3> HIDE DEF found
    <3> QED BY <1>3, <3>1, LeastNumber
  <2>2. i \in found
    <3> HIDE DEF found
    <3> QED BY <2>1 DEF Stream!Min
  <2>3. i \in 1..Len(s) /\ s[i] = c
    BY <2>2
  <2>4. Stream!RemoveFirst(s, c) = Stream!RemoveAt(s, i)
    <3>1. \E j \in 1..Len(s) : s[j] = c
      BY <1>3
    <3>2. Stream!RemoveFirst(s, c)
            = Stream!RemoveAt(s, IF found # {} THEN Stream!Min(found) ELSE 0)
      BY <3>1 DEF Stream!RemoveFirst, Stream!SelectInSeq
    <3> QED BY <1>3, <3>2
  <2> HIDE DEF i
  <2> DEFINE a == SubSeq(s, 1, i - 1)
             b == SubSeq(s, i + 1, Len(s))
             t == a \o b
  <2>5. /\ a \in Seq(Nat) /\ Len(a) = i - 1
        /\ \A j \in 1..i - 1 : a[j] = s[j]
    BY <1>1, <2>3
  <2>6. /\ b \in Seq(Nat) /\ Len(b) = Len(s) - i
        /\ \A j \in 1..Len(s) - i : b[j] = s[i + j]
    <3>1. b \in Seq(Nat)
      BY <1>1, <2>3
    <3>2. Len(b) = Len(s) - i
      <4>1. i + 1 \in 1..Len(s) + 1 /\ Len(s) \in i..Len(s)
        BY <1>1, <2>3
      <4> QED BY <2>3, <4>1, SubSeqProperties
    <3>3. ASSUME NEW j \in 1..Len(s) - i PROVE b[j] = s[i + j]
      BY <1>1, <2>3, <3>3
    <3> QED BY <3>1, <3>2, <3>3
  <2>7. Stream!RemoveAt(s, i) = t
    BY DEF Stream!RemoveAt
  <2> HIDE DEF a, b
  <2>8. t \in Seq(Nat) /\ DOMAIN t = 1..Len(s) - 1
    <3>1. t \in Seq(Nat) /\ Len(t) = Len(a) + Len(b)
      BY <2>5, <2>6, ConcatProperties
    <3>2. DOMAIN t = 1..Len(t)
      BY <3>1
    <3> QED BY <1>1, <2>3, <2>5, <2>6, <3>1, <3>2
  <2>9. /\ \A j \in 1..i - 1 : t[j] = s[j]
        /\ \A j \in i..Len(s) - 1 : t[j] = s[j + 1]
    <3>1. \A j \in 1..Len(a) + Len(b) :
            t[j] = IF j <= Len(a) THEN a[j] ELSE b[j - Len(a)]
      BY <2>5, <2>6, ConcatProperties
    <3>2. ASSUME NEW j \in 1..i - 1 PROVE t[j] = s[j]
      BY <1>1, <2>3, <2>5, <2>6, <3>1
    <3>3. ASSUME NEW j \in i..Len(s) - 1 PROVE t[j] = s[j + 1]
      <4>1. /\ j - (i - 1) \in 1..Len(s) - i /\ i + (j - (i - 1)) = j + 1
            /\ j \in 1..Len(a) + Len(b) /\ ~(j <= Len(a))
            /\ j - Len(a) = j - (i - 1)
        BY <1>1, <2>3, <2>5, <2>6
      <4>2. t[j] = b[j - (i - 1)]
        BY <3>1, <4>1
      <4>3. b[j - (i - 1)] = s[i + (j - (i - 1))]
        BY <2>6, <4>1
      <4> QED BY <4>1, <4>2, <4>3
    <3> QED BY <3>2, <3>3
  <2> HIDE DEF t
  <2>10. ASSUME NEW j \in 1..Len(s), s[j] # c PROVE s[j] \in ToSet(t)
    <3>1. CASE j < i
      <4>1. j \in 1..i - 1 /\ j \in DOMAIN t
        BY <1>1, <2>3, <2>8, <3>1
      <4> QED BY <2>9, <4>1 DEF ToSet
    <3>2. CASE j > i
      <4>1. j - 1 \in i..Len(s) - 1 /\ j - 1 \in DOMAIN t /\ (j - 1) + 1 = j
        BY <1>1, <2>3, <2>8, <3>2
      <4> QED BY <2>9, <4>1 DEF ToSet
    <3> QED BY <1>1, <2>3, <2>10, <3>1, <3>2
  <2>11. ToSet(s) \subseteq ToSet(t) \cup {c}
    BY <1>1, <2>10 DEF ToSet
  <2> QED BY <2>4, <2>7, <2>8, <2>11
<1> QED BY <1>2, <1>3

LEMMA WakesAtFirst == Stream!Init => WakeInv
<1> SUFFICES ASSUME Stream!Init PROVE WakeInv
  OBVIOUS
<1>1. /\ emit = [e \in Calls |-> "idle"] /\ phase = "idle" /\ pull = TRUE
      /\ stream.pending = <<>>
  BY DEF Stream!Init, Stream!NewStream
<1>2. Told = {}
  BY <1>1 DEF Told
<1> QED BY <1>1, <1>2 DEF WakeInv, Awoken

(* Events that nobody here was told of yet, or that are received.          *)
LEMMA WakesAround ==
  ASSUME StreamInv, WakeInv, UNCHANGED <<stream, phase, demand, pull>>,
         Told' \subseteq Told, \A e \in Told' : cursorOf'[e] = cursorOf[e]
  PROVE  WakeInv'
<1>1. Awoken'
  BY DEF WakeInv, Awoken, Stream!Rests
<1>2. ASSUME stream.open, NEW e \in Told', cursorOf'[e] > stream'.last
      PROVE  Awaited(cursorOf[e])'
  <2>1. e \in Told /\ cursorOf'[e] = cursorOf[e]
    BY <1>2
  <2>2. Awaited(cursorOf[e])
    BY <1>2, <2>1 DEF WakeInv
  <2> QED BY <2>1, <2>2 DEF Awaited
<1> QED BY <1>1, <1>2 DEF WakeInv

LEMMA WritersWake ==
  ASSUME StreamInv, WakeInv, NEW e \in Calls,
         \/ Stream!Insert(e) \/ Stream!Commit(e)
         \/ Stream!Aborted(e) \/ Stream!Unheard(e)
  PROVE  WakeInv'
<1>1. StreamTyped
  BY DEF StreamInv
<1>2. UNCHANGED <<stream, phase, demand, pull>>
  BY DEF Stream!Insert, Stream!Commit, Stream!Aborted, Stream!Unheard,
    Stream!server
<1>3. PICK v \in {"inserted", "committed", "aborted", "unheard"} :
        /\ emit' = [emit EXCEPT ![e] = v]
        /\ emit[e] # "told"
        /\ \/ cursorOf' = cursorOf
           \/ cursorOf' = [cursorOf EXCEPT ![e] = cursors + 1]
  BY DEF Stream!Insert, Stream!Commit, Stream!Aborted, Stream!Unheard
<1>4. \A d \in Told' : d # e /\ d \in Told /\ cursorOf'[d] = cursorOf[d]
  BY <1>1, <1>3 DEF StreamTyped, Told
<1> QED BY <1>2, <1>4, WakesAround

(* A stream that is closed reads its project anew when it is opened.       *)
LEMMA ClosedWakes ==
  ASSUME StreamInv, WakeInv, Stream!Closes, UNCHANGED cursorOf
  PROVE  WakeInv'
<1>1. /\ stream' = [open |-> FALSE, last |-> 0, replay |-> 0,
                    replaying |-> TRUE, page |-> <<>>, pending |-> <<>>,
                    required |-> 0]
      /\ phase' = "idle" /\ demand' = FALSE
  BY DEF Stream!Closes, Stream!NewStream
<1> QED BY <1>1 DEF WakeInv, Awoken, Awaited

(* Whoever is told wakes the pump, if the event is not written already.    *)
LEMMA TellingWakes ==
  ASSUME StreamInv, WakeInv, NEW e \in Calls, Stream!Tell(e)
  PROVE  WakeInv'
<1>1. StreamTyped /\ Awoken
  BY DEF StreamInv, WakeInv
<1>2. /\ UNCHANGED cursorOf /\ Stream!Writes(cursorOf[e])
      /\ Told' \subseteq Told \cup {e} /\ cursorOf[e] \in Nat
      /\ stream.last \in Nat
  BY <1>1 DEF Stream!Tell, Told, StreamTyped
<1>3. CASE Stream!Closes
  BY <1>2, <1>3, ClosedWakes
<1>4. CASE /\ stream.open /\ cursorOf[e] > stream.last
           /\ stream' = [stream EXCEPT !.pending = Append(@, cursorOf[e])]
           /\ phase' = IF phase = "idle" THEN "running" ELSE phase
           /\ UNCHANGED <<demand, pull>>
  <2>1. /\ stream'.pending = Append(stream.pending, cursorOf[e])
        /\ stream'.last = stream.last /\ stream'.replay = stream.replay
        /\ stream'.replaying = stream.replaying
        /\ stream'.page = stream.page
    BY <1>1, <1>4 DEF StreamTyped
  <2>2. /\ stream'.pending \in Seq(Nat)
        /\ ToSet(stream'.pending) = ToSet(stream.pending) \cup {cursorOf[e]}
    <3> DEFINE p == stream.pending
               c == cursorOf[e]
    <3>1. p \in Seq(Nat) /\ c \in Nat
      BY <1>1, <1>2 DEF Awoken
    <3> HIDE DEF p, c
    <3>2. /\ Append(p, c) \in Seq(Nat) /\ Len(p) \in Nat
          /\ DOMAIN p = 1..Len(p) /\ DOMAIN Append(p, c) = 1..Len(p) + 1
          /\ \A i \in 1..Len(p) : Append(p, c)[i] = p[i]
          /\ Append(p, c)[Len(p) + 1] = c
      BY <3>1
    <3>3. ToSet(p) \subseteq ToSet(Append(p, c)) /\ c \in ToSet(Append(p, c))
      BY <3>2 DEF ToSet
    <3>4. ToSet(Append(p, c)) \subseteq ToSet(p) \cup {c}
      BY <3>2 DEF ToSet
    <3> QED BY <2>1, <3>2, <3>3, <3>4 DEF p, c
  <2>3. Awoken'
    <3>1. /\ phase' # "idle"
          /\ phase' \in {"loading", "loaded"} => phase = phase'
      BY <1>4
    <3> QED BY <1>1, <2>1, <2>2, <3>1 DEF Awoken
  <2>4. ASSUME NEW d \in Told', cursorOf'[d] > stream'.last
        PROVE  Awaited(cursorOf[d])'
    <3>1. CASE d = e
      BY <1>2, <2>2, <3>1 DEF Awaited
    <3>2. CASE d # e
      <4>1. Awaited(cursorOf[d]) /\ cursorOf'[d] = cursorOf[d]
        <5>1. d \in Told /\ cursorOf'[d] = cursorOf[d]
          BY <1>2, <3>2
        <5>2. cursorOf[d] > stream.last
          BY <2>1, <2>4, <5>1
        <5> QED BY <1>4, <5>1, <5>2 DEF WakeInv
      <4>2. phase' = "loaded" => phase = "loaded"
        BY <1>4
      <4> QED BY <2>1, <2>2, <4>1, <4>2 DEF Awaited
    <3> QED BY <3>1, <3>2
  <2> QED BY <2>3, <2>4 DEF WakeInv
<1>5. CASE /\ UNCHANGED Stream!server
           /\ ~stream.open \/ cursorOf[e] <= stream.last
  <2>1. UNCHANGED <<stream, phase, demand, pull>>
    BY <1>5 DEF Stream!server
  <2>2. Awoken'
    BY <1>1, <2>1 DEF Awoken, Stream!Rests
  <2>3. ASSUME stream'.open, NEW d \in Told', cursorOf'[d] > stream'.last
        PROVE  Awaited(cursorOf[d])'
    <3>1. CASE d = e
      BY <1>2, <1>5, <2>1, <2>3, <3>1
    <3>2. CASE d # e
      <4>1. Awaited(cursorOf[d]) /\ cursorOf'[d] = cursorOf[d]
        BY <1>2, <2>1, <2>3, <3>2 DEF WakeInv
      <4> QED BY <2>1, <4>1 DEF Awaited
    <3> QED BY <3>1, <3>2
  <2> QED BY <2>2, <2>3 DEF WakeInv
<1> QED
  BY <1>2, <1>3, <1>4, <1>5 DEF Stream!Writes

(* The pump between two pages.                                             *)
LEMMA PumpingWakes ==
  ASSUME StreamInv, WakeInv,
         \/ Stream!Pull \/ Stream!PumpStops \/ Stream!Take
         \/ Stream!PumpReplays \/ Stream!PumpAsks
  PROVE  WakeInv'
<1>1. StreamTyped /\ Awoken /\ Ordered
  BY DEF StreamInv, WakeInv
<1>2. UNCHANGED <<emit, cursorOf>> /\ Told' = Told
  BY DEF Stream!Pull, Stream!PumpStops, Stream!PumpReplays,
    Stream!PumpAsks, Stream!Take, Stream!writers, Told
<1>3. CASE Stream!Pull \/ Stream!PumpStops \/ Stream!Take
  <2>1. stream' = stream /\ (phase' = "loaded" => phase = "loaded")
    BY <1>3 DEF Stream!Pull, Stream!PumpStops, Stream!Take
  <2>2. Awoken'
    <3>1. CASE Stream!Pull
      BY <1>1, <2>1, <3>1 DEF Stream!Pull, Awoken
    <3>2. CASE Stream!PumpStops
      BY <1>1, <2>1, <3>2 DEF Stream!PumpStops, Awoken, Stream!Rests
    <3>3. CASE Stream!Take
      BY <1>1, <2>1, <3>3 DEF Stream!Take, Awoken
    <3> QED BY <1>3, <3>1, <3>2, <3>3
  <2>3. ASSUME stream.open, NEW e \in Told, cursorOf[e] > stream.last
        PROVE  Awaited(cursorOf[e])'
    <3>1. Awaited(cursorOf[e])
      BY <2>3 DEF WakeInv
    <3> QED BY <1>2, <2>1, <3>1 DEF Awaited
  <2> QED BY <1>2, <2>1, <2>2, <2>3 DEF WakeInv
<1>4. CASE Stream!PumpReplays
  <2>1. /\ stream.page = <<>> /\ phase = "running" /\ phase' = "running"
        /\ stream' = [stream EXCEPT !.replay = stream.last,
                                    !.replaying = TRUE]
    BY <1>4 DEF Stream!PumpReplays, Stream!ReplayAgain
  <2>2. /\ stream'.replay = stream.last /\ stream'.replaying
        /\ stream'.last = stream.last /\ stream'.pending = stream.pending
    BY <1>1, <2>1 DEF StreamTyped
  <2>3. Awoken'
    BY <1>1, <2>1, <2>2 DEF Awoken
  <2>4. \A e \in Told' :
          cursorOf'[e] > stream'.last => Awaited(cursorOf[e])'
    BY <2>1, <2>2 DEF Awaited
  <2> QED BY <2>3, <2>4 DEF WakeInv
<1>5. CASE Stream!PumpAsks
  <2>1. /\ stream.replaying /\ phase = "running" /\ phase' = "loading"
        /\ stream' = [stream EXCEPT !.required = stream'.required]
    BY <1>1, <1>5 DEF Stream!PumpAsks, StreamTyped
  <2>2. /\ stream'.replay = stream.replay /\ stream'.replaying
        /\ stream'.last = stream.last /\ stream'.pending = stream.pending
        /\ stream'.page = stream.page /\ stream'.open = stream.open
    BY <1>1, <2>1 DEF StreamTyped
  <2>3. Awoken'
    BY <1>1, <2>1, <2>2 DEF Awoken
  <2>4. ASSUME stream.open, NEW e \in Told, cursorOf[e] > stream.last
        PROVE  Awaited(cursorOf[e])'
    <3>1. Awaited(cursorOf[e])
      BY <2>4 DEF WakeInv
    <3> QED BY <1>2, <2>1, <2>2, <3>1 DEF Awaited
  <2> QED BY <1>2, <2>2, <2>3, <2>4 DEF WakeInv
<1> QED BY <1>3, <1>4, <1>5

(* What is written is the event that was awaited, and no other.            *)
LEMMA DeliveringWakes ==
  ASSUME StreamInv, WakeInv, Stream!PumpDelivers
  PROVE  WakeInv'
<1>1. StreamTyped /\ Paged /\ Awoken
  BY DEF StreamInv, WakeInv
<1> DEFINE c == Head(stream.page)
<1>2. /\ c \in Nat /\ Tail(stream.page) \in Seq(Nat)
      /\ ToSet(stream.page) = {c} \cup ToSet(Tail(stream.page))
  BY <1>1, RisingTail DEF Stream!PumpDelivers, StreamTyped, Paged
<1> HIDE DEF c
<1>3. /\ UNCHANGED <<emit, cursorOf, phase>> /\ phase = "running"
      /\ stream' = Stream!Delivered(stream, c) /\ Told' = Told
  BY DEF Stream!PumpDelivers, Stream!writers, Told, c
<1>4. /\ stream'.page = Tail(stream.page)
      /\ stream'.open = stream.open /\ stream'.replay = stream.replay
      /\ stream'.replaying = stream.replaying
      /\ stream'.last = IF c <= stream.last THEN stream.last ELSE c
      /\ stream'.pending = IF c <= stream.last THEN stream.pending
                           ELSE Stream!RemoveFirst(stream.pending, c)
  BY <1>1, <1>3 DEF Stream!Delivered, StreamTyped
<1>5. /\ stream'.pending \in Seq(Nat)
      /\ ToSet(stream.pending) \subseteq ToSet(stream'.pending) \cup
           (IF c <= stream.last THEN {} ELSE {c})
  <2>1. stream.pending \in Seq(Nat)
    BY <1>1 DEF Awoken
  <2>2. /\ Stream!RemoveFirst(stream.pending, c) \in Seq(Nat)
        /\ ToSet(stream.pending) \subseteq
             ToSet(Stream!RemoveFirst(stream.pending, c)) \cup {c}
    BY <1>2, <2>1, OneIsRemoved
  <2> QED BY <1>4, <2>1, <2>2
<1>6. Awoken'
  BY <1>1, <1>3, <1>5 DEF Awoken
<1>7. ASSUME stream.open, NEW e \in Told, cursorOf[e] > stream'.last
      PROVE  Awaited(cursorOf[e])'
  <2>1. cursorOf[e] \in Nat /\ stream.last \in Nat
    BY <1>1 DEF StreamTyped, Told
  <2>2. cursorOf[e] > stream.last /\ cursorOf[e] # c
    BY <1>2, <1>4, <1>7, <2>1
  <2>3. Awaited(cursorOf[e])
    BY <1>7, <2>2 DEF WakeInv
  <2>4. cursorOf[e] \in ToSet(stream.page) \cup ToSet(stream.pending) =>
          cursorOf[e] \in ToSet(stream'.page) \cup ToSet(stream'.pending)
    BY <1>2, <1>4, <1>5, <2>2
  <2> QED BY <1>3, <1>4, <2>3, <2>4 DEF Awaited
<1> QED BY <1>3, <1>4, <1>6, <1>7 DEF WakeInv

(* What the page leaves out although it was there comes after it.          *)
LEMMA ReadingWakes ==
  ASSUME StreamInv, WakeInv, Stream!RepositoryReads
  PROVE  WakeInv'
<1>1. StreamTyped /\ Paged /\ Awoken
  BY DEF StreamInv, WakeInv
<1>2. PICK page \in Stream!PagesAfter(stream.replay) :
        stream' = [stream EXCEPT !.page = page]
  BY DEF Stream!RepositoryReads
<1>3. /\ UNCHANGED <<emit, cursorOf>> /\ phase = "loading"
      /\ phase' = "loaded" /\ Told' = Told /\ stream.page = <<>>
  BY <1>1 DEF Stream!RepositoryReads, Stream!writers, Told, Paged
<1>4. ASSUME NEW e \in Told, cursorOf[e] > stream.replay
      PROVE  \/ cursorOf[e] \in ToSet(page)
             \/ /\ Len(page) = PageSize
                /\ \A n \in ToSet(page) : n < cursorOf[e]
  <2> DEFINE found == {cursorOf[d] : d \in {d \in Stream!Durable :
                                            cursorOf[d] > stream.replay}}
  <2>1. \A c \in found \ Stream!ToSet(page) :
          Len(page) = PageSize /\ \A i \in DOMAIN page : page[i] < c
    BY DEF Stream!PagesAfter
  <2>2. cursorOf[e] \in found
    BY <1>4 DEF Told, Stream!Durable
  <2>3. Stream!ToSet(page) = ToSet(page)
    BY DEF Stream!ToSet, ToSet
  <2>4. cursorOf[e] \notin ToSet(page) =>
          Len(page) = PageSize /\ \A i \in DOMAIN page : page[i] < cursorOf[e]
    <3> HIDE DEF found
    <3> QED BY <2>1, <2>2, <2>3
  <2> QED BY <2>4 DEF ToSet
<1>5. /\ stream'.page = page
      /\ stream'.open = stream.open /\ stream'.replay = stream.replay
      /\ stream'.last = stream.last /\ stream'.pending = stream.pending
      /\ stream'.replaying = stream.replaying
  BY <1>1, <1>2 DEF StreamTyped
<1>6. Awoken'
  BY <1>1, <1>3, <1>5 DEF Awoken
<1>7. ASSUME stream.open, NEW e \in Told, cursorOf[e] > stream.last
      PROVE  Awaited(cursorOf[e])'
  <2>1. Awaited(cursorOf[e])
    BY <1>7 DEF WakeInv
  <2>2. ToSet(stream.page) = {}
    BY <1>3 DEF ToSet
  <2>3. CASE cursorOf[e] \in ToSet(stream.pending)
    BY <1>3, <1>5, <2>3 DEF Awaited
  <2>4. CASE stream.replaying /\ cursorOf[e] > stream.replay
    BY <1>3, <1>4, <1>5, <2>4 DEF Awaited
  <2> QED BY <2>1, <2>2, <2>3, <2>4 DEF Awaited
<1> QED BY <1>3, <1>5, <1>6, <1>7 DEF WakeInv

(* A full page is followed by another.                                     *)
LEMMA PageWakes ==
  ASSUME StreamInv, WakeInv, Stream!PageArrives
  PROVE  WakeInv'
<1>1. StreamTyped /\ Awoken
  BY DEF StreamInv, WakeInv
<1>2. /\ UNCHANGED <<emit, cursorOf>> /\ phase = "loaded"
      /\ phase' = "running" /\ Told' = Told
  BY DEF Stream!PageArrives, Stream!writers, Told
<1>3. /\ stream'.page = stream.page /\ stream'.open = stream.open
      /\ stream'.last = stream.last /\ stream'.pending = stream.pending
      /\ stream'.replay = IF stream.page = <<>> THEN stream.replay
                          ELSE stream.page[Len(stream.page)]
      /\ stream'.replaying = (Len(stream.page) = PageSize)
  BY <1>1 DEF Stream!PageArrives, Stream!Loaded, Stream!Last, StreamTyped
<1>4. Awoken'
  BY <1>1, <1>2, <1>3 DEF Awoken
<1>5. ASSUME stream.open, NEW e \in Told, cursorOf[e] > stream.last
      PROVE  Awaited(cursorOf[e])'
  <2>1. Awaited(cursorOf[e])
    BY <1>5 DEF WakeInv
  <2>2. CASE cursorOf[e] \in ToSet(stream.page) \cup ToSet(stream.pending)
    BY <1>2, <1>3, <2>2 DEF Awaited
  <2>3. CASE /\ cursorOf[e] > stream.replay /\ Len(stream.page) = PageSize
             /\ \A n \in ToSet(stream.page) : n < cursorOf[e]
    <3>1. stream.page # <<>> =>
            stream.page[Len(stream.page)] \in ToSet(stream.page)
      <4>1. stream.page # <<>> => Len(stream.page) \in DOMAIN stream.page
        BY <1>1 DEF StreamTyped
      <4> QED BY <4>1 DEF ToSet
    <3>2. cursorOf[e] > stream'.replay
      <4>1. /\ stream'.replay \in Nat /\ cursorOf[e] \in Nat
            /\ ToSet(stream.page) \subseteq Nat
        BY <1>1, <1>3, <3>1, NumbersInSequence DEF StreamTyped, Told
      <4> QED BY <1>3, <2>3, <3>1, <4>1
    <3> QED BY <1>2, <1>3, <2>3, <3>2 DEF Awaited
  <2> QED BY <1>2, <2>1, <2>2, <2>3 DEF Awaited
<1> QED BY <1>2, <1>3, <1>4, <1>5 DEF WakeInv

(* A reader that is back is sent everything beyond what it has received.   *)
LEMMA ReconnectingWakes ==
  ASSUME StreamInv, WakeInv, Stream!Reconnect
  PROVE  WakeInv'
<1>1. /\ phase' = "idle" /\ pull' = TRUE
      /\ stream' = Stream!NewStream(Stream!Resumes)
  BY DEF Stream!Reconnect
<1>2. /\ stream'.pending = <<>> /\ stream'.replaying
      /\ stream'.replay = stream'.last
  BY <1>1 DEF Stream!NewStream
<1> QED BY <1>1, <1>2 DEF WakeInv, Awoken, Awaited

LEMMA WakeSteps ==
  ASSUME StreamInv, WakeInv, [Stream!Next]_Stream!vars
  PROVE  WakeInv'
<1>1. CASE UNCHANGED Stream!vars \/ Stream!Receive
  <2>1. UNCHANGED <<emit, cursorOf, stream, phase, demand, pull>>
    BY <1>1 DEF Stream!vars, Stream!writers, Stream!server, Stream!Receive
  <2> QED BY <2>1, WakesAround DEF Told
<1>2. CASE \E e \in Calls :
             \/ Stream!Insert(e) \/ Stream!Commit(e)
             \/ Stream!Aborted(e) \/ Stream!Unheard(e)
  BY <1>2, WritersWake
<1>3. CASE \E e \in Calls : Stream!Tell(e)
  BY <1>3, TellingWakes
<1>4. CASE \/ Stream!Pull \/ Stream!PumpStops \/ Stream!Take
           \/ Stream!PumpReplays \/ Stream!PumpAsks
  BY <1>4, PumpingWakes
<1>5. CASE Stream!ReadFails \/ Stream!Disconnect
  BY <1>5, ClosedWakes
  DEF Stream!ReadFails, Stream!Disconnect, Stream!writers
<1>6. CASE \/ Stream!PumpDelivers \/ Stream!RepositoryReads
           \/ Stream!PageArrives \/ Stream!Reconnect
  BY <1>6, DeliveringWakes, ReadingWakes, PageWakes, ReconnectingWakes
<1> QED
  BY <1>1, <1>2, <1>3, <1>4, <1>5, <1>6 DEF Stream!Next, Stream!Pump

LEMMA WokenInTime == StreamInv /\ WakeInv => NoWakeUpLost
<1> SUFFICES ASSUME StreamInv, WakeInv PROVE NoWakeUpLost
  OBVIOUS
<1>1. phase = "idle" /\ demand => pull \/ Stream!Rests(stream)
  BY DEF WakeInv, Awoken
<1>2. ASSUME stream.open, NEW e \in Calls, emit[e] = "told",
             cursorOf[e] > stream.last
      PROVE  \/ cursorOf[e] \in Stream!ToSet(stream.page)
                                  \cup Stream!ToSet(stream.pending)
             \/ stream.replaying /\ cursorOf[e] > stream.replay
  <2>1. Awaited(cursorOf[e])
    BY <1>2 DEF WakeInv, Told
  <2> QED BY <2>1 DEF Awaited, Stream!ToSet, ToSet
<1> QED BY <1>1, <1>2 DEF NoWakeUpLost, Stream!NoWakeUpLost

(* No wake-up is lost, whatever the reader is told of while a page is read *)
(* or written, and whenever it reconnects: write() and pump() of the       *)
(* collaboration service.                                                  *)
THEOREM NoWakeUpIsLost == Stream!Spec => []NoWakeUpLost
<1>1. Stream!Spec => [](StreamInv /\ WakeInv)
  BY StreamStarts, StreamSteps, WakesAtFirst, WakeSteps, PTL
  DEF Stream!Spec
<1> QED BY <1>1, WokenInTime, PTL

-----------------------------------------------------------------------------
(* The parts side by side.                                                 *)

(* No part changes the repository the service runs on.                     *)
LEMMA RepositoryStays ==
  ASSUME Next \/ AIRequest!Next
  PROVE  repository' = repository
<1>1. ASSUME NEW c \in Calls, Asked(c) PROVE repository' = repository
  <2>1. \E r : Request(c, r)
    BY <1>1, Zenon DEF Asked, Create, Change, Touch, Manage
  <2> QED BY <2>1 DEF Request
<1>2. ASSUME NEW c \in Calls, Progress(c) PROVE repository' = repository
  <2>1. CASE \/ Export(c) \/ MutateInMemory(c) \/ TouchInMemory(c)
             \/ ReplaceInMemory(c) \/ DeleteInMemory(c)
    BY <2>1 DEF Export, MutateInMemory, TouchInMemory, ReplaceInMemory,
      DeleteInMemory, Write, Restored
  <2>2. CASE LockRow(c) \/ LockProject(c) \/ LockScope(c) \/ CommitMutation(c)
    BY <2>2 DEF LockRow, LockProject, LockScope, CommitMutation, RollBack,
      Write
  <2>3. CASE ReadThread(c) \/ UpdateRow(c) \/ LockForReplacement(c)
    BY <2>3 DEF ReadThread, UpdateRow, LockForReplacement, RollBack
  <2>4. CASE \/ \E t \in Threads : DeleteRow(c, t)
             \/ CommitReplacement(c) \/ MarkDeleted(c) \/ Victim(c)
    BY <2>4 DEF DeleteRow, CommitReplacement, MarkDeleted, Victim, Restored,
      RollBack
  <2> QED BY <1>2, <2>1, <2>2, <2>3, <2>4 DEF Progress
<1>3. ASSUME NEW c \in Calls, Lose(c) PROVE repository' = repository
  BY <1>3 DEF Lose, RollBack
<1>4. CASE AIRequest!Next
  BY <1>4
  DEF AIRequest!Next, AIRequest!Tick, AIRequest!Replace, AIRequest!Create,
    AIRequest!Handle, AIRequest!Stamp, AIRequest!UpdateInMemory,
    AIRequest!ReadPrevious, AIRequest!UpdateRow, AIRequest!Abandon,
    AIRequest!Put, AIRequest!Refuse
<1> QED BY <1>1, <1>2, <1>3, <1>4 DEF Next

(* A step of one part is none of another.                                  *)
LEMMA PartsStep ==
  ASSUME [PartsNext]_<<part, repository, threadVars, hosted, guarded>>
  PROVE  /\ [Next]_vars
         /\ [AIRequest!Next]_(AIRequest!vars)
         /\ [Stream!Next]_(Stream!vars)
         /\ [Browser!Next]_(Browser!vars)
         /\ [Access!Next]_(Access!vars)
         /\ [Outbox!Next]_(Outbox!vars)
<1>1. Next \/ UNCHANGED <<repository, threadVars>>
  BY RepositoryStays
  DEF PartsNext, hosted, guarded, requestVars, streamVars, signInVars,
    accessVars, outboxVars, threadVars
<1>0. UNCHANGED <<repository, threadVars>> => UNCHANGED vars
  BY DEF threadVars, vars, store, locks, history
<1>2. AIRequest!Next \/ UNCHANGED <<repository, requestVars>>
  BY RepositoryStays
  DEF PartsNext, hosted, guarded, requestVars, streamVars, signInVars,
    accessVars, outboxVars, threadVars
<1>3. UNCHANGED <<repository, requestVars>> => UNCHANGED AIRequest!vars
  BY DEF requestVars, AIRequest!vars
<1>4. Stream!Next \/ UNCHANGED streamVars
  BY DEF PartsNext, hosted, guarded, requestVars, streamVars, signInVars,
    accessVars, outboxVars, threadVars
<1>5. UNCHANGED streamVars => UNCHANGED Stream!vars
  BY DEF streamVars, Stream!vars, Stream!writers, Stream!server
<1>6. Browser!Next \/ UNCHANGED signInVars
  BY DEF PartsNext, hosted, guarded, requestVars, streamVars, signInVars,
    accessVars, outboxVars, threadVars
<1>7. UNCHANGED signInVars => UNCHANGED Browser!vars
  BY DEF signInVars, Browser!vars
<1>8. Access!Next \/ UNCHANGED accessVars
  BY DEF PartsNext, hosted, guarded, requestVars, streamVars, signInVars,
    accessVars, outboxVars, threadVars
<1>9. UNCHANGED accessVars => UNCHANGED Access!vars
  BY DEF accessVars, Access!vars
<1>10. Outbox!Next \/ UNCHANGED outboxVars
  BY DEF PartsNext, hosted, guarded, requestVars, streamVars, signInVars,
    accessVars, outboxVars, threadVars
<1>11. UNCHANGED outboxVars => UNCHANGED Outbox!vars
  BY DEF outboxVars, Outbox!vars
<1> QED
  BY <1>0, <1>1, <1>2, <1>3, <1>4, <1>5, <1>6, <1>7, <1>8, <1>9, <1>10, <1>11

(* What the run explores side by side is, of each part, a behaviour of the *)
(* specification its theorems are about (the collaboration service's       *)
(* threads, requests, event stream, sign-in, decisions and outbox).        *)
THEOREM PartsFollow ==
  PartsSpec => /\ Spec /\ AIRequest!Spec /\ Stream!Spec
               /\ Browser!Spec /\ Access!Spec /\ Outbox!Spec
<1>1. PartsInit =>
        /\ Init /\ AIRequest!Init /\ Stream!Init
        /\ Browser!Init /\ Access!Init /\ Outbox!Init
  BY DEF PartsInit
<1> QED
  BY <1>1, PartsStep, PTL
  DEF PartsSpec, Spec, AIRequest!Spec, Stream!Spec, Browser!Spec,
    Access!Spec, Outbox!Spec
=============================================================================
