------------------------ MODULE ServiceWritesProofs ------------------------
(***************************************************************************)
(* Proofs about ServiceWrites, for any keys, attempts and processes: a     *)
(* single inductive invariant says how far each request has come and which *)
(* attempt a key's response belongs to.                                    *)
(***************************************************************************)
EXTENDS ServiceWrites, SequenceTheorems, TLAPS

Under(a) == attempt[a].state \in {"running", "abandoned"}

(* The repository call each mutation is made in, by its place in the       *)
(* handler.                                                                *)
MutatesAt(kind) ==
  CASE kind = "create" -> 2 [] kind = "append" -> 3 [] kind = "ready" -> 1
    [] kind = "import" -> 3 [] kind = "sync" -> 2
EventAt(kind) ==
  CASE kind = "create" -> 4 [] kind = "append" -> 4 [] kind = "ready" -> 2
    [] kind = "import" -> 4 [] kind = "sync" -> 3

(* A request that has not been made has done nothing; one that was made    *)
(* has its key, and is at one of its handler's calls while it runs.        *)
Begun ==
  \A a \in Attempts :
    /\ attempt[a].state = "idle" =>
         attempt[a] = NotStarted /\ a \notin applied
    /\ attempt[a].state # "idle" => attempt[a].key \in Keys
    /\ Under(a) => attempt[a].at \in 1..Len(Handler(a))

(* What a request that is past a call has done.                            *)
Progress ==
  \A a \in Attempts : Under(a) =>
    /\ attempt[a].at > MutatesAt(Op(a).kind) => a \in applied
    /\ attempt[a].at > EventAt(Op(a).kind) => a \in events
    /\ Op(a).kind = "create" /\ attempt[a].at > 3 => a \in audited

(* A stored response is that of an attempt with this key which did what it *)
(* is the response to; a design command that was carried out is the one.   *)
StoredIsApplied ==
  \A k \in Keys : responses[k] # None =>
    /\ responses[k] \in applied
    /\ attempt[responses[k]].key = k
AppliedIsStored ==
  \A a \in applied : DesignCommand(a) => responses[attempt[a].key] = a

(* Every success is the stored response.                                   *)
AnsweredFromStore ==
  \A a \in Attempts : attempt[a].answer = "success" =>
    /\ attempt[a].state # "idle"
    /\ responses[attempt[a].key] # None
    /\ attempt[a].result = responses[attempt[a].key]

(* A retry that finds a response is answered by its first call.            *)
StoredEndsAtOnce ==
  \A a \in Attempts : attempt[a].stored =>
    /\ attempt[a].state # "idle"
    /\ responses[attempt[a].key] # None
    /\ attempt[a].state # "joined"
    /\ Idempotent(Op(a).kind) /\ Under(a) => attempt[a].at = 1

Inv ==
  /\ TypeOK
  /\ Begun
  /\ Progress
  /\ StoredIsApplied
  /\ AppliedIsStored
  /\ AnsweredFromStore
  /\ StoredEndsAtOnce
  /\ ResponseMeansEvent
  /\ RetryNotRefused

-----------------------------------------------------------------------------
(* The handlers: how many calls each makes, and where each call is made.   *)
LEMMA HandlerLength ==
  ASSUME NEW kind \in Kinds
  PROVE  /\ Len(RepositoryCalls(kind)) \in 1..5
         /\ DOMAIN RepositoryCalls(kind) = 1..Len(RepositoryCalls(kind))
         /\ kind = "create" => Len(RepositoryCalls(kind)) = 5
         /\ kind = "append" => Len(RepositoryCalls(kind)) = 4
         /\ kind = "ready" => Len(RepositoryCalls(kind)) = 2
         /\ kind = "import" => Len(RepositoryCalls(kind)) = 5
         /\ kind = "sync" => Len(RepositoryCalls(kind)) = 4
<1>1. CASE kind = "create"
  BY <1>1 DEF RepositoryCalls
<1>2. CASE kind = "append"
  BY <1>2 DEF RepositoryCalls
<1>3. CASE kind = "ready"
  BY <1>3 DEF RepositoryCalls
<1>4. CASE kind = "import"
  BY <1>4 DEF RepositoryCalls
<1>5. CASE kind = "sync"
  BY <1>5 DEF RepositoryCalls
<1> QED BY <1>1, <1>2, <1>3, <1>4, <1>5 DEF Kinds

(* The place of each repository call in the handlers that make it.         *)
LEMMA CallPlaces ==
  ASSUME NEW kind \in Kinds, NEW i \in 1..Len(RepositoryCalls(kind)),
         NEW name, name = RepositoryCalls(kind)[i]
  PROVE  /\ name = "getIdempotency" => Idempotent(kind) /\ i = 1
         /\ name = "createProject" => kind = "create" /\ i = 2
         /\ name = "appendAudit" => kind = "create" /\ i = 3
         /\ name = "getLatest" =>
              \/ kind = "append" /\ i = 1
              \/ kind = "import" /\ i = 2
         /\ name = "getReviewState" => kind = "append" /\ i = 2
         /\ name = "commit" =>
              \/ kind = "append" /\ i = 3
              \/ kind = "ready" /\ i = 1
         /\ name = "replaceProject" =>
              \/ kind = "import" /\ i = 3
              \/ kind = "sync" /\ i = 2
         /\ name = "appendEvent" => i = EventAt(kind)
         /\ name = "putIdempotency" =>
              /\ Idempotent(kind)
              /\ i = Len(RepositoryCalls(kind)) /\ i = EventAt(kind) + 1
<1> USE HandlerLength DEF Idempotent, EventAt
<1>1. CASE kind = "create"
  <2>1. i \in {1, 2, 3, 4, 5}
    BY <1>1
  <2> QED BY <1>1, <2>1 DEF RepositoryCalls
<1>2. CASE kind = "append"
  <2>1. i \in {1, 2, 3, 4}
    BY <1>2
  <2> QED BY <1>2, <2>1 DEF RepositoryCalls
<1>3. CASE kind = "ready"
  <2>1. i \in {1, 2}
    BY <1>3
  <2> QED BY <1>3, <2>1 DEF RepositoryCalls
<1>4. CASE kind = "import"
  <2>1. i \in {1, 2, 3, 4, 5}
    BY <1>4
  <2> QED BY <1>4, <2>1 DEF RepositoryCalls
<1>5. CASE kind = "sync"
  <2>1. i \in {1, 2, 3, 4}
    BY <1>5
  <2> QED BY <1>5, <2>1 DEF RepositoryCalls
<1> QED BY <1>1, <1>2, <1>3, <1>4, <1>5 DEF Kinds

(* Where a request is when it makes a call.                                *)
LEMMA AtCall ==
  ASSUME TypeOK, Begun, NEW a \in Attempts, NEW name, Calls(a, name)
  PROVE  /\ Under(a) /\ attempt[a].key \in Keys
         /\ Op(a) \in Operations /\ Op(a).kind \in Kinds
         /\ attempt[a].at \in 1..Len(Handler(a))
         /\ Handler(a)[attempt[a].at] = name
<1>1. Under(a) /\ Handler(a)[attempt[a].at] = name
  BY DEF Calls, Under
<1>2. attempt[a].key \in Keys /\ attempt[a].at \in 1..Len(Handler(a))
  BY <1>1 DEF Begun, Under
<1> QED BY <1>1, <1>2, UsedAssumption DEF TypeOK, Op, Operations

-----------------------------------------------------------------------------
(* What a call of request a can do to the requests: a moves on by one call *)
(* or stops; those that joined it stop with it; whoever is newly answered  *)
(* with success is answered with r, and nobody is refused unless ref.      *)
Moved(a, r, ref) ==
  /\ attempt' \in [Attempts -> AttemptStates]
  /\ \A b \in Attempts :
       /\ attempt'[b].key = attempt[b].key
       /\ attempt'[b].stored = attempt[b].stored
       /\ attempt[b].state = "idle" => attempt'[b] = attempt[b]
       /\ attempt[b].state # "idle" => attempt'[b].state # "idle"
       /\ attempt'[b].state = "joined" => attempt[b].state = "joined"
       /\ attempt'[b].state \in {"running", "abandoned"} =>
            /\ Under(b)
            /\ b # a => attempt'[b].at = attempt[b].at
            /\ b = a /\ attempt'[a].at # attempt[a].at =>
                 /\ attempt'[a].at = attempt[a].at + 1
                 /\ attempt[a].at # Len(Handler(a))
       /\ attempt'[b].answer = "success" =>
            \/ attempt[b].answer = "success"
               /\ attempt'[b].result = attempt[b].result
            \/ /\ r # None /\ attempt[b].key = attempt[a].key
               /\ attempt'[b].result = r
       /\ attempt'[b].answer = "refused" =>
            \/ attempt[b].answer = "refused"
            \/ ref /\ (b = a \/ attempt[b].state = "joined")

Answered(s, state, answer, r) ==
  [s EXCEPT !.state = state, !.answer = answer, !.result = r]
IsAnswered(x, s, state, answer, r) ==
  /\ x \in AttemptStates
  /\ x.key = s.key /\ x.stored = s.stored /\ x.at = s.at
  /\ x.state = state /\ x.answer = answer /\ x.result = r
Called(s, i, latest) == [s EXCEPT !.at = i, !.latest = latest]
IsCalled(x, s, i) ==
  /\ x \in AttemptStates
  /\ x.key = s.key /\ x.stored = s.stored /\ x.state = s.state
  /\ x.answer = s.answer /\ x.result = s.result /\ x.at = i

(* What is left of a request's progress when it ends, or makes a call.      *)
LEMMA WithAnswer ==
  ASSUME NEW s \in AttemptStates,
         NEW state \in {"abandoned", "over"},
         NEW answer \in {"success", "refused", "error"},
         NEW r \in Attempts \cup {None}
  PROVE  IsAnswered(Answered(s, state, answer, r), s, state, answer, r)
<1> DEFINE x == Answered(s, state, answer, r)
           s1 == [s EXCEPT !.state = state]
           s2 == [s1 EXCEPT !.answer = answer]
<1>1. x = [s2 EXCEPT !.result = r]
  BY Zenon DEF Answered
<1>2. /\ s1 \in AttemptStates /\ s1.key = s.key /\ s1.stored = s.stored
      /\ s1.at = s.at /\ s1.state = state
  BY DEF AttemptStates
<1> HIDE DEF s1
<1>3. /\ s2 \in AttemptStates /\ s2.key = s.key /\ s2.stored = s.stored
      /\ s2.at = s.at /\ s2.state = state /\ s2.answer = answer
  BY <1>2 DEF AttemptStates
<1> HIDE DEF s2, x
<1>4. /\ x \in AttemptStates
      /\ x.key = s.key /\ x.stored = s.stored /\ x.at = s.at
      /\ x.state = state /\ x.answer = answer /\ x.result = r
  BY <1>1, <1>3 DEF AttemptStates
<1> QED BY <1>4, Zenon DEF x, IsAnswered

LEMMA WithCall ==
  ASSUME NEW s \in AttemptStates, NEW i \in 0..5,
         NEW latest \in RevisionIds \cup {None}
  PROVE  IsCalled(Called(s, i, latest), s, i)
<1> DEFINE x == Called(s, i, latest)
           s1 == [s EXCEPT !.at = i]
<1>1. x = [s1 EXCEPT !.latest = latest]
  BY Zenon DEF Called
<1>2. /\ s1 \in AttemptStates /\ s1.key = s.key /\ s1.stored = s.stored
      /\ s1.state = s.state /\ s1.answer = s.answer
      /\ s1.result = s.result /\ s1.at = i
  BY DEF AttemptStates
<1> HIDE DEF s1, x
<1>3. /\ x \in AttemptStates
      /\ x.key = s.key /\ x.stored = s.stored /\ x.state = s.state
      /\ x.answer = s.answer /\ x.result = s.result /\ x.at = i
  BY <1>1, <1>2 DEF AttemptStates
<1> QED BY <1>3, Zenon DEF x, IsCalled

(* An answer goes to the request and to those that joined it in            *)
(* inFlightIdempotency.                                                    *)
LEMMA EndedMoves ==
  ASSUME TypeOK, Begun, NEW a \in Attempts, Under(a),
         NEW answer \in {"success", "refused"},
         NEW r \in Attempts \cup {None}, answer = "success" => r # None,
         attempt' = Ended(a, answer, r)
  PROVE  Moved(a, r, answer = "refused")
<1>1. attempt \in [Attempts -> AttemptStates] /\ attempt[a].state # "idle"
  BY DEF TypeOK, Under
<1>2. ASSUME NEW b \in Attempts, attempt'[b] # attempt[b] \/ b = a
      PROVE  /\ attempt'[b] = Answered(attempt[b], "over", answer, r)
             /\ attempt[b].key = attempt[a].key
             /\ attempt[b].state # "idle"
             /\ b = a \/ attempt[b].state = "joined"
  BY <1>1, <1>2 DEF Ended, SameRun, Answered
<1>3. ASSUME NEW b \in Attempts, attempt'[b] # attempt[b] \/ b = a
      PROVE  /\ attempt'[b] \in AttemptStates
             /\ attempt'[b].key = attempt[b].key
             /\ attempt'[b].stored = attempt[b].stored
             /\ attempt'[b].state = "over" /\ attempt'[b].answer = answer
             /\ attempt'[b].result = r
  <2>1. attempt[b] \in AttemptStates
    BY <1>1
  <2>2. IsAnswered(attempt'[b], attempt[b], "over", answer, r)
    BY <1>2, <1>3, <2>1, WithAnswer
  <2> QED BY <2>2 DEF IsAnswered
<1>4. attempt' \in [Attempts -> AttemptStates]
  <2>1. attempt' = [b \in Attempts |-> attempt'[b]]
    BY DEF Ended
  <2>2. \A b \in Attempts : attempt'[b] \in AttemptStates
    BY <1>1, <1>3
  <2> QED BY <2>1, <2>2, Zenon
<1> QED BY <1>2, <1>3, <1>4 DEF Moved, Under

(* A call nobody waits for any more moves nobody else.                     *)
LEMMA DroppedMoves ==
  ASSUME TypeOK, Begun, NEW a \in Attempts, Under(a),
         attempt' = Dropped(a), NEW r, NEW ref
  PROVE  Moved(a, r, ref)
<1> DEFINE over == [attempt[a] EXCEPT !.state = "over"]
<1>1. /\ over \in AttemptStates /\ over.key = attempt[a].key
      /\ over.stored = attempt[a].stored /\ over.state = "over"
      /\ over.answer = attempt[a].answer /\ over.result = attempt[a].result
      /\ attempt[a].state # "idle"
  BY DEF TypeOK, AttemptStates, Under
<1>2. attempt' = [attempt EXCEPT ![a] = over]
  BY DEF Dropped
<1>3. /\ attempt' \in [Attempts -> AttemptStates]
      /\ attempt'[a] = over
      /\ \A b \in Attempts : b # a => attempt'[b] = attempt[b]
  BY <1>1, <1>2 DEF TypeOK
<1> HIDE DEF over
<1> QED BY <1>1, <1>3 DEF Moved, Under

(* A handler that throws refuses its request and those that joined it.     *)
LEMMA RefusedMoves ==
  ASSUME TypeOK, Begun, NEW a \in Attempts, Under(a), Refused(a)
  PROVE  Moved(a, None, TRUE)
<1>1. CASE attempt[a].state = "abandoned"
  BY <1>1, DroppedMoves DEF Refused
<1>2. ASSUME attempt' = Ended(a, "refused", None) PROVE Moved(a, None, TRUE)
  <2>1. Moved(a, None, "refused" = "refused")
    BY <1>2, EndedMoves
  <2> QED BY <2>1
<1> QED BY <1>1, <1>2 DEF Refused

(* A handler that returns answers its request and those that joined it.    *)
LEMMA AnswersMoves ==
  ASSUME TypeOK, Begun, NEW a \in Attempts, Under(a), NEW r \in Attempts,
         Answers(a, r)
  PROVE  Moved(a, r, FALSE)
<1>1. CASE attempt[a].state = "abandoned"
  BY <1>1, DroppedMoves DEF Answers
<1>2. ASSUME attempt' = Ended(a, "success", r) PROVE Moved(a, r, FALSE)
  <2>1. r # None
    BY NamesAssumption
  <2>2. Moved(a, r, "success" = "refused")
    BY <1>2, <2>1, EndedMoves
  <2> QED BY <2>2
<1> QED BY <1>1, <1>2 DEF Answers

(* The request goes on to its next call.                                   *)
LEMMA AdvanceMoves ==
  ASSUME TypeOK, Begun, NEW a \in Attempts, Under(a),
         attempt[a].at # Len(Handler(a)),
         NEW latest \in RevisionIds \cup {None},
         attempt' = [attempt EXCEPT ![a].at = @ + 1, ![a].latest = latest]
  PROVE  Moved(a, None, FALSE)
<1> DEFINE next == Called(attempt[a], attempt[a].at + 1, latest)
<1>1. attempt[a].at \in 1..Len(Handler(a)) /\ attempt[a].key \in Keys
  BY DEF Begun, Under
<1>2. Op(a).kind \in Kinds
  BY <1>1, UsedAssumption DEF Op, TypeOK, Operations
<1>3. attempt[a].at + 1 \in 0..5
  <2>1. Len(Handler(a)) \in 1..5
    BY <1>2, HandlerLength DEF Handler
  <2>2. \A n \in 1..5 : \A i \in 1..n : i # n => i + 1 \in 0..5
    OBVIOUS
  <2> QED BY <1>1, <2>1, <2>2
<1>4. /\ next \in AttemptStates /\ next.key = attempt[a].key
      /\ next.stored = attempt[a].stored /\ next.state = attempt[a].state
      /\ next.answer = attempt[a].answer /\ next.result = attempt[a].result
      /\ next.at = attempt[a].at + 1
  <2>1. attempt[a] \in AttemptStates
    BY DEF TypeOK
  <2>2. IsCalled(next, attempt[a], attempt[a].at + 1)
    BY <1>3, <2>1, WithCall
  <2> HIDE DEF next
  <2> QED BY <2>2 DEF IsCalled
<1>5. attempt' = [attempt EXCEPT ![a] = next]
  BY DEF TypeOK, AttemptStates, Called
<1>6. /\ attempt' \in [Attempts -> AttemptStates]
      /\ attempt'[a] = next
      /\ \A b \in Attempts : b # a => attempt'[b] = attempt[b]
  BY <1>4, <1>5 DEF TypeOK
<1> HIDE DEF next
<1> QED BY <1>4, <1>6 DEF Moved, Under

(* After a call the handler returns, if it was its last, or goes on.       *)
LEMMA ContinuesMoves ==
  ASSUME TypeOK, Begun, NEW a \in Attempts, Under(a), Continues(a)
  PROVE  \/ attempt[a].at = Len(Handler(a)) /\ Moved(a, a, FALSE)
         \/ attempt[a].at # Len(Handler(a)) /\ Moved(a, None, FALSE)
<1>1. ASSUME attempt' = Dropped(a)
      PROVE  Moved(a, a, FALSE) /\ Moved(a, None, FALSE)
  BY <1>1, DroppedMoves
<1>2. ASSUME attempt[a].at = Len(Handler(a)), Answers(a, a)
      PROVE  Moved(a, a, FALSE)
  BY <1>2, AnswersMoves
<1>3. ASSUME attempt[a].at # Len(Handler(a)),
             attempt' = [attempt EXCEPT ![a].at = @ + 1]
      PROVE  Moved(a, None, FALSE)
  <2>1. /\ attempt[a].latest \in RevisionIds \cup {None}
        /\ attempt' = [attempt EXCEPT ![a].at = @ + 1,
                                      ![a].latest = attempt[a].latest]
    BY <1>3 DEF TypeOK, AttemptStates
  <2> QED BY <2>1, <1>3, AdvanceMoves
<1> QED BY <1>1, <1>2, <1>3 DEF Continues

-----------------------------------------------------------------------------
(* What a repository call of request a may do to the store, so that the    *)
(* invariant goes on to hold.                                              *)
StoreKept(a, r, ref) ==
  /\ operation' = operation
  /\ exists' \in BOOLEAN /\ ready' \in BOOLEAN
  /\ history' \in Seq(RevisionIds)
  /\ ~exists' => history' = <<>> /\ ~ready'
  /\ applied \subseteq applied' /\ applied' \subseteq applied \cup {a}
  /\ audited \subseteq audited' /\ events \subseteq events'
  /\ audited' \subseteq applied' /\ events' \subseteq applied'
  /\ responses' \in [Keys -> Attempts \cup {None}]
  /\ \A k \in Keys :
       \/ responses'[k] = responses[k]
       \/ responses[k] = None /\ k = attempt[a].key /\ responses'[k] = a
  /\ r # None => r = responses'[attempt[a].key]
  /\ ref => ~(attempt[a].stored /\ Idempotent(Op(a).kind))

(* The request has done what the call it goes on from was for.             *)
CallDone(a) ==
  /\ attempt[a].at >= MutatesAt(Op(a).kind) => a \in applied'
  /\ attempt[a].at >= EventAt(Op(a).kind) => a \in events'
  /\ Op(a).kind = "create" /\ attempt[a].at >= 3 => a \in audited'
  /\ ~(attempt[a].stored /\ Idempotent(Op(a).kind))

(* What is applied or answered for from now on.                            *)
NewlyStored(a) ==
  /\ a \in applied' /\ DesignCommand(a) => responses'[attempt[a].key] = a
  /\ responses'[attempt[a].key] = a =>
       /\ a \in applied'
       /\ Idempotent(Op(a).kind) => a \in events'
       /\ Op(a).kind = "create" => a \in audited'

(* A step that moves the requests and changes the store in these ways      *)
(* keeps the invariant, whichever repository call it is.                   *)
LEMMA StepKeeps ==
  ASSUME Inv, NEW a \in Attempts, Under(a), NEW r, NEW ref \in BOOLEAN,
         Moved(a, r, ref), StoreKept(a, r, ref),
         /\ attempt'[a].state \in {"running", "abandoned"}
         /\ attempt'[a].at # attempt[a].at
         => CallDone(a),
         NewlyStored(a)
  PROVE  Inv'
<1> USE DEF Inv
<1>1. /\ attempt[a].key \in Keys /\ attempt[a].state # "idle"
      /\ \A b \in Attempts :
           /\ Op(b)' = Op(b)
           /\ attempt'[b].key = attempt[b].key
           /\ Handler(b)' = Handler(b)
           /\ DesignCommand(b)' = DesignCommand(b)
  BY DEF Under, Begun, Moved, StoreKept, Op, Handler, DesignCommand,
         RepositoryCalls
<1>2. \A b \in Attempts :
        attempt[b].state # "idle" =>
          /\ attempt[b].key \in Keys
          /\ Op(b).kind \in Kinds
          /\ Len(Handler(b)) \in 1..5
          /\ DOMAIN Handler(b) = 1..Len(Handler(b))
  BY UsedAssumption, HandlerLength
     DEF Begun, Op, TypeOK, Operations, Handler
<1>3. Begun'
  <2> SUFFICES ASSUME NEW b \in Attempts
               PROVE  /\ attempt'[b].state = "idle" =>
                           attempt'[b] = NotStarted /\ b \notin applied'
                      /\ attempt'[b].state # "idle" =>
                           attempt'[b].key \in Keys
                      /\ attempt'[b].state \in {"running", "abandoned"} =>
                           attempt'[b].at \in 1..Len(Handler(b))
    BY <1>1 DEF Begun, Under
  <2>1. attempt'[b].state = "idle" =>
          attempt'[b] = NotStarted /\ b \notin applied'
    BY <1>1 DEF Begun, Moved, StoreKept
  <2>2. attempt'[b].state # "idle" => attempt'[b].key \in Keys
    BY <1>1 DEF Begun, Moved
  <2>3. ASSUME attempt'[b].state \in {"running", "abandoned"}
        PROVE  attempt'[b].at \in 1..Len(Handler(b))
    <3>1. Under(b) /\ attempt[b].at \in 1..Len(Handler(b))
      BY <2>3 DEF Moved, Begun, Under
    <3>2. Len(Handler(b)) \in 1..5
      BY <1>2, <3>1 DEF Under
    <3>3. \/ attempt'[b].at = attempt[b].at
          \/ /\ attempt'[b].at = attempt[b].at + 1
             /\ attempt[b].at # Len(Handler(b))
      BY <2>3 DEF Moved
    <3> QED BY <3>1, <3>2, <3>3
  <2> QED BY <2>1, <2>2, <2>3
<1>4. TypeOK'
  <2>1. \A b \in Attempts : attempt'[b].state = "running" =>
          attempt'[b].at \in DOMAIN Handler(b)'
    BY <1>1, <1>2, <1>3 DEF Begun, Under, Moved
  <2>2. \A b \in Attempts : attempt'[b].state = "running" =>
          attempt'[b].at \in
            DOMAIN RepositoryCalls(operation'[attempt'[b].key].kind)
    BY <2>1, <1>1 DEF Handler, Op
  <2>3. /\ applied' \subseteq Attempts
        /\ attempt' \in [Attempts -> AttemptStates]
        /\ operation' \in [Keys -> Operations]
    BY DEF TypeOK, Moved, StoreKept
  <2> QED BY <2>2, <2>3 DEF TypeOK, StoreKept, RepositoryCalls
<1>5. Progress'
  <2> SUFFICES ASSUME NEW b \in Attempts,
                      attempt'[b].state \in {"running", "abandoned"}
               PROVE  /\ attempt'[b].at > MutatesAt(Op(b).kind) =>
                           b \in applied'
                      /\ attempt'[b].at > EventAt(Op(b).kind) =>
                           b \in events'
                      /\ Op(b).kind = "create" /\ attempt'[b].at > 3 =>
                           b \in audited'
    BY <1>1 DEF Progress, Under
  <2>1. Under(b) /\ attempt[b].at \in Nat
    BY DEF Moved, TypeOK, AttemptStates
  <2>2. ASSUME attempt'[b].at = attempt[b].at
        PROVE  /\ attempt'[b].at > MutatesAt(Op(b).kind) => b \in applied'
               /\ attempt'[b].at > EventAt(Op(b).kind) => b \in events'
               /\ Op(b).kind = "create" /\ attempt'[b].at > 3 =>
                    b \in audited'
    BY <2>1, <2>2 DEF Progress, StoreKept
  <2>3. ASSUME b = a, attempt'[b].at # attempt[b].at
        PROVE  /\ attempt'[b].at > MutatesAt(Op(b).kind) => b \in applied'
               /\ attempt'[b].at > EventAt(Op(b).kind) => b \in events'
               /\ Op(b).kind = "create" /\ attempt'[b].at > 3 =>
                    b \in audited'
    <3>1. attempt'[b].at = attempt[b].at + 1 /\ CallDone(b)
      BY <2>3 DEF Moved
    <3>2. Op(b).kind \in Kinds
      BY <1>2, <2>1 DEF Under
    <3>3. MutatesAt(Op(b).kind) \in Nat /\ EventAt(Op(b).kind) \in Nat
      BY <3>2 DEF MutatesAt, EventAt, Kinds
    <3> QED BY <2>1, <3>1, <3>3 DEF CallDone
  <2> QED BY <2>2, <2>3 DEF Moved
<1>6. StoredIsApplied'
  BY <1>1 DEF StoredIsApplied, StoreKept, NewlyStored, Moved
<1>7. AppliedIsStored'
  <2> SUFFICES ASSUME NEW b \in applied', DesignCommand(b)
               PROVE  responses'[attempt[b].key] = b
    BY <1>1 DEF AppliedIsStored, StoreKept, TypeOK
  <2>1. CASE b = a
    BY <2>1 DEF NewlyStored
  <2>2. ASSUME b \in applied PROVE responses'[attempt[b].key] = b
    <3>1. b \in Attempts /\ attempt[b].key \in Keys
      BY <2>2 DEF TypeOK, Begun
    <3>2. responses[attempt[b].key] = b
      BY <2>2 DEF AppliedIsStored
    <3> QED BY <3>1, <3>2, NamesAssumption DEF StoreKept
  <2> QED BY <2>1, <2>2 DEF StoreKept
<1>8. \A k \in Keys :
        responses[k] # None => responses'[k] = responses[k]
  BY DEF StoreKept
<1>9. AnsweredFromStore'
  <2> SUFFICES ASSUME NEW b \in Attempts, attempt'[b].answer = "success"
               PROVE  /\ attempt'[b].state # "idle"
                      /\ responses'[attempt[b].key] # None
                      /\ attempt'[b].result = responses'[attempt[b].key]
    BY <1>1 DEF AnsweredFromStore
  <2>1. ASSUME attempt[b].answer = "success",
               attempt'[b].result = attempt[b].result
        PROVE  /\ attempt'[b].state # "idle"
               /\ responses'[attempt[b].key] # None
               /\ attempt'[b].result = responses'[attempt[b].key]
    BY <2>1, <1>8 DEF AnsweredFromStore, Begun, Moved
  <2>2. ASSUME r # None, attempt[b].key = attempt[a].key,
               attempt'[b].result = r
        PROVE  /\ attempt'[b].state # "idle"
               /\ responses'[attempt[b].key] # None
               /\ attempt'[b].result = responses'[attempt[b].key]
    <3>1. attempt[b].state # "idle"
      BY <2>2, <1>1, NamesAssumption DEF Begun, NotStarted
    <3> QED BY <2>2, <3>1 DEF Moved, StoreKept
  <2> QED BY <2>1, <2>2 DEF Moved
<1>10. StoredEndsAtOnce'
  <2> SUFFICES ASSUME NEW b \in Attempts, attempt[b].stored
               PROVE  /\ attempt'[b].state # "idle"
                      /\ responses'[attempt[b].key] # None
                      /\ attempt'[b].state # "joined"
                      /\ /\ Idempotent(Op(b).kind)
                         /\ attempt'[b].state \in {"running", "abandoned"}
                         => attempt'[b].at = 1
    BY <1>1 DEF StoredEndsAtOnce, Under, Moved
  <2>1. /\ attempt[b].state # "idle" /\ attempt[b].state # "joined"
        /\ attempt[b].key \in Keys
        /\ responses[attempt[b].key] # None
        /\ Idempotent(Op(b).kind) /\ Under(b) => attempt[b].at = 1
    BY DEF StoredEndsAtOnce, Begun
  <2>2. /\ attempt'[b].state # "idle" /\ attempt'[b].state # "joined"
        /\ responses'[attempt[b].key] # None
    BY <2>1, <1>8 DEF Moved
  <2>3. ASSUME Idempotent(Op(b).kind),
               attempt'[b].state \in {"running", "abandoned"}
        PROVE  attempt'[b].at = 1
    <3>1. b = a => attempt'[b].at = attempt[b].at
      BY <2>3 DEF CallDone
    <3> QED BY <2>1, <2>3, <3>1 DEF Moved
  <2> QED BY <2>2, <2>3
<1>11. ResponseMeansEvent'
  <2> SUFFICES ASSUME NEW k \in Keys, Idempotent(operation[k].kind),
                      responses'[k] # None
               PROVE  /\ responses'[k] \in events'
                      /\ operation[k].kind = "create" =>
                           responses'[k] \in audited'
    BY DEF ResponseMeansEvent, StoreKept, Idempotent
  <2>1. CASE responses'[k] = responses[k]
    BY <2>1 DEF ResponseMeansEvent, StoreKept
  <2>2. ASSUME k = attempt[a].key, responses'[k] = a
        PROVE  /\ responses'[k] \in events'
               /\ operation[k].kind = "create" => responses'[k] \in audited'
    BY <2>2 DEF NewlyStored, Op
  <2> QED BY <2>1, <2>2 DEF StoreKept
<1>12. RetryNotRefused'
  <2> SUFFICES ASSUME NEW b \in Attempts, attempt[b].stored,
                      Idempotent(Op(b).kind),
                      attempt'[b].answer = "refused"
               PROVE  FALSE
    BY <1>1 DEF RetryNotRefused, Moved
  <2>1. attempt[b].answer # "refused" /\ attempt[b].state # "joined"
    BY DEF RetryNotRefused, StoredEndsAtOnce
  <2>2. ref /\ b = a
    BY <2>1 DEF Moved
  <2> QED BY <2>2 DEF StoreKept
<1> QED
  BY <1>3, <1>4, <1>5, <1>6, <1>7, <1>9, <1>10, <1>11, <1>12

-----------------------------------------------------------------------------
(* The store is as it was.                                                 *)
LEMMA StoreSame ==
  ASSUME Inv, NEW a \in Attempts, Under(a), UNCHANGED <<store, operation>>,
         NEW r, NEW ref, r # None => r = responses[attempt[a].key],
         ref => ~(attempt[a].stored /\ Idempotent(Op(a).kind))
  PROVE  StoreKept(a, r, ref) /\ NewlyStored(a)
<1>1. attempt[a].key \in Keys
  BY DEF Inv, Begun, Under
<1>2. StoreKept(a, r, ref)
  BY DEF Inv, TypeOK, StoreKept, store
<1>3. a \in applied /\ DesignCommand(a) => responses[attempt[a].key] = a
  BY DEF Inv, AppliedIsStored
<1>4. responses[attempt[a].key] = a =>
        /\ a \in applied
        /\ Idempotent(Op(a).kind) => a \in events
        /\ Op(a).kind = "create" => a \in audited
  BY <1>1, NamesAssumption
     DEF Inv, StoredIsApplied, ResponseMeansEvent, Op, Idempotent
<1> QED BY <1>2, <1>3, <1>4 DEF NewlyStored, store

(* A stored response ends an idempotent() operation at its first call.     *)
LEMMA NotStoredLater ==
  ASSUME Inv, NEW a \in Attempts, Under(a),
         attempt[a].at # 1 \/ responses[attempt[a].key] = None
  PROVE  ~(attempt[a].stored /\ Idempotent(Op(a).kind))
BY DEF Inv, StoredEndsAtOnce

(* Who is answered or refused makes no further call.                       *)
LEMMA AnswersStop ==
  ASSUME TypeOK, NEW a \in Attempts, Under(a), NEW r,
         Answers(a, r) \/ Refused(a)
  PROVE  attempt'[a].state \notin {"running", "abandoned"}
<1>1. ASSUME attempt' = Dropped(a)
      PROVE  attempt'[a].state \notin {"running", "abandoned"}
  BY <1>1 DEF Dropped, TypeOK, AttemptStates
<1>2. ASSUME NEW answer, NEW result, attempt' = Ended(a, answer, result)
      PROVE  attempt'[a].state \notin {"running", "abandoned"}
  BY <1>2 DEF Ended, TypeOK, AttemptStates
<1> QED BY <1>1, <1>2 DEF Answers, Refused

(* The first look of idempotent(): a stored response is the answer.        *)
LEMMA GetIdempotencyKeeps ==
  ASSUME Inv, NEW a \in Attempts, GetIdempotency(a) PROVE Inv'
<1> DEFINE prior == responses[attempt[a].key]
<1>1. /\ Under(a) /\ attempt[a].key \in Keys /\ Op(a).kind \in Kinds
      /\ Idempotent(Op(a).kind) /\ attempt[a].at = 1
  BY AtCall, CallPlaces DEF Inv, GetIdempotency, Handler
<1>2. UNCHANGED <<store, operation>>
  BY DEF GetIdempotency
<1>3. ASSUME prior # None, Answers(a, prior) PROVE Inv'
  <2>1. prior \in Attempts
    BY <1>1, <1>3 DEF Inv, TypeOK
  <2>2. Moved(a, prior, FALSE)
    BY <1>1, <1>3, <2>1, AnswersMoves DEF Inv
  <2>3. StoreKept(a, prior, FALSE) /\ NewlyStored(a)
    BY <1>1, <1>2, StoreSame
  <2>4. attempt'[a].state \notin {"running", "abandoned"}
    BY <1>1, <1>3, AnswersStop DEF Inv
  <2> QED BY <1>1, <2>2, <2>3, <2>4, StepKeeps
<1>4. ASSUME prior = None, Continues(a) PROVE Inv'
  <2>1. attempt[a].at # Len(Handler(a))
    BY <1>1, HandlerLength DEF Handler, Idempotent
  <2>2. Moved(a, None, FALSE)
    BY <1>1, <1>4, <2>1, ContinuesMoves DEF Inv
  <2>3. StoreKept(a, None, FALSE) /\ NewlyStored(a)
    BY <1>1, <1>2, StoreSame
  <2>4. CallDone(a)
    <3>1. ~(attempt[a].stored /\ Idempotent(Op(a).kind))
      BY <1>1, <1>4, NotStoredLater
    <3>2. MutatesAt(Op(a).kind) \in {2, 3} /\ EventAt(Op(a).kind) \in {3, 4}
      BY <1>1 DEF Idempotent, MutatesAt, EventAt
    <3> QED BY <1>1, <3>1, <3>2 DEF CallDone
  <2> QED BY <1>1, <2>2, <2>3, <2>4, StepKeeps
<1> QED BY <1>3, <1>4 DEF GetIdempotency

(* The calls that the handlers go on from.                                 *)
LEMMA NotLastCall ==
  ASSUME NEW a \in Attempts,
         \/ Op(a).kind = "create" /\ attempt[a].at \in {2, 3}
         \/ Op(a).kind = "append" /\ attempt[a].at \in {1, 2, 3}
         \/ Op(a).kind = "ready" /\ attempt[a].at = 1
         \/ Op(a).kind = "import" /\ attempt[a].at \in {2, 3, 4}
         \/ Op(a).kind = "sync" /\ attempt[a].at \in {2, 3}
  PROVE  attempt[a].at # Len(Handler(a))
<1>1. Op(a).kind \in Kinds
  BY DEF Kinds
<1>2. /\ Op(a).kind = "create" => Len(Handler(a)) = 5
      /\ Op(a).kind = "append" => Len(Handler(a)) = 4
      /\ Op(a).kind = "ready" => Len(Handler(a)) = 2
      /\ Op(a).kind = "import" => Len(Handler(a)) = 5
      /\ Op(a).kind = "sync" => Len(Handler(a)) = 4
  BY <1>1, HandlerLength DEF Handler
<1>3. ASSUME NEW i \in {1, 2, 3}
      PROVE  i # 4 /\ i # 5
  OBVIOUS
<1>4. CASE Op(a).kind = "create" /\ attempt[a].at \in {2, 3}
  BY <1>2, <1>3, <1>4
<1>5. CASE Op(a).kind = "append" /\ attempt[a].at \in {1, 2, 3}
  BY <1>2, <1>3, <1>5
<1>6. CASE Op(a).kind = "ready" /\ attempt[a].at = 1
  BY <1>2, <1>6
<1>7. CASE Op(a).kind = "import" /\ attempt[a].at \in {2, 3, 4}
  BY <1>2, <1>7
<1>8. CASE Op(a).kind = "sync" /\ attempt[a].at \in {2, 3}
  BY <1>2, <1>3, <1>8
<1> QED BY <1>4, <1>5, <1>6, <1>7, <1>8

(* createProject(): a duplicate is refused, and changes nothing.           *)
LEMMA CreateProjectKeeps ==
  ASSUME Inv, NEW a \in Attempts, CreateProject(a) PROVE Inv'
<1>1. /\ Under(a) /\ attempt[a].key \in Keys
      /\ Op(a).kind = "create" /\ attempt[a].at = 2
  BY AtCall, CallPlaces DEF Inv, CreateProject, Handler
<1>2. ~(attempt[a].stored /\ Idempotent(Op(a).kind))
  BY <1>1, NotStoredLater
<1>3. ASSUME exists' = TRUE, applied' = applied \cup {a}, Continues(a),
             UNCHANGED <<history, ready, responses, audited, events,
                         operation>>
      PROVE  Inv'
  <2>1. attempt[a].at # Len(Handler(a))
    BY <1>1, NotLastCall
  <2>2. Moved(a, None, FALSE)
    BY <1>1, <1>3, <2>1, ContinuesMoves DEF Inv
  <2>3. StoreKept(a, None, FALSE)
    BY <1>3 DEF StoreKept, Inv, TypeOK
  <2>4. CallDone(a)
    BY <1>1, <1>2, <1>3 DEF CallDone, MutatesAt, EventAt
  <2>5. NewlyStored(a)
    <3>1. ~DesignCommand(a)
      BY <1>1 DEF DesignCommand
    <3>2. responses[attempt[a].key] = a => a \in events /\ a \in audited
      BY <1>1, NamesAssumption DEF Inv, ResponseMeansEvent, Op, Idempotent
    <3> QED BY <1>3, <3>1, <3>2 DEF NewlyStored
  <2> QED BY <1>1, <2>2, <2>3, <2>4, <2>5, StepKeeps
<1>4. ASSUME Refused(a), UNCHANGED <<store, operation>> PROVE Inv'
  <2>1. Moved(a, None, TRUE) /\ StoreKept(a, None, TRUE) /\ NewlyStored(a)
    BY <1>1, <1>2, <1>4, RefusedMoves, StoreSame DEF Inv
  <2>2. attempt'[a].state \notin {"running", "abandoned"}
    BY <1>1, <1>4, AnswersStop DEF Inv
  <2> QED BY <1>1, <2>1, <2>2, StepKeeps
<1> QED BY <1>3, <1>4 DEF CreateProject, store

(* The audit record of a creation follows its createProject().             *)
LEMMA AppendAuditKeeps ==
  ASSUME Inv, NEW a \in Attempts, AppendAudit(a) PROVE Inv'
<1>1. /\ Under(a) /\ attempt[a].key \in Keys
      /\ Op(a).kind = "create" /\ attempt[a].at = 3
  BY AtCall, CallPlaces DEF Inv, AppendAudit, Handler
<1>2. ~(attempt[a].stored /\ Idempotent(Op(a).kind))
  BY <1>1, NotStoredLater
<1>3. attempt[a].at # Len(Handler(a))
  BY <1>1, NotLastCall
<1>4. Moved(a, None, FALSE)
  BY <1>1, <1>3, ContinuesMoves DEF Inv, AppendAudit
<1>5. a \in applied
  BY <1>1 DEF Inv, Progress, MutatesAt
<1>6. StoreKept(a, None, FALSE)
  BY <1>5 DEF StoreKept, Inv, TypeOK, AppendAudit
<1>7. CallDone(a)
  BY <1>1, <1>2, <1>5 DEF CallDone, MutatesAt, EventAt, AppendAudit
<1>8. NewlyStored(a)
  <2>1. ~DesignCommand(a)
    BY <1>1 DEF DesignCommand
  <2>2. responses[attempt[a].key] = a => a \in events
    BY <1>1, NamesAssumption DEF Inv, ResponseMeansEvent, Op, Idempotent
  <2> QED BY <1>5, <2>1, <2>2 DEF NewlyStored, AppendAudit
<1> QED BY <1>1, <1>4, <1>6, <1>7, <1>8, StepKeeps

(* getLatestRevision(): an import stops here if its client is behind.      *)
LEMMA GetLatestKeeps ==
  ASSUME Inv, NEW a \in Attempts, GetLatest(a) PROVE Inv'
<1>1. /\ Under(a) /\ attempt[a].key \in Keys
      /\ \/ Op(a).kind = "append" /\ attempt[a].at = 1
         \/ Op(a).kind = "import" /\ attempt[a].at = 2
  BY AtCall, CallPlaces DEF Inv, GetLatest, Handler
<1>2. ~(attempt[a].stored /\ Idempotent(Op(a).kind))
  BY <1>1, NotStoredLater DEF Idempotent
<1>3. UNCHANGED <<store, operation>>
  BY DEF GetLatest
<1>4. ASSUME Refused(a) PROVE Inv'
  <2>1. Moved(a, None, TRUE) /\ StoreKept(a, None, TRUE) /\ NewlyStored(a)
    BY <1>1, <1>2, <1>3, <1>4, RefusedMoves, StoreSame DEF Inv
  <2>2. attempt'[a].state \notin {"running", "abandoned"}
    BY <1>1, <1>4, AnswersStop DEF Inv
  <2> QED BY <1>1, <2>1, <2>2, StepKeeps
<1>5. ASSUME attempt' = [attempt EXCEPT ![a].at = @ + 1,
                                        ![a].latest = LatestRevision]
      PROVE  Inv'
  <2>1. attempt[a].at # Len(Handler(a))
    BY <1>1, NotLastCall
  <2>2. LatestRevision \in RevisionIds \cup {None}
    <3>1. history \in Seq(RevisionIds)
      BY DEF Inv, TypeOK
    <3>2. history # <<>> => history[Len(history)] \in RevisionIds
      BY <3>1
    <3> QED BY <3>2 DEF LatestRevision
  <2>3. Moved(a, None, FALSE)
    BY <1>1, <1>5, <2>1, <2>2, AdvanceMoves DEF Inv
  <2>4. StoreKept(a, None, FALSE) /\ NewlyStored(a)
    BY <1>1, <1>3, StoreSame
  <2>5. CallDone(a)
    BY <1>1, <1>2 DEF CallDone, MutatesAt, EventAt
  <2> QED BY <1>1, <2>3, <2>4, <2>5, StepKeeps
<1> QED BY <1>4, <1>5 DEF GetLatest

(* getDesignReviewState(), read before the commit that checks it again.    *)
LEMMA GetReviewStateKeeps ==
  ASSUME Inv, NEW a \in Attempts, GetReviewState(a) PROVE Inv'
<1>1. /\ Under(a) /\ attempt[a].key \in Keys
      /\ Op(a).kind = "append" /\ attempt[a].at = 2
  BY AtCall, CallPlaces DEF Inv, GetReviewState, Handler
<1>2. ~(attempt[a].stored /\ Idempotent(Op(a).kind))
  BY <1>1, NotStoredLater
<1>3. UNCHANGED <<store, operation>>
  BY DEF GetReviewState
<1>4. ASSUME Refused(a) PROVE Inv'
  <2>1. Moved(a, None, TRUE) /\ StoreKept(a, None, TRUE) /\ NewlyStored(a)
    BY <1>1, <1>2, <1>3, <1>4, RefusedMoves, StoreSame DEF Inv
  <2>2. attempt'[a].state \notin {"running", "abandoned"}
    BY <1>1, <1>4, AnswersStop DEF Inv
  <2> QED BY <1>1, <2>1, <2>2, StepKeeps
<1>5. ASSUME Continues(a) PROVE Inv'
  <2>1. attempt[a].at # Len(Handler(a))
    BY <1>1, NotLastCall
  <2>2. Moved(a, None, FALSE)
    BY <1>1, <1>5, <2>1, ContinuesMoves DEF Inv
  <2>3. StoreKept(a, None, FALSE) /\ NewlyStored(a)
    BY <1>1, <1>3, StoreSame
  <2>4. CallDone(a)
    BY <1>1, <1>2 DEF CallDone, MutatesAt, EventAt
  <2> QED BY <1>1, <2>2, <2>3, <2>4, StepKeeps
<1> QED BY <1>4, <1>5 DEF GetReviewState

(* The three outcomes of commitDesignRevision().                           *)
LEMMA AtCommit ==
  ASSUME Inv, NEW a \in Attempts, Calls(a, "commit")
  PROVE  /\ Under(a) /\ attempt[a].key \in Keys
         /\ \/ Op(a).kind = "append" /\ attempt[a].at = 3
            \/ Op(a).kind = "ready" /\ attempt[a].at = 1
         /\ ~Idempotent(Op(a).kind)
<1>1. /\ Under(a) /\ attempt[a].key \in Keys
      /\ \/ Op(a).kind = "append" /\ attempt[a].at = 3
         \/ Op(a).kind = "ready" /\ attempt[a].at = 1
  BY AtCall, CallPlaces DEF Inv, Handler
<1> QED BY <1>1 DEF Idempotent

(* A stored response is the answer, and nothing is written.                *)
LEMMA CommitReplayedKeeps ==
  ASSUME Inv, NEW a \in Attempts, CommitReplayed(a) PROVE Inv'
<1>1. /\ Under(a) /\ attempt[a].key \in Keys /\ ~Idempotent(Op(a).kind)
      /\ Answers(a, Replays(a)) /\ UNCHANGED <<store, operation>>
  BY AtCommit DEF CommitReplayed
<1>2. Replays(a) \in Attempts
  BY <1>1 DEF Inv, TypeOK, Replays, NotStored, CommitReplayed
<1>3. Moved(a, Replays(a), FALSE)
  BY <1>1, <1>2, AnswersMoves DEF Inv
<1>4. StoreKept(a, Replays(a), FALSE) /\ NewlyStored(a)
  BY <1>1, StoreSame DEF Replays
<1>5. attempt'[a].state \notin {"running", "abandoned"}
  BY <1>1, AnswersStop DEF Inv
<1> QED BY <1>1, <1>3, <1>4, <1>5, StepKeeps

(* A command that no longer fits is refused, and nothing is written.       *)
LEMMA CommitRefusedKeeps ==
  ASSUME Inv, NEW a \in Attempts, CommitRefused(a) PROVE Inv'
<1>1. /\ Under(a) /\ attempt[a].key \in Keys /\ ~Idempotent(Op(a).kind)
      /\ Refused(a) /\ UNCHANGED <<store, operation>>
  BY AtCommit DEF CommitRefused
<1>2. Moved(a, None, TRUE) /\ StoreKept(a, None, TRUE) /\ NewlyStored(a)
  BY <1>1, RefusedMoves, StoreSame DEF Inv
<1>3. attempt'[a].state \notin {"running", "abandoned"}
  BY <1>1, AnswersStop DEF Inv
<1> QED BY <1>1, <1>2, <1>3, StepKeeps

(* The revision or the baseline is written with its response.              *)
LEMMA CommitKeeps ==
  ASSUME Inv, NEW a \in Attempts, Commit(a) PROVE Inv'
<1>1. /\ Under(a) /\ attempt[a].key \in Keys
      /\ \/ Op(a).kind = "append" /\ attempt[a].at = 3
         \/ Op(a).kind = "ready" /\ attempt[a].at = 1
      /\ ~Idempotent(Op(a).kind)
  BY AtCommit DEF Commit
<1>2. attempt[a].at # Len(Handler(a))
  BY <1>1, NotLastCall
<1>3. Moved(a, None, FALSE)
  BY <1>1, <1>2, ContinuesMoves DEF Inv, Commit
<1>4. /\ responses' = [responses EXCEPT ![attempt[a].key] = a]
      /\ responses[attempt[a].key] = None
      /\ applied' = applied \cup {a}
      /\ UNCHANGED <<exists, audited, events, operation>>
      /\ exists
  BY DEF Commit, NotStored, Fits
<1>5. /\ history' \in Seq(RevisionIds)
      /\ ready' \in BOOLEAN
  <2>1. a \in RevisionIds
    BY DEF RevisionIds
  <2>2. history \in Seq(RevisionIds) /\ ready \in BOOLEAN
    BY DEF Inv, TypeOK
  <2>3. history' \in Seq(RevisionIds)
    BY <2>1, <2>2 DEF Commit
  <2> QED BY <2>2, <2>3 DEF Commit
<1>6. StoreKept(a, None, FALSE)
  BY <1>1, <1>4, <1>5 DEF StoreKept, Inv, TypeOK
<1>7. CallDone(a)
  BY <1>1, <1>4 DEF CallDone, MutatesAt, EventAt
<1>8. NewlyStored(a)
  BY <1>1, <1>4 DEF NewlyStored, Inv, TypeOK
<1> QED BY <1>1, <1>3, <1>6, <1>7, <1>8, StepKeeps

(* replaceProject(): the history becomes the snapshot of the client.       *)
LEMMA ReplaceProjectKeeps ==
  ASSUME Inv, NEW a \in Attempts, ReplaceProject(a) PROVE Inv'
<1>1. /\ Under(a) /\ attempt[a].key \in Keys
      /\ \/ Op(a).kind = "import" /\ attempt[a].at = 3
         \/ Op(a).kind = "sync" /\ attempt[a].at = 2
  BY AtCall, CallPlaces DEF Inv, ReplaceProject, Handler
<1>2. ~(attempt[a].stored /\ Idempotent(Op(a).kind))
  BY <1>1, NotStoredLater
<1>3. ASSUME exists' = TRUE, history' = <<attempt[a].key>>,
             ready' = FALSE, applied' = applied \cup {a}, Continues(a),
             UNCHANGED <<responses, audited, events, operation>>
      PROVE  Inv'
  <2>1. attempt[a].at # Len(Handler(a))
    BY <1>1, NotLastCall
  <2>2. Moved(a, None, FALSE)
    BY <1>1, <1>3, <2>1, ContinuesMoves DEF Inv
  <2>3. history' \in Seq(RevisionIds)
    BY <1>1, <1>3 DEF RevisionIds
  <2>4. StoreKept(a, None, FALSE)
    BY <1>3, <2>3 DEF StoreKept, Inv, TypeOK
  <2>5. CallDone(a)
    BY <1>1, <1>2, <1>3 DEF CallDone, MutatesAt, EventAt
  <2>6. NewlyStored(a)
    <3>1. ~DesignCommand(a) /\ Op(a).kind # "create"
      BY <1>1 DEF DesignCommand
    <3>2. responses[attempt[a].key] = a => a \in events
      BY <1>1, NamesAssumption DEF Inv, ResponseMeansEvent, Op, Idempotent
    <3> QED BY <1>3, <3>1, <3>2 DEF NewlyStored
  <2> QED BY <1>1, <2>2, <2>4, <2>5, <2>6, StepKeeps
<1>4. ASSUME Refused(a), UNCHANGED <<store, operation>> PROVE Inv'
  <2>1. Moved(a, None, TRUE) /\ StoreKept(a, None, TRUE) /\ NewlyStored(a)
    BY <1>1, <1>2, <1>4, RefusedMoves, StoreSame DEF Inv
  <2>2. attempt'[a].state \notin {"running", "abandoned"}
    BY <1>1, <1>4, AnswersStop DEF Inv
  <2> QED BY <1>1, <2>1, <2>2, StepKeeps
<1> QED BY <1>3, <1>4 DEF ReplaceProject, store

(* emit(): the last call of a design command, whose response is stored     *)
(* already; idempotent() goes on to store its own.                         *)
LEMMA AppendEventKeeps ==
  ASSUME Inv, NEW a \in Attempts, AppendEvent(a) PROVE Inv'
<1>1. /\ Under(a) /\ attempt[a].key \in Keys /\ Op(a).kind \in Kinds
      /\ attempt[a].at = EventAt(Op(a).kind)
  BY AtCall, CallPlaces DEF Inv, AppendEvent, Handler
<1>2. ~(attempt[a].stored /\ Idempotent(Op(a).kind))
  <2>1. EventAt(Op(a).kind) # 1
    BY <1>1 DEF EventAt, Kinds
  <2> QED BY <1>1, <2>1, NotStoredLater
<1>3. a \in applied
  <2>1. EventAt(Op(a).kind) > MutatesAt(Op(a).kind)
    BY <1>1 DEF EventAt, MutatesAt, Kinds
  <2> QED BY <1>1, <2>1 DEF Inv, Progress
<1>4. Op(a).kind = "create" => a \in audited
  BY <1>1 DEF Inv, Progress, EventAt
<1>5. /\ events' = events \cup {a} /\ Continues(a)
      /\ UNCHANGED <<exists, history, ready, responses, applied, audited,
                     operation>>
  BY DEF AppendEvent
<1>6. CallDone(a)
  BY <1>2, <1>3, <1>4, <1>5 DEF CallDone
<1>7. NewlyStored(a)
  BY <1>3, <1>4, <1>5 DEF NewlyStored, Inv, AppliedIsStored
<1>8. ASSUME attempt[a].at = Len(Handler(a)), Moved(a, a, FALSE) PROVE Inv'
  <2>1. DesignCommand(a)
    <3> DEFINE kind == Op(a).kind
               length == Len(RepositoryCalls(kind))
    <3>1. kind \in Kinds /\ length = EventAt(kind)
      BY <1>1, <1>8 DEF Handler
    <3>2. /\ kind = "create" => length = 5
          /\ kind = "import" => length = 5
          /\ kind = "sync" => length = 4
      BY <3>1, HandlerLength
    <3> HIDE DEF kind, length
    <3>3. kind \notin {"create", "import", "sync"}
      <4>1. kind = "create" => length # EventAt(kind)
        BY <3>2 DEF EventAt
      <4>2. kind = "import" => length # EventAt(kind)
        BY <3>2 DEF EventAt
      <4>3. kind = "sync" => length # EventAt(kind)
        BY <3>2 DEF EventAt
      <4> QED BY <3>1, <4>1, <4>2, <4>3
    <3> QED BY <3>1, <3>3 DEF kind, Kinds, DesignCommand
  <2>2. responses[attempt[a].key] = a
    BY <1>3, <2>1 DEF Inv, AppliedIsStored
  <2>3. StoreKept(a, a, FALSE)
    BY <1>3, <1>5, <2>2 DEF StoreKept, Inv, TypeOK
  <2> QED BY <1>1, <1>6, <1>7, <1>8, <2>3, StepKeeps
<1>9. ASSUME Moved(a, None, FALSE) PROVE Inv'
  <2>1. StoreKept(a, None, FALSE)
    BY <1>3, <1>5 DEF StoreKept, Inv, TypeOK
  <2> QED BY <1>1, <1>6, <1>7, <1>9, <2>1, StepKeeps
<1> QED BY <1>1, <1>5, <1>8, <1>9, ContinuesMoves DEF Inv

(* putIdempotency(): the first response stored is answered.                *)
LEMMA PutIdempotencyKeeps ==
  ASSUME Inv, NEW a \in Attempts, PutIdempotency(a) PROVE Inv'
<1> DEFINE stored == StoredFirst(a)
<1>1. /\ Under(a) /\ attempt[a].key \in Keys /\ Op(a).kind \in Kinds
      /\ Idempotent(Op(a).kind)
      /\ attempt[a].at = Len(Handler(a))
      /\ attempt[a].at = EventAt(Op(a).kind) + 1
  BY AtCall, CallPlaces DEF Inv, PutIdempotency, Handler
<1>2. a \in applied /\ a \in events
  <2>1. /\ EventAt(Op(a).kind) + 1 > MutatesAt(Op(a).kind)
        /\ EventAt(Op(a).kind) + 1 > EventAt(Op(a).kind)
    BY <1>1 DEF EventAt, MutatesAt, Kinds
  <2> QED BY <1>1, <2>1 DEF Inv, Progress
<1>3. Op(a).kind = "create" => a \in audited
  BY <1>1 DEF Inv, Progress, EventAt
<1>4. ~DesignCommand(a)
  BY <1>1 DEF Idempotent, DesignCommand
<1>5. /\ responses' = [responses EXCEPT ![attempt[a].key] = stored]
      /\ Answers(a, stored)
      /\ UNCHANGED <<exists, history, ready, applied, audited, events,
                     operation>>
  BY <1>1 DEF PutIdempotency
<1>6. /\ responses \in [Keys -> Attempts \cup {None}]
      /\ stored \in Attempts
      /\ stored = responses[attempt[a].key]
         \/ (stored = a /\ responses[attempt[a].key] = None)
  BY <1>1 DEF Inv, TypeOK, StoredFirst
<1>7. responses'[attempt[a].key] = stored
  BY <1>1, <1>5, <1>6
<1> HIDE DEF stored
<1>8. Moved(a, stored, FALSE)
  BY <1>1, <1>5, <1>6, AnswersMoves DEF Inv
<1>9. StoreKept(a, stored, FALSE)
  BY <1>1, <1>2, <1>5, <1>6, <1>7 DEF StoreKept, Inv, TypeOK
<1>10. NewlyStored(a)
  BY <1>2, <1>3, <1>4, <1>5 DEF NewlyStored
<1>11. attempt'[a].state \notin {"running", "abandoned"}
  BY <1>1, <1>5, AnswersStop DEF Inv
<1> QED BY <1>1, <1>8, <1>9, <1>10, <1>11, StepKeeps

(* An abandoned request stays at its call or is over.                      *)
LEMMA AbandonKeeps ==
  ASSUME Inv, NEW a \in Attempts, Abandon(a) PROVE Inv'
<1> DEFINE pending == Handler(a)[attempt[a].at] \in Mutations
           final == IF pending THEN "abandoned" ELSE "over"
           ended == Answered(attempt[a], final, "error", None)
<1>1. /\ attempt[a].state = "running" /\ Under(a)
      /\ UNCHANGED <<store, operation>>
  BY DEF Abandon, Under
<1>2. attempt \in [Attempts -> AttemptStates]
  BY DEF Inv, TypeOK
<1>3. /\ ended \in AttemptStates /\ ended.key = attempt[a].key
      /\ ended.stored = attempt[a].stored /\ ended.at = attempt[a].at
      /\ ended.answer = "error" /\ ended.state \in {"abandoned", "over"}
  <2>1. final \in {"abandoned", "over"}
    OBVIOUS
  <2>2. attempt[a] \in AttemptStates
    BY <1>2
  <2> HIDE DEF final
  <2>3. IsAnswered(ended, attempt[a], final, "error", None)
    BY <2>1, <2>2, WithAnswer
  <2> HIDE DEF ended
  <2> QED BY <2>1, <2>3 DEF IsAnswered
<1>4. ASSUME NEW b \in Attempts, NEW other, b # a,
             other = Ended(a, "error", None)[b]
      PROVE  /\ other \in AttemptStates
             /\ \/ other = attempt[b]
                \/ /\ attempt[b].state = "joined"
                   /\ other.state = "over" /\ other.answer = "error"
                   /\ other.key = attempt[b].key
                   /\ other.stored = attempt[b].stored
  <2>1. attempt[b] \in AttemptStates
    BY <1>2
  <2>2. \/ other = attempt[b]
        \/ /\ attempt[b].state = "joined"
           /\ other = Answered(attempt[b], "over", "error", None)
    BY <1>4 DEF Ended, Answered
  <2>3. CASE other # attempt[b]
    <3>1. /\ other \in AttemptStates
          /\ other.state = "over" /\ other.answer = "error"
          /\ other.key = attempt[b].key /\ other.stored = attempt[b].stored
      <4>1. IsAnswered(other, attempt[b], "over", "error", None)
        BY <2>1, <2>2, <2>3, WithAnswer
      <4> QED BY <4>1 DEF IsAnswered
    <3> QED BY <2>2, <2>3, <3>1
  <2> QED BY <2>1, <2>3
<1>5. /\ attempt' = [b \in Attempts |->
                       IF b = a THEN ended ELSE Ended(a, "error", None)[b]]
  <2>1. attempt' = [Ended(a, "error", None) EXCEPT ![a].state = final]
    BY DEF Abandon
  <2>2. /\ Ended(a, "error", None)[a]
            = [attempt[a] EXCEPT !.state = "over", !.answer = "error",
                                 !.result = None]
        /\ Ended(a, "error", None)
            = [b \in Attempts |-> Ended(a, "error", None)[b]]
    BY DEF Ended
  <2>3. [[attempt[a] EXCEPT !.state = "over", !.answer = "error",
                            !.result = None] EXCEPT !.state = final] = ended
    BY <1>2 DEF AttemptStates, Answered
  <2> HIDE DEF final, ended
  <2> QED BY <2>1, <2>2, <2>3
<1> HIDE DEF ended
<1>6. attempt' \in [Attempts -> AttemptStates]
  BY <1>2, <1>3, <1>4, <1>5
<1>7. attempt'[a] = ended
      /\ \A b \in Attempts :
           b # a => attempt'[b] = Ended(a, "error", None)[b]
  BY <1>5
<1>8. Moved(a, None, FALSE)
  <2>1. ASSUME NEW b \in Attempts, b # a
        PROVE  \/ attempt'[b] = attempt[b]
               \/ /\ attempt[b].state = "joined"
                  /\ attempt'[b].state = "over"
                  /\ attempt'[b].answer = "error"
                  /\ attempt'[b].key = attempt[b].key
                  /\ attempt'[b].stored = attempt[b].stored
    BY <1>4, <1>7, <2>1
  <2> QED BY <1>1, <1>3, <1>6, <1>7, <2>1 DEF Moved, Under
<1>9. StoreKept(a, None, FALSE) /\ NewlyStored(a)
  BY <1>1, StoreSame
<1> QED BY <1>1, <1>3, <1>7, <1>8, <1>9, StepKeeps

-----------------------------------------------------------------------------
(* A new request: nothing has been done for it.                            *)
LEMMA StartKeeps ==
  ASSUME Inv, NEW a \in Attempts, NEW k \in Keys, NEW p \in Processes,
         Start(a, k, p)
  PROVE  Inv'
<1> USE DEF Inv
<1>1. /\ attempt[a] = NotStarted /\ a \notin applied
      /\ attempt[a].state = "idle" /\ UNCHANGED store
  BY DEF Start, Begun
<1>2. UNCHANGED <<exists, history, ready, responses, applied, audited, events>>
  BY <1>1 DEF store
<1>3. LatestRevision \in RevisionIds \cup {None}
  <2>1. history \in Seq(RevisionIds)
    BY DEF TypeOK
  <2>2. history # <<>> => history[Len(history)] \in RevisionIds
    BY <2>1
  <2> QED BY <2>2 DEF LatestRevision
<1>4. /\ operation' \in [Keys -> Operations]
      /\ \A j \in Keys : operation'[j].kind = operation[j].kind
  <2> DEFINE e == IF (\A b \in Attempts : attempt[b].key # k)
                     /\ operation[k].kind = "import"
                  THEN LatestRevision ELSE operation[k].expected
             asked == [operation[k] EXCEPT !.expected = e]
  <2>1. operation \in [Keys -> Operations]
    BY DEF TypeOK
  <2>2. e \in RevisionIds \cup {None}
    BY <1>3, <2>1 DEF Operations
  <2>3. operation' = [operation EXCEPT ![k].expected = e]
    BY DEF Start
  <2> HIDE DEF e
  <2>4. asked \in Operations /\ asked.kind = operation[k].kind
    BY <2>1, <2>2 DEF Operations
  <2>5. operation' = [operation EXCEPT ![k] = asked]
    BY <2>3
  <2> HIDE DEF asked
  <2> QED BY <2>1, <2>4, <2>5
<1>5. /\ attempt' \in [Attempts -> AttemptStates]
      /\ \A b \in Attempts : b # a => attempt'[b] = attempt[b]
      /\ attempt'[a].key = k /\ attempt'[a].answer = "none"
      /\ \/ attempt'[a].state = "joined" /\ ~attempt'[a].stored
         \/ /\ attempt'[a].state = "running" /\ attempt'[a].at = 1
            /\ attempt'[a].stored = (responses[k] # None)
  <2> DEFINE begun == [NotStarted EXCEPT !.key = k, !.process = p]
             joins == Idempotent(operation[k].kind) /\ InFlight(k, p) # {}
             waits == [begun EXCEPT !.state = "joined"]
             runs  == [begun EXCEPT !.state = "running", !.at = 1,
                                    !.stored = responses[k] # None]
  <2>1. attempt' = [attempt EXCEPT ![a] = IF joins THEN waits ELSE runs]
    BY DEF Start
  <2>2. waits \in AttemptStates /\ runs \in AttemptStates
    <3>1. NotStarted \in AttemptStates
      BY DEF NotStarted, AttemptStates
    <3>2. begun \in AttemptStates
      BY <3>1 DEF AttemptStates
    <3> HIDE DEF begun
    <3>3. waits \in AttemptStates
      BY <3>2 DEF AttemptStates
    <3> DEFINE first == [begun EXCEPT !.state = "running"]
               going == [first EXCEPT !.at = 1]
               found == responses[k] # None
    <3>4. runs = [going EXCEPT !.stored = found]
      BY Zenon
    <3>5. first \in AttemptStates
      BY <3>2 DEF AttemptStates
    <3> HIDE DEF first
    <3>6. going \in AttemptStates
      BY <3>5 DEF AttemptStates
    <3> HIDE DEF going
    <3>7. /\ [going EXCEPT !.stored = TRUE] \in AttemptStates
          /\ [going EXCEPT !.stored = FALSE] \in AttemptStates
      BY <3>6 DEF AttemptStates
    <3>8. found = TRUE \/ found = FALSE
      OBVIOUS
    <3> HIDE DEF found, runs
    <3>9. runs \in AttemptStates
      BY <3>4, <3>7, <3>8, Zenon
    <3> QED BY <3>3, <3>9
  <2>3. /\ waits.key = k /\ waits.answer = "none" /\ waits.state = "joined"
        /\ ~waits.stored
        /\ runs.key = k /\ runs.answer = "none" /\ runs.state = "running"
        /\ runs.at = 1
        /\ runs.stored = (responses[k] # None)
    BY DEF NotStarted
  <2> HIDE DEF waits, runs, joins
  <2>4. attempt'[a] = waits \/ attempt'[a] = runs
    BY <2>1 DEF TypeOK
  <2>5. \A b \in Attempts : b # a => attempt'[b] = attempt[b]
    BY <2>1 DEF TypeOK
  <2>6. attempt' \in [Attempts -> AttemptStates]
    BY <2>1, <2>2 DEF TypeOK
  <2> QED BY <2>3, <2>4, <2>5, <2>6
<1>6. \A b \in Attempts :
        attempt[b].state # "idle" =>
          /\ b # a /\ attempt[b].key \in Keys /\ attempt'[b] = attempt[b]
          /\ Op(b)'.kind = Op(b).kind
          /\ Op(b).kind \in Kinds
          /\ Handler(b)' = Handler(b)
  <2> SUFFICES ASSUME NEW b \in Attempts, attempt[b].state # "idle"
               PROVE  /\ b # a /\ attempt[b].key \in Keys
                      /\ attempt'[b] = attempt[b]
                      /\ Op(b)'.kind = Op(b).kind
                      /\ Op(b).kind \in Kinds
                      /\ Handler(b)' = Handler(b)
    OBVIOUS
  <2>1. b # a /\ attempt[b].key \in Keys /\ attempt'[b] = attempt[b]
    BY <1>1, <1>5 DEF Begun
  <2>2. Op(b)'.kind = Op(b).kind
    BY <1>4, <2>1 DEF Op
  <2>3. Op(b).kind \in Kinds
    BY <2>1, UsedAssumption DEF Op, TypeOK, Operations
  <2>4. Handler(b)' = Handler(b)
    BY <2>2 DEF Handler, RepositoryCalls
  <2> QED BY <2>1, <2>2, <2>3, <2>4
<1>7. Op(a)'.kind = operation[k].kind /\ Op(a)'.kind \in Kinds
  BY <1>4, <1>5, UsedAssumption DEF Op, TypeOK, Operations
<1>8. /\ Len(Handler(a)') \in 1..5
      /\ DOMAIN Handler(a)' = 1..Len(Handler(a)')
      /\ 1 \in 1..Len(Handler(a)')
  <2>1. /\ Len(Handler(a)') \in 1..5
        /\ DOMAIN Handler(a)' = 1..Len(Handler(a)')
    BY <1>7, HandlerLength DEF Handler, RepositoryCalls
  <2> QED BY <2>1
<1>9. \A b \in applied : attempt[b].state # "idle"
  BY DEF Begun, TypeOK
<1>10. TypeOK'
  <2>1. ASSUME NEW b \in Attempts, attempt'[b].state = "running"
        PROVE  attempt'[b].at \in
                 DOMAIN RepositoryCalls(operation'[attempt'[b].key].kind)
    <3>1. CASE b = a
      BY <1>5, <1>8, <2>1, <3>1 DEF Handler, Op
    <3>2. CASE b # a
      <4>1. attempt'[b] = attempt[b] /\ attempt[b].state # "idle"
        BY <1>5, <2>1, <3>2
      <4>2. Handler(b)' = Handler(b)
        BY <1>6, <4>1
      <4>3. attempt[b].at \in
              DOMAIN RepositoryCalls(operation[attempt[b].key].kind)
        BY <2>1, <4>1 DEF TypeOK
      <4> QED BY <4>1, <4>2, <4>3 DEF Handler, Op
    <3> QED BY <3>1, <3>2
  <2> QED BY <1>2, <1>4, <1>5, <2>1 DEF TypeOK
<1>11. Begun'
  <2>1. ASSUME NEW b \in Attempts
        PROVE  /\ attempt'[b].state = "idle" =>
                    attempt'[b] = NotStarted /\ b \notin applied'
               /\ attempt'[b].state # "idle" => attempt'[b].key \in Keys
               /\ Under(b)' => attempt'[b].at \in 1..Len(Handler(b)')
    <3>1. CASE b = a
      BY <1>5, <1>8, <3>1 DEF Under
    <3>2. CASE b # a
      <4>1. attempt'[b] = attempt[b]
        BY <1>5, <3>2
      <4> QED BY <1>2, <1>6, <4>1 DEF Begun, Under
    <3> QED BY <3>1, <3>2
  <2> QED BY <2>1 DEF Begun
<1>12. Progress'
  <2>1. ASSUME NEW b \in Attempts, Under(b)'
        PROVE  /\ attempt'[b].at > MutatesAt(Op(b)'.kind) => b \in applied'
               /\ attempt'[b].at > EventAt(Op(b)'.kind) => b \in events'
               /\ Op(b)'.kind = "create" /\ attempt'[b].at > 3
                  => b \in audited'
    <3>1. CASE b = a
      <4>1. attempt'[a].at = 1
        BY <1>5, <2>1, <3>1 DEF Under
      <4>2. ~(1 > MutatesAt(Op(a)'.kind)) /\ ~(1 > EventAt(Op(a)'.kind))
        BY <1>7 DEF MutatesAt, EventAt, Kinds
      <4> QED BY <3>1, <4>1, <4>2
    <3>2. CASE b # a
      <4>1. attempt'[b] = attempt[b] /\ Under(b)
        BY <1>5, <2>1, <3>2 DEF Under
      <4>2. Op(b)'.kind = Op(b).kind
        BY <1>6, <4>1 DEF Under
      <4> QED BY <1>2, <4>1, <4>2 DEF Progress
    <3> QED BY <3>1, <3>2
  <2> QED BY <2>1 DEF Progress
<1>13. StoredIsApplied'
  BY <1>2, <1>6, <1>9 DEF StoredIsApplied, TypeOK
<1>14. AppliedIsStored'
  <2>1. ASSUME NEW b \in applied, DesignCommand(b)'
        PROVE  responses'[attempt'[b].key] = b
    <3>1. b \in Attempts /\ attempt[b].state # "idle"
      BY <1>9 DEF TypeOK
    <3>2. DesignCommand(b) /\ attempt'[b] = attempt[b]
      BY <1>6, <2>1, <3>1 DEF DesignCommand
    <3> QED BY <1>2, <3>2 DEF AppliedIsStored
  <2> QED BY <1>2, <2>1 DEF AppliedIsStored
<1>15. AnsweredFromStore'
  <2>1. ASSUME NEW b \in Attempts, attempt'[b].answer = "success"
        PROVE  /\ attempt'[b].state # "idle"
               /\ responses'[attempt'[b].key] # None
               /\ attempt'[b].result = responses'[attempt'[b].key]
    <3>1. attempt'[b] = attempt[b]
      BY <1>5, <2>1
    <3> QED BY <1>2, <2>1, <3>1 DEF AnsweredFromStore
  <2> QED BY <2>1 DEF AnsweredFromStore
<1>16. StoredEndsAtOnce'
  <2>1. ASSUME NEW b \in Attempts, attempt'[b].stored
        PROVE  /\ attempt'[b].state # "idle"
               /\ responses'[attempt'[b].key] # None
               /\ attempt'[b].state # "joined"
               /\ Idempotent(Op(b)'.kind) /\ Under(b)'
                  => attempt'[b].at = 1
    <3>1. CASE b = a
      BY <1>2, <1>5, <2>1, <3>1
    <3>2. CASE b # a
      <4>1. attempt'[b] = attempt[b]
        BY <1>5, <3>2
      <4>2. Op(b)'.kind = Op(b).kind /\ attempt[b].state # "idle"
        BY <1>6, <2>1, <4>1 DEF StoredEndsAtOnce
      <4> QED BY <1>2, <2>1, <4>1, <4>2 DEF StoredEndsAtOnce, Under
    <3> QED BY <3>1, <3>2
  <2> QED BY <2>1 DEF StoredEndsAtOnce, Idempotent
<1>17. ResponseMeansEvent'
  BY <1>2, <1>4 DEF ResponseMeansEvent, Idempotent
<1>18. RetryNotRefused'
  <2>1. ASSUME NEW b \in Attempts, attempt'[b].stored,
               Idempotent(Op(b)'.kind)
        PROVE  attempt'[b].answer # "refused"
    <3>1. CASE b = a
      BY <1>5, <3>1
    <3>2. CASE b # a
      <4>1. attempt'[b] = attempt[b] /\ attempt[b].state # "idle"
        BY <1>5, <2>1, <3>2 DEF StoredEndsAtOnce
      <4>2. Op(b)'.kind = Op(b).kind
        BY <1>6, <4>1
      <4> QED BY <2>1, <4>1, <4>2 DEF RetryNotRefused
    <3> QED BY <3>1, <3>2
  <2> QED BY <2>1 DEF RetryNotRefused, Idempotent
<1> QED
  BY <1>10, <1>11, <1>12, <1>13, <1>14, <1>15, <1>16, <1>17, <1>18

(* Before any request nothing is stored, applied or answered.              *)
LEMMA InitInv == Init => Inv
<1> SUFFICES ASSUME Init PROVE Inv
  OBVIOUS
<1>1. /\ \A a \in Attempts : attempt[a] = NotStarted
      /\ applied = {} /\ \A k \in Keys : responses[k] = None
  BY DEF Init
<1>2. NotStarted \in AttemptStates
  BY DEF NotStarted, AttemptStates
<1>3. TypeOK
  <2>1. attempt \in [Attempts -> AttemptStates]
    BY <1>2 DEF Init
  <2>2. \A a \in Attempts : attempt[a].state # "running"
    BY <1>1 DEF NotStarted
  <2>3. /\ history \in Seq(RevisionIds)
        /\ responses \in [Keys -> Attempts \cup {None}]
        /\ operation \in [Keys -> Operations]
    BY DEF Init
  <2> QED BY <2>1, <2>2, <2>3 DEF TypeOK, Init
<1>4. Begun /\ Progress
  <2>1. \A a \in Attempts : attempt[a].state = "idle" /\ ~Under(a)
    BY <1>1 DEF NotStarted, Under
  <2> QED BY <1>1, <2>1 DEF Begun, Progress
<1>5. StoredIsApplied /\ AppliedIsStored /\ ResponseMeansEvent
  BY <1>1 DEF StoredIsApplied, AppliedIsStored, ResponseMeansEvent
<1>6. AnsweredFromStore /\ StoredEndsAtOnce /\ RetryNotRefused
  BY <1>1 DEF AnsweredFromStore, StoredEndsAtOnce, RetryNotRefused, NotStarted
<1> QED BY <1>3, <1>4, <1>5, <1>6 DEF Inv

(* The invariant is inductive: every handler keeps it at every call.       *)
LEMMA NextInv == Inv /\ [Next]_vars => Inv'
<1> SUFFICES ASSUME Inv, [Next]_vars PROVE Inv'
  OBVIOUS
<1>1. ASSUME UNCHANGED vars PROVE Inv'
  BY <1>1 DEF vars, store, Inv, TypeOK, Begun, Progress, StoredIsApplied,
     AppliedIsStored, AnsweredFromStore, StoredEndsAtOnce,
     ResponseMeansEvent, RetryNotRefused, Under, Op, Handler, DesignCommand,
     RepositoryCalls, Idempotent, MutatesAt, EventAt
<1>2. ASSUME NEW a \in Attempts,
             \/ \E k \in Keys, p \in Processes : Start(a, k, p)
             \/ Abandon(a)
             \/ GetIdempotency(a) \/ CreateProject(a) \/ AppendAudit(a)
             \/ GetLatest(a) \/ GetReviewState(a)
             \/ CommitReplayed(a) \/ CommitRefused(a) \/ Commit(a)
             \/ ReplaceProject(a) \/ AppendEvent(a) \/ PutIdempotency(a)
      PROVE  Inv'
  <2>1. ASSUME NEW k \in Keys, NEW p \in Processes, Start(a, k, p)
        PROVE  Inv'
    BY <2>1, StartKeeps
  <2>2. CASE Abandon(a)
    BY <2>2, AbandonKeeps
  <2>3. CASE GetIdempotency(a)
    BY <2>3, GetIdempotencyKeeps
  <2>4. CASE CreateProject(a)
    BY <2>4, CreateProjectKeeps
  <2>5. CASE AppendAudit(a)
    BY <2>5, AppendAuditKeeps
  <2>6. CASE GetLatest(a)
    BY <2>6, GetLatestKeeps
  <2>7. CASE GetReviewState(a)
    BY <2>7, GetReviewStateKeeps
  <2>8. CASE CommitReplayed(a)
    BY <2>8, CommitReplayedKeeps
  <2>9. CASE CommitRefused(a)
    BY <2>9, CommitRefusedKeeps
  <2>10. CASE Commit(a)
    BY <2>10, CommitKeeps
  <2>11. CASE ReplaceProject(a)
    BY <2>11, ReplaceProjectKeeps
  <2>12. CASE AppendEvent(a)
    BY <2>12, AppendEventKeeps
  <2>13. CASE PutIdempotency(a)
    BY <2>13, PutIdempotencyKeeps
  <2> QED BY <1>2, <2>1, <2>2, <2>3, <2>4, <2>5, <2>6, <2>7, <2>8, <2>9,
             <2>10, <2>11, <2>12, <2>13
<1> QED BY <1>1, <1>2 DEF Next

-----------------------------------------------------------------------------
(* However requests and their retries interleave over the repository calls *)
(* of the five handlers, and whichever are abandoned: the inductive        *)
(* invariant.                                                              *)
THEOREM InvAlways == Spec => []Inv
BY InitInv, NextInv, PTL DEF Spec

(* The state is well-formed; in particular no handler of service.ts goes   *)
(* on after its last repository call.                                      *)
THEOREM TypeCorrect == Spec => []TypeOK
<1>1. Inv => TypeOK
  BY DEF Inv
<1> QED BY InvAlways, <1>1, PTL

(* commitDesignRevision() carries out a key's design command once, however *)
(* often it is retried and however late an abandoned call takes effect.    *)
THEOREM AppliedOnceAlways == Spec => []AppliedOnce
<1>1. Inv => AppliedOnce
  <2> SUFFICES ASSUME Inv, NEW a \in applied, NEW b \in applied,
                      DesignCommand(a), attempt[a].key = attempt[b].key
               PROVE  a = b
    BY DEF AppliedOnce
  <2>1. DesignCommand(b)
    BY DEF DesignCommand, Op
  <2> QED BY <2>1 DEF Inv, AppliedIsStored
<1> QED BY InvAlways, <1>1, PTL

(* Requests with one key that succeed get the same response: the one       *)
(* idempotent() or commitDesignRevision() has stored.                      *)
THEOREM AnswersAgreeAlways == Spec => []AnswersAgree
<1>1. Inv => AnswersAgree
  BY DEF Inv, AnswersAgree, AnsweredFromStore
<1> QED BY InvAlways, <1>1, PTL

(* A handler answers with success only what an attempt with the request's  *)
(* key has written to the repository.                                      *)
THEOREM SuccessMeansAppliedAlways == Spec => []SuccessMeansApplied
<1>1. Inv => SuccessMeansApplied
  <2> SUFFICES ASSUME Inv, NEW a \in Attempts,
                      attempt[a].answer = "success"
               PROVE  /\ attempt[a].result \in applied
                      /\ attempt[attempt[a].result].key = attempt[a].key
    BY DEF SuccessMeansApplied
  <2>1. /\ attempt[a].key \in Keys
        /\ responses[attempt[a].key] # None
        /\ attempt[a].result = responses[attempt[a].key]
    BY DEF Inv, AnsweredFromStore, Begun
  <2> QED BY <2>1 DEF Inv, StoredIsApplied
<1> QED BY InvAlways, <1>1, PTL

(* What idempotent() answers retries with has its event, and a created     *)
(* project its audit record.                                               *)
THEOREM ResponseMeansEventAlways == Spec => []ResponseMeansEvent
<1>1. Inv => ResponseMeansEvent
  BY DEF Inv
<1> QED BY InvAlways, <1>1, PTL

(* A retry of an idempotent() operation whose response is stored is never  *)
(* refused, whatever has happened to the project since.                    *)
THEOREM RetryNotRefusedAlways == Spec => []RetryNotRefused
<1>1. Inv => RetryNotRefused
  BY DEF Inv
<1> QED BY InvAlways, <1>1, PTL

(* The response stored for an idempotent() operation is the answer of all  *)
(* who succeed under its key, belongs to a mutation with its event and is  *)
(* never withheld from who finds it.                                       *)
THEOREM ResponsesStand == Spec => []ResponseStands
<1>1. AnswersAgree /\ ResponseMeansEvent /\ RetryNotRefused => ResponseStands
  BY DEF ResponseStands
<1> QED
  BY AnswersAgreeAlways, ResponseMeansEventAlways, RetryNotRefusedAlways, <1>1,
     PTL
=============================================================================
