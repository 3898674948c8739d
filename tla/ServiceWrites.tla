---------------------------- MODULE ServiceWrites ---------------------------
(***************************************************************************)
(* The writing requests of the collaboration service on one project, with  *)
(* the clients' retries: POST /v1/projects, /revisions, /readiness,        *)
(* /v1/import and /v1/sync.  Each handler is a sequence of repository      *)
(* calls; another request may run between any two of them.                 *)
(*                                                                         *)
(* A repository call is atomic (RevisionHistory).  The host operation that *)
(* makes it may be abandoned at its deadline or when the client leaves;    *)
(* the handler then answers with an error, but the call may still take     *)
(* effect, at any later time or never.                                     *)
(***************************************************************************)
EXTENDS Integers, Sequences, FiniteSets

CONSTANTS
  Keys,       \* idempotency keys, each that of one client operation
  Attempts,   \* requests, a key's first and its retries
  Processes,  \* processes of the service
  Used        \* the kinds of operation clients use

None == "none"
Kinds == {"create", "append", "ready", "import", "sync"}

ASSUME NamesAssumption ==
  /\ None \notin Keys \cup Attempts
  /\ Keys \cap Attempts = {}
ASSUME UsedAssumption == Used \subseteq Kinds

VARIABLES
  exists,     \* whether the project exists
  history,    \* its revisions
  ready,      \* whether it has a baseline
  responses,  \* the stored responses: whose result each key is answered with
  applied,    \* the attempts whose mutation took effect
  audited,    \* the attempts with an audit record
  events,     \* the attempts with an event
  operation,  \* what the client of a key asks for
  attempt     \* each request's progress

store == <<exists, history, ready, responses, applied, audited, events>>
vars == <<store, operation, attempt>>

(* An appended revision is named for its attempt, that of a snapshot for   *)
(* the key it was sent with.  change: the client sends semantic change     *)
(* metadata; expected: the revision the client holds to be the latest.     *)
RevisionIds == Attempts \cup Keys
Operations ==
  [kind : Used, change : BOOLEAN, expected : RevisionIds \cup {None}]
AttemptStates ==
  [state : {"idle", "running", "joined", "abandoned", "over"},
   key : Keys \cup {None}, process : Processes \cup {None}, at : 0..5,
   latest : RevisionIds \cup {None}, ready : BOOLEAN,
   answer : {"none", "success", "refused", "error"},
   result : Attempts \cup {None}, stored : BOOLEAN]

NotStarted ==
  [state |-> "idle", key |-> None, process |-> None, at |-> 0,
   latest |-> None, ready |-> FALSE, answer |-> "none", result |-> None,
   stored |-> FALSE]

Init ==
  /\ exists \in BOOLEAN
  /\ history = <<>> /\ ready = FALSE
  /\ responses = [k \in Keys |-> None]
  /\ applied = {} /\ audited = {} /\ events = {}
  /\ operation \in
       [Keys -> {o \in Operations : /\ o.expected = None
                                    /\ o.change => o.kind = "append"}]
  /\ attempt = [a \in Attempts |-> NotStarted]

-----------------------------------------------------------------------------
(* The repository calls of each handler, those of idempotent() included.   *)
RepositoryCalls(kind) ==
  CASE kind = "create" ->
         <<"getIdempotency", "createProject", "appendAudit", "appendEvent",
           "putIdempotency">>
    [] kind = "append" ->
         <<"getLatest", "getReviewState", "commit", "appendEvent">>
    [] kind = "ready"  -> <<"commit", "appendEvent">>
    [] kind = "import" ->
         <<"getIdempotency", "getLatest", "replaceProject", "appendEvent",
           "putIdempotency">>
    [] kind = "sync" ->
         <<"getIdempotency", "replaceProject", "appendEvent",
           "putIdempotency">>

Mutations ==
  {"createProject", "commit", "appendAudit", "appendEvent",
   "replaceProject", "putIdempotency"}

Op(a) == operation[attempt[a].key]
Handler(a) == RepositoryCalls(Op(a).kind)
Calls(a, name) ==
  /\ attempt[a].state \in {"running", "abandoned"}
  /\ Handler(a)[attempt[a].at] = name

Idempotent(kind) == kind \in {"create", "import", "sync"}

LatestRevision == IF history = <<>> THEN None ELSE history[Len(history)]

(* inFlightIdempotency: a request joins the one its process is running for *)
(* the same key, and shares its fate.                                      *)
SameRun(a, b) ==
  /\ attempt[b].key = attempt[a].key
  /\ attempt[b].process = attempt[a].process

InFlight(k, p) ==
  {b \in Attempts : attempt[b].state = "running" /\ attempt[b].key = k
                    /\ attempt[b].process = p}

Ended(a, answer, result) ==
  [b \in Attempts |->
     IF b = a \/ (attempt[b].state = "joined" /\ SameRun(a, b))
     THEN [attempt[b] EXCEPT !.state = "over", !.answer = answer,
                             !.result = result]
     ELSE attempt[b]]

(* A call that nobody waits for any more ends there.                       *)
Dropped(a) == [attempt EXCEPT ![a].state = "over"]

Refused(a) ==
  attempt' = IF attempt[a].state = "abandoned" THEN Dropped(a)
             ELSE Ended(a, "refused", None)

Answers(a, result) ==
  attempt' = IF attempt[a].state = "abandoned" THEN Dropped(a)
             ELSE Ended(a, "success", result)

Continues(a) ==
  IF attempt[a].state = "abandoned" THEN attempt' = Dropped(a)
  ELSE IF attempt[a].at = Len(Handler(a)) THEN Answers(a, a)
  ELSE attempt' = [attempt EXCEPT ![a].at = @ + 1]

-----------------------------------------------------------------------------
(* A client sends its operation, or sends it again without knowing what    *)
(* became of the first request.  What an import expects is what the client *)
(* saw before its first request.                                           *)
Start(a, k, p) ==
  LET kind == operation[k].kind
      first == \A b \in Attempts : attempt[b].key # k
      begun == [NotStarted EXCEPT !.key = k, !.process = p]
  IN
  /\ attempt[a].state = "idle"
  /\ first /\ kind = "import" => history # <<>>
  /\ attempt' = [attempt EXCEPT ![a] =
       IF Idempotent(kind) /\ InFlight(k, p) # {}
       THEN [begun EXCEPT !.state = "joined"]
       ELSE [begun EXCEPT !.state = "running", !.at = 1,
                          !.stored = responses[k] # None]]
  /\ operation' = [operation EXCEPT ![k].expected =
       IF first /\ kind = "import" THEN LatestRevision ELSE @]
  /\ UNCHANGED store

(* The deadline of the host operation, a lost connection, or a crash.      *)
Abandon(a) ==
  LET pending == Handler(a)[attempt[a].at] \in Mutations IN
  /\ attempt[a].state = "running"
  /\ attempt' = [Ended(a, "error", None) EXCEPT
       ![a].state = IF pending THEN "abandoned" ELSE "over"]
  /\ UNCHANGED <<store, operation>>

-----------------------------------------------------------------------------
GetIdempotency(a) ==
  LET prior == responses[attempt[a].key] IN
  /\ Calls(a, "getIdempotency")
  /\ \/ prior # None /\ Answers(a, prior)
     \/ prior = None /\ Continues(a)
  /\ UNCHANGED <<store, operation>>

CreateProject(a) ==
  /\ Calls(a, "createProject")
  /\ \/ /\ ~exists
        /\ exists' = TRUE
        /\ applied' = applied \cup {a}
        /\ Continues(a)
     \/ exists /\ Refused(a) /\ UNCHANGED <<exists, applied>>
  /\ UNCHANGED <<history, ready, responses, audited, events, operation>>

AppendAudit(a) ==
  /\ Calls(a, "appendAudit")
  /\ audited' = audited \cup {a}
  /\ Continues(a)
  /\ UNCHANGED <<exists, history, ready, responses, applied, events,
                 operation>>

(* getLatestRevision(): the parent a revision is to have; an import stops  *)
(* if it is not the one the client expects.                                *)
GetLatest(a) ==
  LET latest == LatestRevision IN
  /\ Calls(a, "getLatest")
  /\ \/ /\ Op(a).kind = "import" /\ latest # Op(a).expected
        /\ Refused(a)
     \/ /\ Op(a).kind = "import" => latest = Op(a).expected
        /\ attempt' = [attempt EXCEPT ![a].at = @ + 1, ![a].latest = latest]
  /\ UNCHANGED <<store, operation>>

(* getDesignReviewState(): metadata is required after a baseline, and only *)
(* then.                                                                   *)
GetReviewState(a) ==
  /\ Calls(a, "getReviewState")
  /\ \/ ready # Op(a).change /\ Refused(a)
     \/ ready = Op(a).change /\ Continues(a)
  /\ UNCHANGED <<store, operation>>

Replays(a) == responses[attempt[a].key]

(* What the repository checks of a command without a stored response.      *)
Fits(a) ==
  /\ exists
  /\ Op(a).kind = "append" =>
       /\ attempt[a].latest = LatestRevision
       /\ ready = Op(a).change
  /\ Op(a).kind = "ready" => history # <<>>

(* Mutant: every command is carried out.                                   *)
NothingStored(k) == TRUE

NotStored(k) == responses[k] = None

(* commitDesignRevision(): the response is stored with the revision.       *)
CommitReplayed(a) ==
  /\ Calls(a, "commit")
  /\ ~NotStored(attempt[a].key)
  /\ Answers(a, Replays(a))
  /\ UNCHANGED <<store, operation>>

CommitRefused(a) ==
  /\ Calls(a, "commit")
  /\ NotStored(attempt[a].key) /\ ~Fits(a)
  /\ Refused(a)
  /\ UNCHANGED <<store, operation>>

Commit(a) ==
  /\ Calls(a, "commit")
  /\ NotStored(attempt[a].key) /\ Fits(a)
  /\ history' = IF Op(a).kind = "append" THEN Append(history, a) ELSE history
  /\ ready' = IF Op(a).kind = "append" THEN ready ELSE TRUE
  /\ responses' = [responses EXCEPT ![attempt[a].key] = a]
  /\ applied' = applied \cup {a}
  /\ Continues(a)
  /\ UNCHANGED <<exists, audited, events, operation>>

(* replaceProject() with the client's snapshot.  An import compares the    *)
(* expected revision once more, with the write.                            *)
ReplaceProject(a) ==
  /\ Calls(a, "replaceProject")
  /\ \/ /\ Op(a).kind = "import" => LatestRevision = Op(a).expected
        /\ exists' = TRUE
        /\ history' = <<attempt[a].key>>
        /\ ready' = FALSE
        /\ applied' = applied \cup {a}
        /\ Continues(a)
     \/ /\ Op(a).kind = "import" /\ LatestRevision # Op(a).expected
        /\ Refused(a)
        /\ UNCHANGED <<exists, history, ready, applied>>
  /\ UNCHANGED <<responses, audited, events, operation>>

(* emit()                                                                  *)
AppendEvent(a) ==
  /\ Calls(a, "appendEvent")
  /\ events' = events \cup {a}
  /\ Continues(a)
  /\ UNCHANGED <<exists, history, ready, responses, applied, audited,
                 operation>>

(* Mutant: the later response wins.                                        *)
StoredLast(a) == a

(* putIdempotency(): the first response stored is the one answered.        *)
StoredFirst(a) ==
  IF responses[attempt[a].key] = None THEN a ELSE responses[attempt[a].key]

PutIdempotency(a) ==
  LET stored == StoredFirst(a) IN
  /\ Calls(a, "putIdempotency")
  /\ responses' = [responses EXCEPT ![attempt[a].key] = stored]
  /\ IF attempt[a].at = Len(Handler(a)) THEN Answers(a, stored)
     ELSE Continues(a)
  /\ UNCHANGED <<exists, history, ready, applied, audited, events, operation>>

Next ==
  \E a \in Attempts :
    \/ \E k \in Keys, p \in Processes : Start(a, k, p)
    \/ Abandon(a)
    \/ GetIdempotency(a) \/ CreateProject(a) \/ AppendAudit(a)
    \/ GetLatest(a) \/ GetReviewState(a)
    \/ CommitReplayed(a) \/ CommitRefused(a) \/ Commit(a)
    \/ ReplaceProject(a) \/ AppendEvent(a) \/ PutIdempotency(a)

Spec == Init /\ [][Next]_vars

-----------------------------------------------------------------------------
(* No handler goes on after its last repository call.                      *)
TypeOK ==
  /\ exists \in BOOLEAN /\ ready \in BOOLEAN
  /\ history \in Seq(RevisionIds)
  /\ responses \in [Keys -> Attempts \cup {None}]
  /\ applied \subseteq Attempts
  /\ audited \subseteq applied /\ events \subseteq applied
  /\ operation \in [Keys -> Operations]
  /\ attempt \in [Attempts -> AttemptStates]
  /\ ~exists => history = <<>> /\ ~ready
  /\ \A a \in Attempts :
       attempt[a].state = "running" =>
         LET kind == operation[attempt[a].key].kind
         IN  attempt[a].at \in DOMAIN RepositoryCalls(kind)

(* A retried design command takes effect once, whatever became of the      *)
(* first request and however long its last call was under way.  For the    *)
(* other operations idempotent() guards the answer, not the writes.        *)
DesignCommand(a) == Op(a).kind \in {"append", "ready"}

AppliedOnce ==
  \A a, b \in applied :
    DesignCommand(a) /\ attempt[a].key = attempt[b].key => a = b

(* "The service returns the originally stored response for a retry": all   *)
(* requests with one key that succeed get the same answer.                 *)
AnswersAgree ==
  \A a, b \in Attempts :
    /\ attempt[a].answer = "success" /\ attempt[b].answer = "success"
    /\ attempt[a].key = attempt[b].key
    => attempt[a].result = attempt[b].result

(* Nobody is told of a success that is not in the repository.              *)
SuccessMeansApplied ==
  \A a \in Attempts :
    attempt[a].answer = "success" =>
      /\ attempt[a].result \in applied
      /\ attempt[attempt[a].result].key = attempt[a].key

(* "Every successful mutation emits a durable event": what a client was    *)
(* told has succeeded has its event, and a created project its audit       *)
(* record.                                                                 *)
SuccessMeansEvent ==
  \A a \in Attempts :
    attempt[a].answer = "success" =>
      /\ attempt[a].result \in events
      /\ Op(a).kind = "create" => attempt[a].result \in audited

(* What idempotent() answers retries with is a mutation that has its event *)
(* and, where the handler writes one, its audit record.                    *)
ResponseMeansEvent ==
  \A k \in Keys :
    Idempotent(operation[k].kind) /\ responses[k] # None =>
      /\ responses[k] \in events
      /\ operation[k].kind = "create" => responses[k] \in audited

(* A retry of an idempotent() operation whose response is stored is        *)
(* answered with it, whatever has happened to the project since.  (A       *)
(* request that joins one in flight shares what that one found.)           *)
RetryNotRefused ==
  \A a \in Attempts :
    attempt[a].stored /\ Idempotent(Op(a).kind)
    => attempt[a].answer # "refused"

(* A stored response stands for its operation: what it says has its event, *)
(* whoever succeeds under its key is told the same, and nobody who finds   *)
(* it is refused (idempotent(), commitDesignRevision()).                   *)
ResponseStands == AnswersAgree /\ ResponseMeansEvent /\ RetryNotRefused

=============================================================================
