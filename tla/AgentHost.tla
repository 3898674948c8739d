------------------------------ MODULE AgentHost ------------------------------
(***************************************************************************)
(* ElectronAgentHost and the AgentProtocolSession it keeps: requests to an *)
(* agent process that speaks JSONL over its pipes.  The process may send   *)
(* any frame at any time, also after it was killed, until it is gone.      *)
(* Every action is one callback: a timer, an abort, a frame, an exit.      *)
(***************************************************************************)
CONSTANTS
  Requests,  \* requests made of this host; each is made once
  Timed      \* those made with timeoutMs

VARIABLES
  process,   \* the agent process: not spawned, running or gone
  attached,  \* the host holds the process: child is not undefined
  hello,     \* helloPromise
  greeted,   \* the session accepted a hello
  session,   \* the session's state of each request
  pending,   \* requests in the host's map
  due,       \* pending requests whose timeout timer runs
  grace,     \* pending requests whose cancellation timer runs
  outcome,   \* what each caller has heard
  aborted,   \* callers' signals
  cancels    \* requests a cancel frame was sent for

vars == <<process, attached, hello, greeted, session, pending, due, grace,
          outcome, aborted, cancels>>

Outcomes == {"completed", "cancelled", "failed"}

TypeOK ==
  /\ process \in {"none", "running", "gone"}
  /\ attached \in BOOLEAN /\ greeted \in BOOLEAN
  /\ hello \in {"none", "waiting", "resolved", "rejected"}
  /\ session \in [Requests -> {"unused", "active", "cancelling", "retired"}]
  /\ outcome \in [Requests -> {"none", "starting", "waiting"} \cup Outcomes]
  /\ pending \subseteq Requests /\ due \subseteq pending
  /\ grace \subseteq pending
  /\ aborted \subseteq Requests /\ cancels \subseteq Requests

Init ==
  /\ process = "none" /\ attached = FALSE
  /\ hello = "none" /\ greeted = FALSE
  /\ session = [r \in Requests |-> "unused"]
  /\ outcome = [r \in Requests |-> "none"]
  /\ pending = {} /\ due = {} /\ grace = {}
  /\ aborted = {} /\ cancels = {}

Writable == attached /\ process = "running"

(* finish(): the timers go, the entry goes, the promise settles - unless   *)
(* it has settled already.                                                 *)
Settle(rs, result) ==
  outcome' = [r \in Requests |->
                IF r \in rs /\ outcome[r] = "waiting" THEN result
                ELSE outcome[r]]
Finish(r, result) ==
  /\ Settle({r}, result)
  /\ pending' = pending \ {r} /\ due' = due \ {r} /\ grace' = grace \ {r}

(* Mutant: those who wait for the hello are forgotten.                     *)
FailPending ==
  /\ UNCHANGED hello
  /\ Settle(pending, "failed")
  /\ pending' = {} /\ due' = {} /\ grace' = {}

(* failAll(): the hello is rejected if it is outstanding, as is every      *)
(* pending request.                                                        *)
FailAll ==
  /\ hello' = IF hello = "waiting" THEN "rejected" ELSE hello
  /\ Settle(pending, "failed")
  /\ pending' = {} /\ due' = {} /\ grace' = {}

-----------------------------------------------------------------------------
(* request() up to its await; the first one spawns the process and greets  *)
(* it.                                                                     *)
Request(r) ==
  /\ outcome[r] = "none"
  /\ outcome' = [outcome EXCEPT ![r] = "starting"]
  /\ IF hello = "none"
     THEN process' = "running" /\ attached' = TRUE /\ hello' = "waiting"
     ELSE UNCHANGED <<process, attached, hello>>
  /\ UNCHANGED <<greeted, session, pending, due, grace, aborted, cancels>>

GivenUp(r) == hello = "rejected" \/ r \in aborted

(* request() after its await.  A write that fails rejects the promise and  *)
(* leaves the entry and its timer.                                         *)
Begin(r) ==
  /\ outcome[r] = "starting" /\ hello \in {"resolved", "rejected"}
  /\ IF GivenUp(r)
     THEN /\ outcome' = [outcome EXCEPT
               ![r] = IF hello = "rejected" THEN "failed" ELSE "cancelled"]
          /\ UNCHANGED <<session, pending, due>>
     ELSE /\ session' = [session EXCEPT ![r] = "active"]
          /\ pending' = pending \cup {r}
          /\ due' = IF r \in Timed THEN due \cup {r} ELSE due
          /\ outcome' = [outcome EXCEPT
               ![r] = IF Writable THEN "waiting" ELSE "failed"]
  /\ UNCHANGED <<process, attached, hello, greeted, grace, aborted, cancels>>

(* Mutant: the session is not told of a cancellation.                      *)
LeftActive(r) == "active"

(* cancelRequest() of the session.                                         *)
Cancelled(r) == "cancelling"

(* cancel(): a second cancellation throws in the session before anything   *)
(* is written; a write that fails starts no cancellation timer.            *)
Cancel(r) ==
  IF session[r] # "active"
  THEN UNCHANGED <<session, grace, cancels>>
  ELSE /\ session' = [session EXCEPT ![r] = Cancelled(r)]
       /\ grace' = IF Writable THEN grace \cup {r} ELSE grace
       /\ cancels' = IF Writable THEN cancels \cup {r} ELSE cancels

Timeout(r) ==
  /\ r \in due
  /\ due' = due \ {r}
  /\ Cancel(r)
  /\ UNCHANGED <<process, attached, hello, greeted, pending, outcome, aborted>>

Abort(r) ==
  /\ outcome[r] # "none" /\ r \notin aborted
  /\ aborted' = aborted \cup {r}
  /\ IF r \in pending THEN Cancel(r) ELSE UNCHANGED <<session, grace, cancels>>
  /\ UNCHANGED <<process, attached, hello, greeted, pending, due, outcome>>

(* No acknowledgement within the grace period: the request ends, and the   *)
(* process is sent a signal.                                               *)
GraceOver(r) ==
  /\ r \in grace
  /\ Finish(r, "cancelled")
  /\ UNCHANGED <<process, attached, hello, greeted, session, aborted, cancels>>

-----------------------------------------------------------------------------
(* Frames.  acceptIncoming() checks them; a frame it refuses, like one     *)
(* that cannot be parsed, fails every request and kills the process.       *)
Heard == process = "running"
ProtocolFailure ==
  /\ FailAll
  /\ UNCHANGED <<process, attached, greeted, session, aborted, cancels>>

Malformed == Heard /\ ProtocolFailure

Hello ==
  /\ Heard
  /\ IF greeted THEN ProtocolFailure
     ELSE /\ greeted' = TRUE
          /\ hello' = IF hello = "waiting" THEN "resolved" ELSE hello
          /\ UNCHANGED <<process, attached, session, pending, due, grace,
                         outcome, aborted, cancels>>

Terminal == {"completed", "cancelled", "error"}
Accepts(r, type) ==
  \/ session[r] = "active"
  \/ session[r] = "cancelling" /\ type # "completed"

(* Progress changes nothing here; a terminal frame retires the request.    *)
Frame(r, type) ==
  /\ Heard /\ type \in Terminal
  /\ IF Accepts(r, type)
     THEN /\ session' = [session EXCEPT ![r] = "retired"]
          /\ Finish(r, CASE type = "completed" -> "completed"
                         [] type = "cancelled" -> "cancelled"
                         [] type = "error" -> "failed")
          /\ UNCHANGED <<process, attached, hello, greeted, aborted, cancels>>
     ELSE ProtocolFailure

(* An error without a request, and the failure of the process itself: all  *)
(* requests fail; the process is not killed.                               *)
Uncorrelated ==
  /\ Heard /\ FailAll
  /\ UNCHANGED <<process, attached, greeted, session, aborted, cancels>>

Exit ==
  /\ process = "running"
  /\ process' = "gone"
  /\ FailAll
  /\ UNCHANGED <<attached, greeted, session, aborted, cancels>>

HelloTimeout == hello = "waiting" /\ ProtocolFailure

Stop ==
  /\ attached
  /\ attached' = FALSE
  /\ FailAll
  /\ UNCHANGED <<process, greeted, session, aborted, cancels>>

Next ==
  \/ Malformed \/ Hello \/ Uncorrelated \/ Exit \/ HelloTimeout \/ Stop
  \/ \E r \in Requests :
       \/ Request(r) \/ Begin(r) \/ Timeout(r) \/ Abort(r) \/ GraceOver(r)
       \/ \E type \in Terminal : Frame(r, type)

(* Timers fire and settled promises resume their callers; the agent        *)
(* process owes nothing, not even its end.                                 *)
Fairness ==
  /\ WF_vars(HelloTimeout)
  /\ \A r \in Requests :
       WF_vars(Begin(r)) /\ WF_vars(Timeout(r)) /\ WF_vars(GraceOver(r))

Spec == Init /\ [][Next]_vars
FairSpec == Spec /\ Fairness

-----------------------------------------------------------------------------
(* Once the agent has been told to cancel a request, no answer of its can  *)
(* complete it, whichever of the abort, the timer and the answer came      *)
(* first on its side (acceptIncoming: "Cancelled request completed").      *)
CancelledNeverCompletes ==
  \A r \in cancels : outcome[r] # "completed"

(* Nobody waits for the agent alone: who waits for the greeting waits for  *)
(* a promise that was made; who waits for an answer is in the host's map,  *)
(* over a pipe that can be written, and with a timeout or after an abort   *)
(* one of the request's timers runs - though a cancellation stops the      *)
(* timeout's, and a second one throws (cancel(), finish(), failAll()).     *)
EndIsDue ==
  \A r \in Requests :
    /\ outcome[r] = "starting" => hello # "none"
    /\ outcome[r] = "waiting" =>
         /\ r \in pending /\ Writable
         /\ r \in Timed => r \in due \cup grace
         /\ r \in aborted => r \in grace

(* A request with a timeout ends, though the agent never greets, answers,  *)
(* acknowledges a cancellation or dies, and though the second of two       *)
(* cancellations throws; so does a request whose caller aborts it.         *)
RequestsSettle ==
  \A r \in Requests :
    outcome[r] \in {"starting", "waiting"} /\ (r \in Timed \/ r \in aborted)
      ~> outcome[r] \in Outcomes

=============================================================================
