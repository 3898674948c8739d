--------------------------- MODULE CollaborationMC --------------------------
(***************************************************************************)
(* The parts of the collaboration service around its projects, for TLC,    *)
(* side by side: review threads, AI change requests, the event stream,     *)
(* sign-in, access decisions and the outbox of security events.  A         *)
(* behaviour picks one of them at the start and follows it, the others     *)
(* stay as they begin.  They share no state in the code, and so their      *)
(* state spaces add up instead of multiplying.  Callers and events are     *)
(* named after the threads' calls and operations, so that one symmetry     *)
(* serves all.                                                             *)
(***************************************************************************)
EXTENDS ReviewThreads

CONSTANTS
  Requests, Results, MaxTime,         \* ChangeRequests
  PageSize, MaxPending, MaxCloses,    \* EventStream
  Transactions, MaxAccess,            \* SignIn
  EntitlementRevisions, Digests, Retries,                 \* AccessDecisions
  MaxAttempts, Lease, Capacity, Limit, Workers, MaxClock  \* SiemOutbox

\* What counts is a number.
ASSUME NumbersAssumption ==
  /\ MaxTime \in Nat /\ EntitlementRevisions \subseteq Nat
  /\ MaxAccess \in Nat \ {0} /\ MaxAttempts \in Nat /\ Lease \in Nat
  /\ Workers \in Nat /\ MaxClock \in Nat

VARIABLES
  part,
  now, requests, requestCall,
  reserved, cursors, emit, cursorOf, stream, phase, demand, pull, sent,
  received, closes,
  transactions, sessions, member, signIn, late,
  policyMark, mark, decision,
  clock, known, queue, dead, batch, siem, tries

threadVars == <<live, threads, receipts, backup, rowLock, projectLock,
                keyShare, scopeLock, call, applied, base, ever, crossed>>
requestVars == <<now, requests, requestCall>>
streamVars == <<reserved, cursors, emit, cursorOf, stream, phase, demand, pull,
                sent, received, closes>>
signInVars == <<transactions, sessions, member, signIn, late>>
accessVars == <<policyMark, mark, decision>>
outboxVars == <<clock, known, queue, dead, batch, siem, tries>>
hosted == <<requestVars, streamVars>>
guarded == <<signInVars, accessVars, outboxVars>>

AIRequest == INSTANCE ChangeRequests WITH
  Clients <- Operations, call <- requestCall

Stream == INSTANCE EventStream WITH Emits <- Calls

Browser == INSTANCE SignIn WITH Requests <- Calls, request <- signIn

Access == INSTANCE AccessDecisions WITH Revisions <- EntitlementRevisions

Outbox == INSTANCE SiemOutbox WITH
  Events <- Operations, Batches <- Calls, received <- siem

PartsInit ==
  /\ part \in {"threads", "requests", "stream", "sign-in", "access", "outbox"}
  /\ Init /\ AIRequest!Init /\ Stream!Init
  /\ Browser!Init /\ Access!Init /\ Outbox!Init
  /\ part \notin {"threads", "requests"} => repository = "memory"
  /\ part # "threads" => \A t \in Threads : threads[t] = None
  /\ part # "stream" => ~reserved

PartsNext ==
  \/ /\ part = "threads" /\ Next
     /\ UNCHANGED <<part, hosted, guarded>>
  \/ /\ part = "requests" /\ AIRequest!Next
     /\ UNCHANGED <<part, threadVars, streamVars, guarded>>
  \/ /\ part = "stream" /\ Stream!Next
     /\ UNCHANGED <<part, repository, threadVars, requestVars, guarded>>
  \/ /\ part = "sign-in" /\ Browser!Next
     /\ UNCHANGED <<part, repository, threadVars, hosted, accessVars,
                    outboxVars>>
  \/ /\ part = "access" /\ Access!Next
     /\ UNCHANGED <<part, repository, threadVars, hosted, signInVars,
                    outboxVars>>
  \/ /\ part = "outbox" /\ Outbox!Next
     /\ UNCHANGED <<part, repository, threadVars, hosted, signInVars,
                    accessVars>>

\* What is not there is none of what may be there.
ASSUME NothingAssumption ==
  /\ None \notin Nat /\ None \notin ThreadValues
  /\ None \notin [access : {None} \cup Nat, live : BOOLEAN]
  /\ None \notin [revision : Nat, digest : Digests \cup {None},
                  revoked : BOOLEAN]
  /\ LET Claims == [batch : Calls, until : Int] IN
       /\ None \notin Claims
       /\ None \notin [attempts : Nat, due : Int, claim : Claims \cup {None}]
  /\ \A es \in SUBSET Operations :
       None \notin [now : Nat, workers : Int,
                  claims : [es -> [attempts : Nat, step : Outbox!Steps]]]

PartsSpec ==
  PartsInit
    /\ [][PartsNext]_<<part, repository, threadVars, hosted, guarded>>

Symmetry == Permutations(Calls) \cup Permutations(Operations)

-----------------------------------------------------------------------------
RequestsFollowTheirPath == AIRequest!RequestsFollowTheirPath
ReaderFollowsHistory    == Stream!ReaderFollowsHistory
NoWakeUpLost            == Stream!NoWakeUpLost
SessionsKeepTheirAccess == Browser!SessionsKeepTheirAccess
RevocationsHold         == Access!RevocationsHold
EventsAreSettledOnce    == Outbox!EventsAreSettledOnce
=============================================================================
