------------------------------- MODULE SignIn -------------------------------
(***************************************************************************)
(* Sign-in with an external identity provider, HostedOidcBff over its      *)
(* store, and the requests authenticated by a session,                     *)
(* createBffIdentityProvider.  Requests of one browser overlap, in one     *)
(* process or several; a membership changes while a request resolves it;   *)
(* a store call that failed or was abandoned at its deadline may take      *)
(* effect later.  Each store call is one statement, or one turn of the     *)
(* in-memory store.                                                        *)
(*                                                                         *)
(* A session is named after the callback request that made it, its access  *)
(* is the version of the membership; organisations and tokens are left     *)
(* out.                                                                    *)
(***************************************************************************)
EXTENDS Integers, FiniteSets

CONSTANTS
  Transactions,
  Requests,     \* HTTP requests, each made at most once
  MaxAccess,    \* bound: versions of the membership
  None

VARIABLES
  transactions,  \* "none", "open" or "gone"
  sessions,      \* None, or [access, live]
  member,        \* the membership: [access, active]
  request,       \* each request's step, and what it has read
  late           \* store calls given up that may still take effect

vars == <<transactions, sessions, member, request, late>>

StoreSteps == {"consuming", "creating", "reading", "binding", "rereading",
               "revoking", "ending"}
Steps == StoreSteps \cup {"idle", "exchanging", "signed_in", "resolving",
                          "authenticated", "denied", "out", "failed"}

TypeOK ==
  /\ transactions \in [Transactions -> {"none", "open", "gone"}]
  /\ sessions \in [Requests -> [access : {None} \cup 1..MaxAccess,
                                live : BOOLEAN] \cup {None}]
  /\ member \in [access : 1..MaxAccess, active : BOOLEAN]
  /\ request \in [Requests ->
       [step : Steps, on : Transactions \cup Requests \cup {None},
        seen : {None} \cup 1..MaxAccess, access : {None} \cup 1..MaxAccess,
        begun : 1..MaxAccess, exchanged : BOOLEAN, ended : BOOLEAN]]
  /\ \A l \in late : l.step \in {"consuming", "binding", "revoking", "ending"}

Init ==
  /\ transactions = [t \in Transactions |-> "none"]
  /\ sessions = [r \in Requests |-> None]
  /\ member = [access |-> 1, active |-> TRUE]
  /\ request = [r \in Requests |->
       [step |-> "idle", on |-> None, seen |-> None, access |-> None,
        begun |-> 1, exchanged |-> FALSE, ended |-> FALSE]]
  /\ late = {}

-----------------------------------------------------------------------------
(* The store.                                                              *)

Live(s) == sessions[s] # None /\ sessions[s].live

\* bindSessionAccess.  A slip: of any session that is not revoked.
BindableLive(s) == Live(s)
Bindable(s) == Live(s) /\ sessions[s].access = None

Consumed(t) == [transactions EXCEPT ![t] = "gone"]
Bound(s, access) ==
  IF Bindable(s) THEN [sessions EXCEPT ![s].access = access] ELSE sessions
Ended(s) ==
  IF sessions[s] = None THEN sessions
  ELSE [sessions EXCEPT ![s].live = FALSE]

-----------------------------------------------------------------------------
At(r, step) == request[r].step = step
To(r, step) == request' = [request EXCEPT ![r].step = step]

\* A request begins; it carries a transaction's cookie or a session's.
Asks(r, on, step) ==
  /\ At(r, "idle")
  /\ request' = [request EXCEPT ![r].step = step, ![r].on = on,
                                ![r].begun = member.access]
  /\ UNCHANGED <<transactions, sessions, member, late>>

Begin(t) ==
  /\ transactions[t] = "none"
  /\ transactions' = [transactions EXCEPT ![t] = "open"]
  /\ UNCHANGED <<sessions, member, request, late>>

Callback(r) == \E t \in Transactions :
                     transactions[t] # "none" /\ Asks(r, t, "consuming")
Authenticate(r) == \E s \in Requests :
                     At(s, "signed_in") /\ Asks(r, s, "reading")
Logout(r)       == \E s \in Requests :
                     At(s, "signed_in") /\ Asks(r, s, "ending")

\* complete: a transaction that is no longer there, or is by the host's own
\* clock too old, ends the request.
Consume(r) ==
  LET t == request[r].on IN
  /\ At(r, "consuming")
  /\ transactions' = Consumed(t)
  /\ \/ transactions[t] = "open" /\ To(r, "exchanging")
     \/ To(r, "failed")
  /\ UNCHANGED <<sessions, member, late>>

\* The provider's answer, or its failure; the code is used up either way.
Exchange(r) ==
  /\ At(r, "exchanging")
  /\ \E step \in {"creating", "failed"} :
       request' = [request EXCEPT ![r].step = step, ![r].exchanged = TRUE]
  /\ UNCHANGED <<transactions, sessions, member, late>>

CreateSession(r) ==
  /\ At(r, "creating")
  /\ sessions' = [sessions EXCEPT ![r] = [access |-> None, live |-> TRUE]]
  /\ To(r, "signed_in")
  /\ UNCHANGED <<transactions, member, late>>

-----------------------------------------------------------------------------
\* By the host's own clock the session may be over already.
ReadSession(r) ==
  LET s == request[r].on IN
  /\ At(r, "reading")
  /\ IF Live(s)
     THEN \/ request' = [request EXCEPT ![r].step = "resolving",
                                        ![r].seen = sessions[s].access]
          \/ To(r, "revoking")
     ELSE To(r, "denied")
  /\ UNCHANGED <<transactions, sessions, member, late>>

\* The resolver's answer is compared with the access the session had.
Decision(r, access) ==
  CASE request[r].seen = None -> "binding"
    [] request[r].seen = access -> "authenticated"
    [] OTHER -> "revoking"

\* It may also find no membership, or throw.
Resolve(r) ==
  /\ At(r, "resolving")
  /\ \/ /\ member.active
        /\ request' = [request EXCEPT ![r].access = member.access,
                         ![r].step = Decision(r, member.access)]
     \/ To(r, "revoking")
  /\ UNCHANGED <<transactions, sessions, member, late>>

Bind(r) ==
  LET s == request[r].on IN
  /\ At(r, "binding")
  /\ sessions' = Bound(s, request[r].access)
  /\ To(r, IF Bindable(s) THEN "authenticated" ELSE "rereading")
  /\ UNCHANGED <<transactions, member, late>>

\* Another request has bound the session.
ReadAgain(r) ==
  LET s == request[r].on IN
  /\ At(r, "rereading")
  /\ \/ Live(s) /\ sessions[s].access = request[r].access
        /\ To(r, "authenticated")
     \/ To(r, "revoking")
  /\ UNCHANGED <<transactions, sessions, member, late>>

Revoke(r) ==
  /\ At(r, "revoking")
  /\ sessions' = Ended(request[r].on)
  /\ To(r, "denied")
  /\ UNCHANGED <<transactions, member, late>>

\* logout: the session is consumed, its tokens are revoked at the provider.
EndSession(r) ==
  LET s == request[r].on IN
  /\ At(r, "ending")
  /\ sessions' = Ended(s)
  /\ request' = [request EXCEPT ![r].step = "out", ![r].ended = Live(s)]
  /\ UNCHANGED <<transactions, member, late>>

-----------------------------------------------------------------------------
\* A store call fails: it had no effect, or will have it later.
Fail(r) ==
  /\ request[r].step \in StoreSteps
  /\ To(r, "failed")
  /\ \/ UNCHANGED late
     \/ /\ request[r].step \in {"consuming", "binding", "revoking", "ending"}
        /\ late' = late \cup {[step |-> request[r].step, on |-> request[r].on,
                               access |-> request[r].access]}
  /\ UNCHANGED <<transactions, sessions, member>>

TakesEffect(l) ==
  /\ late' = late \ {l}
  /\ \/ /\ l.step = "consuming" /\ transactions' = Consumed(l.on)
        /\ UNCHANGED sessions
     \/ /\ l.step = "binding" /\ sessions' = Bound(l.on, l.access)
        /\ UNCHANGED transactions
     \/ /\ l.step \in {"revoking", "ending"} /\ sessions' = Ended(l.on)
        /\ UNCHANGED transactions
  /\ UNCHANGED <<member, request>>

\* The membership is changed, taken away, or given again.
MembershipChanges ==
  /\ member.access < MaxAccess
  /\ \E active \in BOOLEAN :
       member' = [access |-> member.access + 1, active |-> active]
  /\ UNCHANGED <<transactions, sessions, request, late>>

\* cleanupExpired.
Expire ==
  /\ \/ \E t \in Transactions : /\ transactions[t] = "open"
                                /\ transactions' = Consumed(t)
        /\ UNCHANGED sessions
     \/ \E s \in Requests : Live(s) /\ sessions' = Ended(s)
        /\ UNCHANGED transactions
  /\ UNCHANGED <<member, request, late>>

Next ==
  \/ \E t \in Transactions : Begin(t)
  \/ \E r \in Requests :
       \/ Callback(r) \/ Consume(r) \/ Exchange(r) \/ CreateSession(r)
       \/ Authenticate(r) \/ ReadSession(r) \/ Resolve(r) \/ Bind(r)
       \/ ReadAgain(r) \/ Revoke(r) \/ Logout(r) \/ EndSession(r) \/ Fail(r)
  \/ \E l \in late : TakesEffect(l)
  \/ MembershipChanges \/ Expire

Spec == Init /\ [][Next]_vars

-----------------------------------------------------------------------------
Authenticated(s) ==
  {r \in Requests : At(r, "authenticated") /\ request[r].on = s}

(***************************************************************************)
(* However requests overlap, store calls fail and take effect late, and    *)
(* the membership changes: all requests a session authenticates have one   *)
(* and the same access, none of them an access from before it began        *)
(* ("must equal the active membership version on every authenticated       *)
(* request"); a transaction's code is exchanged once (consumeTransaction)  *)
(* and a session's tokens are given to one logout (consumeSession).        *)
(***************************************************************************)
SessionsKeepTheirAccess ==
  /\ \A s \in Requests : \A q, r \in Authenticated(s) :
       /\ request[q].access = request[r].access
       /\ request[r].access >= request[r].begun
  /\ \A q, r \in Requests :
       q # r /\ request[q].on = request[r].on =>
         /\ ~(request[q].exchanged /\ request[r].exchanged)
         /\ ~(request[q].ended /\ request[r].ended)
=============================================================================
