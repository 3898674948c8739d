--------------------------- MODULE AccessDecisions --------------------------
(***************************************************************************)
(* Access decisions under signed policies and entitlements:                *)
(* activateSignedPolicy and evaluateExternalAccess, each with a store of   *)
(* high-water marks that calls of several processes read and then replace  *)
(* by a compare-and-set, while policies and entitlements are revoked.      *)
(*                                                                         *)
(* One policy and one entitlement namespace.  A document is its revision   *)
(* and its digest; the digest stands for the expiry signed with it, and    *)
(* what a decision checks of session, time and scope is a choice to deny.  *)
(***************************************************************************)
EXTENDS Integers

CONSTANTS
  Calls,
  Revisions,   \* 1..n
  Digests,
  Retries,     \* how often advanceRevision tries again
  None

VARIABLES
  policyMark,  \* the policy store: None, or [revision, digest, revoked]
  mark,        \* the entitlement store, likewise
  decision     \* each decision's step, its documents, and what it has read

vars == <<policyMark, mark, decision>>

Documents == [revision : Revisions, digest : Digests]
Marks == [revision : Revisions, digest : Digests \cup {None},
          revoked : BOOLEAN] \cup {None}

Steps == {"idle", "verifying_policy", "reading_policy", "setting_policy",
          "activated", "checking_policy", "verifying", "cached", "advancing",
          "setting", "allowed", "denied"}

TypeOK ==
  /\ policyMark \in Marks /\ mark \in Marks
  /\ decision \in [Calls ->
       [step : Steps, policy : Documents \cup {None},
        entitlement : Documents \cup {None}, seen : Marks, tried : 0..Retries,
        doomed : BOOLEAN]]

Idle == [step |-> "idle", policy |-> None, entitlement |-> None, seen |-> None,
         tried |-> 0, doomed |-> FALSE]

Init ==
  /\ policyMark = None /\ mark = None
  /\ decision = [c \in Calls |-> Idle]

At(c, step) == decision[c].step = step
To(c, step) == decision' = [decision EXCEPT ![c].step = step]
Reads(c, m, step) ==
  decision' = [decision EXCEPT ![c].step = step, ![c].seen = m]

\* The call answers; an activation hands out its policy.
Answers(c, step) ==
  decision' = [decision EXCEPT ![c] = [Idle EXCEPT !.step = step]]
Allow(c) == Answers(c, "allowed")
Deny(c)  == Answers(c, "denied")
Activated(c) == decision' = [decision EXCEPT
  ![c] = [Idle EXCEPT !.step = "activated", !.policy = decision[c].policy]]

Of(document) == [revision |-> document.revision, digest |-> document.digest,
                 revoked |-> FALSE]

\* A revocation or a later revision stands against the document.
Overruled(m, document) ==
  m # None /\ \/ m.revision > document.revision
              \/ m.revision = document.revision /\ m.revoked

\* The store's compare-and-set.  A slip: revocations are not compared.
SameRevision(m, seen) ==
  IF m = None \/ seen = None THEN m = seen
  ELSE m.revision = seen.revision /\ m.digest = seen.digest
SameState(m, seen) == m = seen

-----------------------------------------------------------------------------
(* activateSignedPolicy.                                                   *)

Activate(c, p) ==
  /\ At(c, "idle")
  /\ decision' = [decision EXCEPT ![c] =
       [Idle EXCEPT !.step = "verifying_policy", !.policy = p,
                    !.doomed = Overruled(policyMark, p)]]
  /\ UNCHANGED <<policyMark, mark>>

VerifyPolicy(c) ==
  /\ At(c, "verifying_policy")
  /\ To(c, "reading_policy") \/ Deny(c)
  /\ UNCHANGED <<policyMark, mark>>

\* Revoked, or downgraded: by a lower revision, or another text of the same.
PolicyRefused(m, p) ==
  m # None /\ \/ m.revoked
              \/ m.revision > p.revision
              \/ m.revision = p.revision /\ m.digest # p.digest

ReadPolicy(c) ==
  LET m == policyMark  p == decision[c].policy IN
  /\ At(c, "reading_policy")
  /\ CASE PolicyRefused(m, p) -> Deny(c)
       [] m = Of(p)           -> Activated(c)
       [] OTHER               -> Reads(c, m, "setting_policy")
  /\ UNCHANGED <<policyMark, mark>>

SetPolicy(c) ==
  /\ At(c, "setting_policy")
  /\ IF SameState(policyMark, decision[c].seen)
     THEN policyMark' = Of(decision[c].policy) /\ Activated(c)
     ELSE Deny(c) /\ UNCHANGED policyMark
  /\ UNCHANGED mark

\* An administrator's, at the policy store.
RevokePolicy ==
  /\ policyMark # None /\ ~policyMark.revoked
  /\ policyMark' = [policyMark EXCEPT !.revoked = TRUE]
  /\ UNCHANGED <<mark, decision>>

-----------------------------------------------------------------------------
(* evaluateExternalAccess, under a policy that a call activated.           *)

Evaluate(c, a, e) ==
  /\ At(c, "idle") /\ At(a, "activated")
  /\ decision' = [decision EXCEPT ![c] =
       [Idle EXCEPT !.step = "checking_policy", !.entitlement = e,
                    !.policy = decision[a].policy,
                    !.doomed = \/ Overruled(policyMark, decision[a].policy)
                               \/ Overruled(mark, e)]]
  /\ UNCHANGED <<policyMark, mark>>

CheckPolicy(c) ==
  /\ At(c, "checking_policy")
  /\ \/ policyMark = Of(decision[c].policy) /\ To(c, "verifying")
     \/ Deny(c)
  /\ UNCHANGED <<policyMark, mark>>

\* "valid", "unavailable" or "invalid".
Verify(c) ==
  /\ At(c, "verifying")
  /\ To(c, "advancing") \/ To(c, "cached") \/ Deny(c)
  /\ UNCHANGED <<policyMark, mark>>

\* cachedEntitlementIsUsable, unless the grace period is over.
UseCached(c) ==
  /\ At(c, "cached")
  /\ \/ mark = Of(decision[c].entitlement) /\ Allow(c)
     \/ Deny(c)
  /\ UNCHANGED <<policyMark, mark>>

Overtaken(m, e) ==
  m # None /\ \/ m.revision > e.revision
              \/ m.revision = e.revision /\ m.revoked

\* advanceRevision.
Advance(c) ==
  LET e == decision[c].entitlement IN
  /\ At(c, "advancing")
  /\ CASE Overtaken(mark, e) -> Deny(c)
       [] mark = Of(e)       -> Allow(c)
       [] OTHER              -> Reads(c, mark, "setting")
  /\ UNCHANGED <<policyMark, mark>>

SetMark(c) ==
  /\ At(c, "setting")
  /\ IF SameState(mark, decision[c].seen)
     THEN mark' = Of(decision[c].entitlement) /\ Allow(c)
     ELSE /\ IF decision[c].tried < Retries
             THEN decision' = [decision EXCEPT
                    ![c].step = "advancing", ![c].tried = @ + 1,
                    ![c].seen = None]
             ELSE Deny(c)
          /\ UNCHANGED mark
  /\ UNCHANGED policyMark

\* revoke, at the revision in force or a later one.
Revoke(revision) ==
  /\ mark' = IF mark = None
             THEN [revision |-> revision, digest |-> None, revoked |-> TRUE]
             ELSE [mark EXCEPT !.revoked = TRUE,
                     !.revision = IF @ > revision THEN @ ELSE revision]
  /\ mark' # mark
  /\ UNCHANGED <<policyMark, decision>>

\* A store or the verifier fails: the answer is no, whatever took effect.
Fail(c) ==
  /\ decision[c].step \notin {"idle", "activated", "allowed", "denied"}
  /\ Deny(c)
  /\ \/ UNCHANGED <<policyMark, mark>>
     \/ /\ At(c, "setting_policy") /\ SameState(policyMark, decision[c].seen)
        /\ policyMark' = Of(decision[c].policy) /\ UNCHANGED mark
     \/ /\ At(c, "setting") /\ SameState(mark, decision[c].seen)
        /\ mark' = Of(decision[c].entitlement) /\ UNCHANGED policyMark

Next ==
  \/ \E c \in Calls :
       \/ \E d \in Documents :
            Activate(c, d) \/ \E a \in Calls : Evaluate(c, a, d)
       \/ VerifyPolicy(c) \/ ReadPolicy(c) \/ SetPolicy(c)
       \/ CheckPolicy(c) \/ Verify(c) \/ UseCached(c)
       \/ Advance(c) \/ SetMark(c) \/ Fail(c)
  \/ RevokePolicy
  \/ \E revision \in Revisions : Revoke(revision)

Spec == Init /\ [][Next]_vars

-----------------------------------------------------------------------------
(***************************************************************************)
(* However calls overlap, a mark is never lowered and a revocation never   *)
(* undone at its revision ("never evicts revision high-water marks"): a    *)
(* policy that is activated, and an access that is allowed, is by a        *)
(* document that nothing had overruled when the call began, also when the  *)
(* verifier cannot be reached (advanceRevision, compareAndSet).            *)
(***************************************************************************)
RevocationsHold ==
  [][/\ \A m \in {<<policyMark, policyMark'>>, <<mark, mark'>>} :
          m[1] # None =>
            /\ m[2] # None /\ m[2].revision >= m[1].revision
            /\ m[2].revision = m[1].revision /\ m[1].revoked => m[2].revoked
     /\ \A c \in Calls : decision[c].doomed =>
          decision'[c].step \notin {"activated", "allowed"}
    ]_vars
=============================================================================
