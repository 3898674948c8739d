--------------------------- MODULE EffectAdmission --------------------------
(***************************************************************************)
(* What the host effect supervisor promises about admission, without       *)
(* counters, frames, timers or signals: a call is either turned away or    *)
(* holds one of a bounded number of places until its effect has really     *)
(* ended, and an owner one of whose effects was abandoned takes nothing    *)
(* new until everything it runs has ended and it has been recovered.       *)
(***************************************************************************)
EXTENDS Integers, FiniteSets

CONSTANTS Owners, Calls, MaxConcurrentEffects, MaxConcurrentEffectsPerOwner

VARIABLES
  holders,      \* the calls that hold a place with each owner
  ended,        \* the calls that were turned away or have ended
  quarantined   \* the owners that take no new call

vars == <<holders, ended, quarantined>>

AllHolders == UNION {holders[o] : o \in Owners}

Init ==
  /\ holders = [o \in Owners |-> {}]
  /\ ended = {}
  /\ quarantined = {}

Admit(c, o) ==
  /\ c \notin ended \cup AllHolders
  /\ o \notin quarantined
  /\ Cardinality(holders[o]) < MaxConcurrentEffectsPerOwner
  /\ Cardinality(AllHolders) < MaxConcurrentEffects
  /\ holders' = [holders EXCEPT ![o] = @ \cup {c}]
  /\ UNCHANGED <<ended, quarantined>>

TurnAway(c) ==
  /\ c \notin ended \cup AllHolders
  /\ ended' = ended \cup {c}
  /\ UNCHANGED <<holders, quarantined>>

End(c, o) ==
  /\ c \in holders[o]
  /\ holders' = [holders EXCEPT ![o] = @ \ {c}]
  /\ ended' = ended \cup {c}
  /\ UNCHANGED quarantined

Quarantine(o) ==
  /\ holders[o] # {}
  /\ quarantined' = quarantined \cup {o}
  /\ UNCHANGED <<holders, ended>>

Recover(o) ==
  /\ o \in quarantined
  /\ holders[o] = {}
  /\ quarantined' = quarantined \ {o}
  /\ UNCHANGED <<holders, ended>>

Next ==
  \/ \E c \in Calls : TurnAway(c)
  \/ \E c \in Calls, o \in Owners : Admit(c, o) \/ End(c, o)
  \/ \E o \in Owners : Quarantine(o) \/ Recover(o)

Spec == Init /\ [][Next]_vars
=============================================================================
