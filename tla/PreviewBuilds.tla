---------------------------- MODULE PreviewBuilds ----------------------------
(***************************************************************************)
(* BoundPreviewBuildCoordinator of the desktop host: callers that ask for  *)
(* the build of one identity share a compilation, the last one to leave    *)
(* aborts it, a compilation that takes too long is abandoned, and clean    *)
(* artifacts are kept, the most recently used last.                        *)
(* Every step is what runs between two awaits.                             *)
(***************************************************************************)
EXTENDS Integers, Sequences, SequencesExt

CONSTANTS
  Keys,      \* identities of builds with the digest of their workspace
  Callers,   \* calls of build(), numbered in the order they are made
  Retained,  \* maximumRetainedArtifacts
  None

VARIABLES
  call,      \* [Callers -> the call's phase, its key and the flight it joined]
  withdrawn, \* callers whose signal was aborted
  stale,     \* callers whose lease no longer passes assertActive()
  flight,    \* [Callers -> the flight this caller started]
  inFlight,  \* [Keys -> the starter of the flight a new caller joins]
  retained   \* keys of the kept artifacts, the next to be dropped first

vars == <<call, withdrawn, stale, flight, inFlight, retained>>

Outcomes == {"artifact", "aborted", "stale", "failed", "abandoned"}
Results == {"clean", "diagnostics", "failed", "abandoned"}
Aborts == {"no", "unwanted", "timeout", "cleared"}

TypeOK ==
  /\ call \in [Callers -> [phase : {"idle", "waiting"} \cup Outcomes,
                           key : Keys \cup {None},
                           flight : Callers \cup {None}]]
  /\ withdrawn \subseteq Callers /\ stale \subseteq Callers
  /\ flight \in [Callers -> [key : Keys \cup {None},
                             result : Results \cup {"none"},
                             waiters : SUBSET Callers, abort : Aborts]]
  /\ inFlight \in [Keys -> Callers \cup {None}]
  /\ retained \in Seq(Keys)

NoFlight ==
  [key |-> None, result |-> "none", waiters |-> {}, abort |-> "no"]

Init ==
  /\ call = [c \in Callers |->
               [phase |-> "idle", key |-> None, flight |-> None]]
  /\ withdrawn = {} /\ stale = {}
  /\ flight = [c \in Callers |-> NoFlight]
  /\ inFlight = [k \in Keys |-> None]
  /\ retained = <<>>

Reached(c) == \A d \in Callers : d < c => call[d].phase # "idle"
Settled(f) == flight[f].result # "none"

(* A Map iterates in insertion order: a key used again goes last.          *)
Renewed(k) == Append(SelectSeq(retained, LAMBDA x : x # k), k)
Trimmed(s) ==
  IF Len(s) > Retained THEN SubSeq(s, Len(s) - Retained + 1, Len(s)) ELSE s

-----------------------------------------------------------------------------
Return(c, outcome) ==
  call' = [call EXCEPT ![c] = [phase |-> outcome, key |-> None,
                               flight |-> None]]

(* build(), up to its await: a kept artifact is returned, a flight of the  *)
(* key is joined, or a new one is started.                                 *)
Build(c, k) ==
  /\ call[c].phase = "idle" /\ Reached(c)
  /\ IF c \in withdrawn \/ c \in stale
     THEN /\ Return(c, IF c \in withdrawn THEN "aborted" ELSE "stale")
          /\ UNCHANGED <<flight, inFlight, retained>>
     ELSE IF k \in ToSet(retained)
     THEN /\ retained' = Renewed(k)
          /\ Return(c, "artifact")
          /\ UNCHANGED <<flight, inFlight>>
     ELSE LET f == IF inFlight[k] # None THEN inFlight[k] ELSE c IN
          /\ call' = [call EXCEPT
                        ![c] = [phase |-> "waiting", key |-> k,
                                flight |-> f]]
          /\ flight' = [flight EXCEPT ![f].key = k,
                                      ![f].waiters = @ \cup {c}]
          /\ inFlight' = [inFlight EXCEPT ![k] = f]
          /\ UNCHANGED retained
  /\ UNCHANGED <<withdrawn, stale>>

(* Mutant: an abandoned flight stays where callers find it.                *)
StillListed(f) == inFlight

(* finish() of a caller that leaves: the last one to leave an unsettled    *)
(* flight aborts it, and no later caller finds it.                         *)
Unwanted(f, c) == flight[f].waiters = {c} /\ ~Settled(f)
Forgotten(f) ==
  [k \in Keys |-> IF inFlight[k] = f THEN None ELSE inFlight[k]]

Cancel(c) ==
  LET f == call[c].flight IN
  /\ c \notin withdrawn
  /\ call[c].phase \in {"idle", "waiting"} /\ Reached(c)
  /\ withdrawn' = withdrawn \cup {c}
  /\ IF call[c].phase # "waiting"
     THEN UNCHANGED <<call, flight, inFlight>>
     ELSE /\ Return(c, "aborted")
          /\ flight' = [flight EXCEPT
               ![f].waiters = @ \ {c},
               ![f].abort = IF Unwanted(f, c) THEN "unwanted" ELSE @,
               ![f].result = IF Unwanted(f, c) THEN "abandoned" ELSE @]
          /\ inFlight' = IF Unwanted(f, c) THEN Forgotten(f) ELSE inFlight
  /\ UNCHANGED <<stale, retained>>

(* The lease of a caller expires, is cancelled or replaced.                *)
Revoke(c) ==
  /\ c \notin stale
  /\ call[c].phase \in {"idle", "waiting"} /\ Reached(c)
  /\ stale' = stale \cup {c}
  /\ UNCHANGED <<call, withdrawn, flight, inFlight, retained>>

(* The compiler answers, with clean code, with diagnostics or with an      *)
(* error (a throw, another revision); after an abort nobody hears it.      *)
Answer(f, result) ==
  /\ flight[f].key # None /\ ~Settled(f)
  /\ result \in {"clean", "diagnostics", "failed"}
  /\ flight' = [flight EXCEPT ![f].result = result]
  /\ inFlight' = Forgotten(f)
  /\ UNCHANGED <<call, withdrawn, stale, retained>>

Abandon(f, cause) ==
  flight' = [flight EXCEPT ![f].abort = cause, ![f].result = "abandoned"]

Timeout(f) ==
  /\ flight[f].key # None /\ ~Settled(f)
  /\ Abandon(f, "timeout")
  /\ inFlight' = Forgotten(f)
  /\ UNCHANGED <<call, withdrawn, stale, retained>>

(* build(), after its await: the lease is asserted before a clean artifact *)
(* is kept.                                                                *)
Received(c, result) ==
  IF c \in stale
  THEN Return(c, "stale") /\ UNCHANGED retained
  ELSE /\ Return(c, "artifact")
       /\ retained' = IF result = "clean" THEN Trimmed(Renewed(call[c].key))
                      ELSE retained

Resume(c) ==
  LET f == call[c].flight IN
  /\ call[c].phase = "waiting" /\ Settled(f)
  /\ IF flight[f].result \in {"failed", "abandoned"}
     THEN Return(c, flight[f].result) /\ UNCHANGED retained
     ELSE Received(c, flight[f].result)
  /\ flight' = [flight EXCEPT
                   ![f] = IF flight[f].waiters = {c} THEN NoFlight
                          ELSE [flight[f] EXCEPT !.waiters = @ \ {c}]]
  /\ UNCHANGED <<withdrawn, stale, inFlight>>

Clear ==
  /\ \E k \in Keys : inFlight[k] # None \/ k \in ToSet(retained)
  /\ flight' = [f \in Callers |->
                  IF \E k \in Keys : inFlight[k] = f
                  THEN [flight[f] EXCEPT !.abort = "cleared",
                                         !.result = "abandoned"]
                  ELSE flight[f]]
  /\ inFlight' = [k \in Keys |-> None]
  /\ retained' = <<>>
  /\ UNCHANGED <<call, withdrawn, stale>>

Next ==
  \/ Clear
  \/ \E c \in Callers :
       \/ \E k \in Keys : Build(c, k)
       \/ Cancel(c) \/ Revoke(c) \/ Resume(c) \/ Timeout(c)
       \/ \E result \in Results : Answer(c, result)

Spec == Init /\ [][Next]_vars

-----------------------------------------------------------------------------
(* The caller that leaves never takes the build of another one along: a    *)
(* caller whose own signal was not aborted sees its compilation abandoned  *)
(* only by the timer or by clear(), and a flight that new callers join is  *)
(* one that still runs (finish() of join()).                               *)
SharedBuildSurvives ==
  /\ \A c \in Callers :
       call[c].phase = "waiting" =>
         flight[call[c].flight].abort # "unwanted"
  /\ \A k \in Keys : inFlight[k] # None => ~Settled(inFlight[k])

=============================================================================
