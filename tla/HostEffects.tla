---------------------------- MODULE HostEffects ----------------------------
(***************************************************************************)
(* The host effect supervisor of packages/host-runtime: one admission pool *)
(* shared by every supervisor of a process, through which each effect of   *)
(* an external provider (an identity provider, a database port, an agent)  *)
(* is admitted, bounded, timed out, abandoned and finally drained.         *)
(*                                                                         *)
(* JavaScript runs each callback to completion, so a step of this module   *)
(* is one uninterrupted stretch of code.  The stretches are short because  *)
(* `run` calls out: into the caller's signal, the host's clock and         *)
(* scheduler, the owner's method, and the subscribers of a cancellation.   *)
(* Anything may be called from there, `run` included.  `stack` holds the   *)
(* supervisor's frames that are waiting for such a callee to return; only  *)
(* the innermost can continue, and no promise settles while it is not      *)
(* empty.  Two callees are taken not to call back: `now` and the removal   *)
(* of a timer or a listener.                                               *)
(***************************************************************************)
EXTENDS Integers, Sequences, FiniteSets

CONSTANTS
  Owners,                        \* provider objects effects are run on
  Calls,                         \* calls of run(); each is made at most once
  Observers,                     \* callers of whenOwnerIdle()
  MaxConcurrentEffects,          \* admission limit of the process
  MaxConcurrentEffectsPerOwner,  \* admission limit of one owner
  MaxTime                        \* bound on the readings of the host's clock

ASSUME LimitsAssumption ==
  /\ MaxConcurrentEffects \in Nat \ {0}
  /\ MaxConcurrentEffectsPerOwner \in Nat \ {0}
ASSUME CallsAssumption == IsFiniteSet(Calls)
ASSUME TimeAssumption == MaxTime \in Nat

VARIABLES
  lastNow,         \* the pool's last accepted clock value, Unset before it
  active,          \* the pool's activeReservations
  nextGeneration,  \* the pool's generation counter
  owner,           \* the pool's WeakMap of owner states
  phase,           \* how far each call has come
  request,         \* the snapshot of each reserved call's arguments
  pending,         \* the abandonment noted while a call was initializing
  reason,          \* the cancellation reason the effect's context shows
  outcome,         \* what the caller's promise was settled with
  aborted,         \* reserved calls whose caller has aborted the signal
  listening,       \* calls whose abort listener is attached
  timers,          \* calls whose deadline timer is armed
  stack,           \* supervisor frames waiting for a callee, innermost first
  watch            \* the idle epoch each observer waits for

poolVars == <<active, nextGeneration, owner>>
callVars == <<phase, request, pending, reason, outcome, aborted, listening,
              timers>>
vars == <<lastNow, poolVars, callVars, stack, watch>>

Unset == -1
NoOwner == "no owner"

(* The host's clock is outside this code: now() may read any value, also   *)
(* one before the last.                                                    *)
Times == 0..MaxTime
Deadlines == Times \cup {Unset}

(* What run()'s promise is settled with.  Every refusal before the effect  *)
(* starts is "refused", whatever its code.                                 *)
AbandonCodes == {"CALLER_ABORTED", "DEADLINE_EXCEEDED"}
Outcomes == {"unsettled", "refused", "answered"} \cup AbandonCodes

Initializing == {"attach", "arm", "begin"}
ReservedPhases == Initializing \cup {"running"}
Phases == {"idle", "done"} \cup ReservedPhases

OwnerStates ==
  [known : BOOLEAN, reservations : Nat, quarantined : BOOLEAN,
   generation : Nat, epoch : Nat]
Requests ==
  [owner : Owners \cup {NoOwner}, deadline : Deadlines, signal : BOOLEAN,
   generation : Nat]
Watches ==
  [owner : Owners \cup {NoOwner}, epoch : Nat, calls : SUBSET Calls,
   woken : BOOLEAN]
Frames == Calls \X ({"setup"} \cup AbandonCodes)

NoRequest ==
  [owner |-> NoOwner, deadline |-> Unset, signal |-> FALSE, generation |-> 0]
NoWatch == [owner |-> NoOwner, epoch |-> 0, calls |-> {}, woken |-> FALSE]

TypeOK ==
  /\ lastNow \in Times \cup {Unset}
  /\ active \in Nat
  /\ nextGeneration \in Nat
  /\ owner \in [Owners -> OwnerStates]
  /\ phase \in [Calls -> Phases]
  /\ request \in [Calls -> Requests]
  /\ pending \in [Calls -> AbandonCodes \cup {"none"}]
  /\ reason \in [Calls -> AbandonCodes \cup {"none"}]
  /\ outcome \in [Calls -> Outcomes]
  /\ aborted \subseteq Calls
  /\ listening \subseteq Calls
  /\ timers \subseteq Calls
  /\ stack \in Seq(Frames)
  /\ watch \in [Observers -> Watches]

Init ==
  /\ lastNow = Unset
  /\ active = 0
  /\ nextGeneration = 0
  /\ owner = [o \in Owners |->
       [known |-> FALSE, reservations |-> 0, quarantined |-> FALSE,
        generation |-> 0, epoch |-> 0]]
  /\ phase = [c \in Calls |-> "idle"]
  /\ request = [c \in Calls |-> NoRequest]
  /\ pending = [c \in Calls |-> "none"]
  /\ reason = [c \in Calls |-> "none"]
  /\ outcome = [c \in Calls |-> "unsettled"]
  /\ aborted = {}
  /\ listening = {}
  /\ timers = {}
  /\ stack = <<>>
  /\ watch = [w \in Observers |-> NoWatch]

(***************************************************************************)
(* Reservations.                                                           *)
(***************************************************************************)
Reserved(c) == phase[c] \in ReservedPhases
OwnerCalls(o) == {c \in Calls : Reserved(c) /\ request[c].owner = o}

(* now(): a reading before the last accepted one is refused and forgotten. *)
ClockAccepts(t) == t >= lastNow

(* ownerState(create): the first use of an owner gives it a generation.    *)
Known(o) ==
  IF owner[o].known THEN owner[o]
  ELSE [owner[o] EXCEPT !.known = TRUE, !.generation = nextGeneration + 1]
GenerationAfterLookup(o) ==
  IF owner[o].known THEN nextGeneration ELSE nextGeneration + 1

Admissible(o) ==
  /\ ~owner[o].quarantined
  /\ owner[o].reservations < MaxConcurrentEffectsPerOwner
  /\ active < MaxConcurrentEffects

(* reserve(): the first reservation of an owner opens a fresh idle epoch.  *)
Reserve(o) ==
  /\ Admissible(o)
  /\ active' = active + 1
  /\ nextGeneration' = GenerationAfterLookup(o)
  /\ owner' = [owner EXCEPT ![o] =
       [Known(o) EXCEPT !.reservations = @ + 1,
                        !.epoch = IF owner[o].reservations = 0
                                  THEN @ + 1 ELSE @]]

(* Mutant: any release resolves the idle epoch.                            *)
ReleaseWakesEarly(o) ==
  /\ active' = active - 1
  /\ owner' = [owner EXCEPT ![o].reservations = @ - 1]
  /\ watch' = [w \in Observers |->
       [watch[w] EXCEPT !.woken = @ \/ /\ watch[w].owner = o
                                       /\ watch[w].epoch = owner[o].epoch]]
  /\ UNCHANGED nextGeneration

(* release(): the last reservation of an owner resolves its idle epoch,    *)
(* which wakes everyone who was handed that epoch's promise.               *)
Release(o) ==
  /\ active' = active - 1
  /\ owner' = [owner EXCEPT ![o].reservations = @ - 1]
  /\ watch' = [w \in Observers |->
       [watch[w] EXCEPT !.woken =
          @ \/ /\ owner[o].reservations = 1
               /\ watch[w].owner = o /\ watch[w].epoch = owner[o].epoch]]
  /\ UNCHANGED nextGeneration

(* cleanup(): the timer is cancelled and the listener removed.  Both are   *)
(* best effort in the code; a callback that comes anyway finds the caller  *)
(* settled and does nothing, so it needs no step here.                     *)
Cleanup(c) ==
  /\ timers' = timers \ {c}
  /\ listening' = listening \ {c}

(* releaseReservation() and the end of a call: the locals of invoke() are  *)
(* garbage from here on.                                                   *)
Finish(c) ==
  /\ phase' = [phase EXCEPT ![c] = "done"]
  /\ request' = [request EXCEPT ![c] = NoRequest]
  /\ pending' = [pending EXCEPT ![c] = "none"]
  /\ reason' = [reason EXCEPT ![c] = "none"]
  /\ aborted' = aborted \ {c}
  /\ Cleanup(c)
  /\ Release(request[c].owner)

(* settleEffect(): early, or long after the caller was told of the         *)
(* abandonment, which the caller's answer then stays.                      *)
SettleEffect(c) ==
  /\ Finish(c)
  /\ outcome' = [outcome EXCEPT ![c] =
       IF @ = "unsettled" THEN "answered" ELSE @]

(* beforeStart(): the effect never started; its reservation is given back  *)
(* and the caller is refused without quarantining the owner.               *)
BeforeStart(c) ==
  /\ Finish(c)
  /\ outcome' = [outcome EXCEPT ![c] = "refused"]
  /\ stack' = Tail(stack)

(***************************************************************************)
(* run(): refusals, in the order the code looks for them.                  *)
(***************************************************************************)
Refuse(c) ==
  /\ phase[c] = "idle"
  /\ phase' = [phase EXCEPT ![c] = "done"]
  /\ outcome' = [outcome EXCEPT ![c] = "refused"]
  /\ UNCHANGED <<active, request, pending, reason, aborted, listening, timers,
                 stack, watch>>

(* INVALID_OPTIONS or CALLER_ABORTED, before the clock is read; or         *)
(* INVALID_CONFIGURATION, a clock that runs backwards.                     *)
RunRefusedEarly(c) ==
  /\ Refuse(c)
  /\ UNCHANGED <<lastNow, nextGeneration, owner>>

(* DEADLINE_EXCEEDED or INVALID_EFFECT_METHOD.                             *)
RunRefusedLate(c, t) ==
  /\ ClockAccepts(t)
  /\ lastNow' = t
  /\ Refuse(c)
  /\ UNCHANGED <<nextGeneration, owner>>

(* reserve() refuses; the owner state it looked up or created stays.       *)
RunNotAdmitted(c, o, t) ==
  /\ ClockAccepts(t)
  /\ lastNow' = t
  /\ ~Admissible(o)
  /\ owner' = [owner EXCEPT ![o] = Known(o)]
  /\ nextGeneration' = GenerationAfterLookup(o)
  /\ Refuse(c)

(***************************************************************************)
(* run(): admission, and the stretches of invoke() between its callees.    *)
(***************************************************************************)
FirstPhase(deadline, signal) ==
  IF signal THEN "attach" ELSE IF deadline # Unset THEN "arm" ELSE "running"

Run(c, o, deadline, signal, t) ==
  /\ phase[c] = "idle"
  /\ ClockAccepts(t)
  /\ lastNow' = t
  /\ deadline # Unset => deadline > t
  /\ Reserve(o)
  /\ request' = [request EXCEPT ![c] =
       [owner |-> o, deadline |-> deadline, signal |-> signal,
        generation |-> Known(o).generation]]
  /\ phase' = [phase EXCEPT ![c] = FirstPhase(deadline, signal)]
  /\ stack' = <<<<c, "setup">>>> \o stack
  /\ UNCHANGED <<pending, reason, outcome, aborted, listening, timers, watch>>

InSetup(c, p) == stack # <<>> /\ Head(stack) = <<c, "setup">> /\ phase[c] = p

(* pending ??= code                                                        *)
Noted(c, code) == IF pending[c] = "none" THEN code ELSE pending[c]

(* Mutant: only an abort that is still to come is heard.                   *)
HeardLater(c) == FALSE

HeardAlready(c) == c \in aborted

(* The listener is attached and the signal read again: it may have been    *)
(* aborted since run() looked.                                             *)
AttachListener(c) ==
  /\ InSetup(c, "attach")
  /\ listening' = listening \cup {c}
  /\ pending' = IF HeardAlready(c)
                THEN [pending EXCEPT ![c] = Noted(c, "CALLER_ABORTED")]
                ELSE pending
  /\ phase' = [phase EXCEPT ![c] =
       IF request[c].deadline # Unset THEN "arm" ELSE "begin"]
  /\ UNCHANGED <<lastNow, poolVars, request, reason, outcome, aborted, timers,
                 stack, watch>>

AttachFails(c) ==
  /\ InSetup(c, "attach")
  /\ BeforeStart(c)
  /\ UNCHANGED lastNow

ArmTimer(c, t) ==
  /\ InSetup(c, "arm")
  /\ ClockAccepts(t)
  /\ lastNow' = t
  /\ phase' = [phase EXCEPT ![c] = "begin"]
  /\ \/ /\ request[c].deadline <= t
        /\ pending' = [pending EXCEPT ![c] = Noted(c, "DEADLINE_EXCEEDED")]
        /\ UNCHANGED timers
     \/ /\ request[c].deadline > t
        /\ timers' = timers \cup {c}
        /\ UNCHANGED pending
  /\ UNCHANGED <<poolVars, request, reason, outcome, aborted, listening,
                 stack, watch>>

(* The clock runs backwards, or the scheduler throws or hands back no      *)
(* usable handle.                                                          *)
ArmFails(c, t) ==
  /\ InSetup(c, "arm")
  /\ \/ ~ClockAccepts(t) /\ UNCHANGED lastNow
     \/ ClockAccepts(t) /\ request[c].deadline > t /\ lastNow' = t
  /\ BeforeStart(c)

(* initializing becomes false; what was noted meanwhile decides.           *)
BeginRefused(c) ==
  /\ InSetup(c, "begin")
  /\ pending[c] # "none"
  /\ BeforeStart(c)
  /\ UNCHANGED lastNow

Begin(c) ==
  /\ InSetup(c, "begin")
  /\ pending[c] = "none"
  /\ phase' = [phase EXCEPT ![c] = "running"]
  /\ UNCHANGED <<lastNow, poolVars, request, pending, reason, outcome, aborted,
                 listening, timers, stack, watch>>

(* The owner's method returns a promise, or throws.                        *)
MethodReturns(c) ==
  /\ InSetup(c, "running")
  /\ stack' = Tail(stack)
  /\ UNCHANGED <<lastNow, poolVars, callVars, watch>>

MethodThrows(c) ==
  /\ InSetup(c, "running")
  /\ stack' = Tail(stack)
  /\ SettleEffect(c)
  /\ UNCHANGED lastNow

EffectSettles(c) ==
  /\ stack = <<>>
  /\ phase[c] = "running"
  /\ SettleEffect(c)
  /\ UNCHANGED <<lastNow, stack>>

(***************************************************************************)
(* abandon(): cancellation is first published to the effect's subscribers, *)
(* who may call anything; only afterwards is the caller told and the owner *)
(* quarantined.  There are no subscribers before the effect has started.   *)
(***************************************************************************)
Abandonable(c) == Reserved(c) /\ outcome[c] = "unsettled"

(* Mutant: an abandonment during initialization is dropped.                *)
NoteAbandonedForgets(c, code) ==
  /\ phase[c] \in Initializing
  /\ reason' = [reason EXCEPT ![c] = IF @ = "none" THEN code ELSE @]
  /\ UNCHANGED <<poolVars, pending, outcome, stack>>

NoteAbandoned(c, code) ==
  /\ phase[c] \in Initializing
  /\ pending' = [pending EXCEPT ![c] = Noted(c, code)]
  /\ reason' = [reason EXCEPT ![c] = IF @ = "none" THEN code ELSE @]
  /\ UNCHANGED <<poolVars, outcome, stack>>

PublishCancellation(c, code) ==
  /\ phase[c] = "running" /\ reason[c] = "none"
  /\ reason' = [reason EXCEPT ![c] = code]
  /\ stack' = <<<<c, code>>>> \o stack
  /\ UNCHANGED <<poolVars, pending, outcome>>

(* Mutant: the caller is told, the owner is not quarantined.               *)
SettleAbandonedOnly(c, code) ==
  /\ outcome' = [outcome EXCEPT ![c] = code]
  /\ UNCHANGED <<poolVars, pending, reason>>

(* settleCaller(code, quarantine) for a started effect: the reservation    *)
(* stays until the effect really settles.                                  *)
SettleAbandoned(c, code) ==
  /\ outcome' = [outcome EXCEPT ![c] = code]
  /\ owner' = [owner EXCEPT ![request[c].owner].quarantined = TRUE]
  /\ UNCHANGED <<active, nextGeneration, pending, reason>>

Abandon(c, code) ==
  /\ Abandonable(c)
  /\ \/ /\ NoteAbandoned(c, code) \/ PublishCancellation(c, code)
        /\ UNCHANGED listening
     \/ /\ phase[c] = "running" /\ reason[c] # "none"
        /\ SettleAbandoned(c, code)
        /\ listening' = listening \ {c}
        /\ UNCHANGED stack

SubscribersReturn(c, code) ==
  /\ stack # <<>> /\ Head(stack) = <<c, code>>
  /\ stack' = Tail(stack)
  /\ \/ outcome[c] = "unsettled" /\ SettleAbandoned(c, code) /\ Cleanup(c)
     \/ outcome[c] # "unsettled"
        /\ UNCHANGED <<poolVars, pending, reason, outcome, timers, listening>>
  /\ UNCHANGED <<lastNow, phase, request, aborted, watch>>

(* The caller aborts its signal: from the event loop, or inside a callee.  *)
AbortSignal(c) ==
  /\ Reserved(c) /\ request[c].signal /\ c \notin aborted
  /\ aborted' = aborted \cup {c}
  /\ \/ /\ c \in listening
        /\ Abandon(c, "CALLER_ABORTED")
        /\ timers' = IF outcome'[c] = "unsettled" THEN timers
                     ELSE timers \ {c}
     \/ /\ c \notin listening
        /\ UNCHANGED <<poolVars, pending, reason, outcome, timers, listening,
                       stack>>
  /\ UNCHANGED <<lastNow, phase, request, watch>>

(* The scheduler calls the deadline task, once, already inside schedule()  *)
(* or any time later.  It promises no relation to the clock.               *)
DeadlineTimer(c) ==
  /\ c \in timers
  /\ timers' = timers \ {c}
  /\ Abandon(c, "DEADLINE_EXCEEDED")
  /\ UNCHANGED <<lastNow, phase, request, aborted, watch>>

(***************************************************************************)
(* The owner's lifecycle.                                                  *)
(***************************************************************************)
(* Mutant: an owner is recovered while its abandoned effects still run.    *)
RecoverOwnerActive(o) ==
  /\ owner[o].quarantined
  /\ owner' = [owner EXCEPT ![o].quarantined = FALSE,
                            ![o].generation = @ + 1]
  /\ UNCHANGED <<lastNow, active, nextGeneration, callVars, stack, watch>>

(* recoverOwner(): lifts the quarantine once nothing of the owner runs.    *)
RecoverOwner(o) ==
  /\ owner[o].quarantined
  /\ owner[o].reservations = 0
  /\ owner' = [owner EXCEPT ![o].quarantined = FALSE,
                            ![o].generation = @ + 1]
  /\ UNCHANGED <<lastNow, active, nextGeneration, callVars, stack, watch>>

(* whenOwnerIdle(): the observer is handed the promise of the owner's      *)
(* current epoch, which is already resolved when the owner is idle.        *)
WhenOwnerIdle(w, o) ==
  /\ watch[w].owner = NoOwner
  /\ watch' = [watch EXCEPT ![w] =
       [owner |-> o, epoch |-> owner[o].epoch, calls |-> OwnerCalls(o),
        woken |-> owner[o].reservations = 0]]
  /\ UNCHANGED <<lastNow, poolVars, callVars, stack>>

-----------------------------------------------------------------------------
RunCalls(c) ==
  \/ RunRefusedEarly(c)
  \/ \E t \in Times : RunRefusedLate(c, t)
  \/ \E o \in Owners, t \in Times : RunNotAdmitted(c, o, t)
  \/ \E o \in Owners, d \in Deadlines, s \in BOOLEAN, t \in Times :
       Run(c, o, d, s, t)

(* The continuation of the innermost frame.                                *)
Continue(c) ==
  \/ AttachListener(c) \/ AttachFails(c)
  \/ \E t \in Times : ArmTimer(c, t) \/ ArmFails(c, t)
  \/ BeginRefused(c) \/ Begin(c)
  \/ MethodReturns(c) \/ MethodThrows(c)
  \/ \E code \in AbandonCodes : SubscribersReturn(c, code)

Next ==
  \/ \E c \in Calls : \/ RunCalls(c)
                      \/ Continue(c)
                      \/ AbortSignal(c)
                      \/ DeadlineTimer(c)
                      \/ EffectSettles(c)
  \/ \E o \in Owners : RecoverOwner(o)
  \/ \E w \in Observers, o \in Owners : WhenOwnerIdle(w, o)

Spec == Init /\ [][Next]_vars

(***************************************************************************)
(* Fairness: a callee returns, so the innermost frame continues, and an    *)
(* armed timer fires.  Nothing is assumed of the effects themselves: a     *)
(* provider may hang for ever.                                             *)
(***************************************************************************)
FairSpec ==
  /\ Spec
  /\ WF_vars(\E c \in Calls : Continue(c))
  /\ \A c \in Calls : WF_vars(DeadlineTimer(c))

-----------------------------------------------------------------------------
(* The pool's two counters agree with the calls that hold a reservation,   *)
(* whatever order callers abandon, effects settle and frames unwind: no    *)
(* reservation is lost (the pool would shrink for good) or given back      *)
(* twice (`released` in invoke()).                                         *)
ReservationsAccounted ==
  /\ active = Cardinality({c \in Calls : Reserved(c)})
  /\ \A o \in Owners : owner[o].reservations = Cardinality(OwnerCalls(o))

(* Effects that really run, abandoned ones included, never exceed either   *)
(* limit: abandoning a caller does not make room for another effect.       *)
LimitsRespected ==
  /\ Cardinality({c \in Calls : Reserved(c)}) <= MaxConcurrentEffects
  /\ \A o \in Owners :
       Cardinality(OwnerCalls(o)) <= MaxConcurrentEffectsPerOwner

GenerationStable ==
  \A c \in Calls : Reserved(c) =>
    request[c].generation = owner[request[c].owner].generation

AbandonedMeansQuarantined ==
  \A c \in Calls :
    phase[c] = "running" /\ outcome[c] # "unsettled" =>
      owner[request[c].owner].quarantined

(* The generation an effect was told in its context is its owner's         *)
(* generation for as long as it runs (GenerationStable): recoverOwner()    *)
(* never opens a new generation beside an effect of the old one, and while *)
(* an effect runs on after its caller was told of the abandonment, its     *)
(* owner stays quarantined (AbandonedMeansQuarantined).                    *)
OldEffectsContained == GenerationStable /\ AbandonedMeansQuarantined

(* An observer of an owner's idle epoch is woken when every effect that    *)
(* ran when it asked has really settled, and not before: nobody is told    *)
(* too early (WokenMeansDrained) or, once the owner is idle or its epoch   *)
(* has moved on, forgotten (DrainedMeansWoken).                            *)
WokenMeansDrained ==
  \A w \in Observers : watch[w].woken =>
    \A c \in watch[w].calls : ~Reserved(c)

DrainedMeansWoken ==
  \A w \in Observers :
    LET o == watch[w].owner IN
    ( /\ o # NoOwner
      /\ owner[o].reservations = 0 \/ owner[o].epoch > watch[w].epoch )
    => watch[w].woken

WokenWhenDrained == WokenMeansDrained /\ DrainedMeansWoken

(* Nobody is left to wait for the effect alone: a caller that gave a       *)
(* deadline has its timer, and one whose deadline is over or whose signal  *)
(* has been aborted has a frame of its own on the stack whose callee has   *)
(* yet to return - however the abort, the timer and the setup of the       *)
(* effect follow each other (abandon(), pendingAbandonment).               *)
Called(c) == \E i \in DOMAIN stack : stack[i][1] = c

AnswerIsDue ==
  \A c \in Calls :
    Reserved(c) /\ outcome[c] = "unsettled" =>
      /\ request[c].deadline # Unset => c \in timers \/ Called(c)
      /\ c \in aborted => Called(c)

(* Every caller that gave a deadline is answered, even when the effect it  *)
(* waits for hangs.                                                        *)
DeadlineAnswered ==
  \A c \in Calls :
    (Reserved(c) /\ request[c].deadline # Unset) ~> outcome[c] # "unsettled"

(* The supervisor does what EffectAdmission promises: seen through who     *)
(* holds a reservation and who is quarantined, every step is one of its    *)
(* steps or none at all, `run` called from inside its own callees included. *)
Admission == INSTANCE EffectAdmission WITH
  holders <- [o \in Owners |-> OwnerCalls(o)],
  ended <- {c \in Calls : phase[c] = "done"},
  quarantined <- {o \in Owners : owner[o].quarantined}

ImplementsAdmission == Admission!Spec
=============================================================================
