------------------------- MODULE HostEffectsProofs -------------------------
(***************************************************************************)
(* Proofs about HostEffects, for any owners, any finite set of calls and   *)
(* any limits.  The argument is two inductive invariants: CallsInv, the    *)
(* accounting of reservations, and OldEffectsContained, which rests on it. *)
(***************************************************************************)
EXTENDS HostEffects, FiniteSetTheorems, TLAPS

OnStack(s) == {s[i] : i \in 1..Len(s)}

(* A call that has not ended has not been answered before its effect was   *)
(* started; one that has ended has.                                        *)
OutcomeMatchesPhase ==
  \A c \in Calls :
    /\ phase[c] \in {"idle"} \cup Initializing => outcome[c] = "unsettled"
    /\ phase[c] = "done" => outcome[c] # "unsettled"

(* Subscribers are only ever called for an effect that was started.        *)
FramesStarted ==
  \A f \in OnStack(stack) :
    f[2] # "setup" => phase[f[1]] \in {"running", "done"}

(* A reserved call holds the reservation of an owner the pool knows, under *)
(* the generation it was told.                                             *)
OwnersKnown ==
  \A c \in Calls : Reserved(c) =>
    /\ request[c].owner \in Owners
    /\ owner[request[c].owner].known

CallsInv ==
  /\ TypeOK
  /\ ReservationsAccounted
  /\ OutcomeMatchesPhase
  /\ FramesStarted
  /\ OwnersKnown

-----------------------------------------------------------------------------
(* Sequences of frames.                                                    *)
LEMMA PushFrame ==
  ASSUME NEW s \in Seq(Frames), NEW f \in Frames
  PROVE  /\ <<f>> \o s \in Seq(Frames)
         /\ OnStack(<<f>> \o s) = {f} \cup OnStack(s)
<1>1. <<f>> \o s \in Seq(Frames) /\ Len(<<f>> \o s) = Len(s) + 1
  OBVIOUS
<1>2. /\ (<<f>> \o s)[1] = f
      /\ \A i \in 1..Len(s) : (<<f>> \o s)[i + 1] = s[i]
      /\ \A i \in 2..(Len(s) + 1) : (<<f>> \o s)[i] = s[i - 1]
  OBVIOUS
<1>3. ASSUME NEW x \in OnStack(<<f>> \o s) PROVE x \in {f} \cup OnStack(s)
  <2>1. PICK i \in 1..(Len(s) + 1) : x = (<<f>> \o s)[i]
    BY <1>1, <1>3 DEF OnStack
  <2>2. CASE i = 1
    BY <2>1, <2>2, <1>2
  <2>3. CASE i # 1
    <3>1. x = s[i - 1] /\ i - 1 \in 1..Len(s)
      BY <2>1, <2>3, <1>2
    <3> QED BY <3>1 DEF OnStack
  <2> QED BY <2>2, <2>3
<1>4. ASSUME NEW x \in OnStack(s) PROVE x \in OnStack(<<f>> \o s)
  <2>1. PICK i \in 1..Len(s) : x = s[i]
    BY <1>4 DEF OnStack
  <2>2. x = (<<f>> \o s)[i + 1] /\ i + 1 \in 1..(Len(s) + 1)
    BY <2>1, <1>2
  <2> QED BY <2>2, <1>1 DEF OnStack
<1>5. f \in OnStack(<<f>> \o s)
  BY <1>1, <1>2 DEF OnStack
<1> QED BY <1>1, <1>3, <1>4, <1>5

LEMMA PopFrame ==
  ASSUME NEW s \in Seq(Frames), s # <<>>
  PROVE  /\ Tail(s) \in Seq(Frames)
         /\ Head(s) \in OnStack(s)
         /\ OnStack(Tail(s)) \subseteq OnStack(s)
<1>1. /\ Tail(s) \in Seq(Frames) /\ Len(Tail(s)) = Len(s) - 1
      /\ Head(s) = s[1] /\ Len(s) \in Nat \ {0}
      /\ \A i \in 1..(Len(s) - 1) : Tail(s)[i] = s[i + 1]
  OBVIOUS
<1>2. Head(s) \in OnStack(s)
  BY <1>1 DEF OnStack
<1>3. ASSUME NEW x \in OnStack(Tail(s)) PROVE x \in OnStack(s)
  <2>1. PICK i \in 1..(Len(s) - 1) : x = Tail(s)[i]
    BY <1>1, <1>3 DEF OnStack
  <2>2. x = s[i + 1] /\ i + 1 \in 1..Len(s)
    BY <2>1, <1>1
  <2> QED BY <2>2 DEF OnStack
<1> QED BY <1>1, <1>2, <1>3

(* A pool whose subscribers return to abandon(): the frame it left.         *)
LEMMA ReturningFrame ==
  ASSUME stack \in Seq(Frames), NEW c \in Calls, NEW code \in AbandonCodes,
         SubscribersReturn(c, code)
  PROVE  /\ <<c, code>> \in OnStack(stack) /\ code # "setup"
         /\ stack' \in Seq(Frames) /\ OnStack(stack') \subseteq OnStack(stack)
<1>1. /\ stack # <<>> /\ Head(stack) = <<c, code>> /\ stack' = Tail(stack)
  BY DEF SubscribersReturn
<1>2. /\ Tail(stack) \in Seq(Frames) /\ Head(stack) \in OnStack(stack)
      /\ OnStack(Tail(stack)) \subseteq OnStack(stack)
  BY <1>1, PopFrame
<1>3. code # "setup"
  BY DEF AbandonCodes
<1> QED BY <1>1, <1>2, <1>3

(* Taking a call into a set of calls, and out of it.                       *)
LEMMA CountIn ==
  ASSUME NEW S, S \subseteq Calls, NEW c \in Calls, c \notin S
  PROVE  Cardinality(S \cup {c}) = Cardinality(S) + 1
<1>1. IsFiniteSet(S)
  BY CallsAssumption, FS_Subset
<1> QED BY <1>1, FS_AddElement

LEMMA CountOut ==
  ASSUME NEW S, S \subseteq Calls, NEW c \in S
  PROVE  /\ Cardinality(S) \in Nat \ {0}
         /\ Cardinality(S \ {c}) = Cardinality(S) - 1
<1>1. IsFiniteSet(S)
  BY CallsAssumption, FS_Subset
<1>2. Cardinality(S) \in Nat /\ Cardinality(S) # 0
  BY <1>1, FS_CardinalityType, FS_EmptySet
<1> QED BY <1>1, <1>2, FS_RemoveElement

LEMMA CountType ==
  ASSUME NEW S, S \subseteq Calls
  PROVE  /\ Cardinality(S) \in Nat
         /\ Cardinality(S) = 0 <=> S = {}
<1>1. IsFiniteSet(S)
  BY CallsAssumption, FS_Subset
<1> QED BY <1>1, FS_CardinalityType, FS_EmptySet

(* A call taken into a reservation is counted once, with its owner and with *)
(* the pool.                                                               *)
LEMMA ReserveAccounts ==
  ASSUME CallsInv, NEW c \in Calls, NEW o \in Owners, phase[c] = "idle",
         Reserve(o), NEW p \in ReservedPhases, NEW r, r.owner = o,
         phase' = [phase EXCEPT ![c] = p],
         request' = [request EXCEPT ![c] = r]
  PROVE  ReservationsAccounted'
<1> USE DEF CallsInv, ReservationsAccounted
<1>1. /\ ~Reserved(c)
      /\ \A d \in Calls : Reserved(d)' <=> Reserved(d) \/ d = c
      /\ \A d \in Calls \ {c} : request'[d] = request[d]
      /\ request'[c].owner = o
  BY DEF TypeOK, Reserved, ReservedPhases, Initializing
<1>2. Cardinality({d \in Calls : Reserved(d)'})
        = Cardinality({d \in Calls : Reserved(d)}) + 1
  <2>1. {d \in Calls : Reserved(d)'} = {d \in Calls : Reserved(d)} \cup {c}
    BY <1>1
  <2> QED BY <1>1, <2>1, CountIn
<1>3. ASSUME NEW x \in Owners
      PROVE  owner'[x].reservations = Cardinality(OwnerCalls(x)')
  <2>1. CASE x = o
    <3>1. OwnerCalls(x)' = OwnerCalls(x) \cup {c} /\ c \notin OwnerCalls(x)
      BY <1>1, <2>1 DEF OwnerCalls
    <3>2. Cardinality(OwnerCalls(x)') = Cardinality(OwnerCalls(x)) + 1
      BY <3>1, CountIn DEF OwnerCalls
    <3>3. owner'[x].reservations = owner[x].reservations + 1
      BY <2>1 DEF TypeOK, OwnerStates, Reserve, Known
    <3> QED BY <3>2, <3>3
  <2>2. CASE x # o
    <3>1. OwnerCalls(x)' = OwnerCalls(x)
      BY <1>1, <2>2 DEF OwnerCalls
    <3>2. owner'[x] = owner[x]
      BY <2>2 DEF TypeOK, Reserve
    <3> QED BY <3>1, <3>2
  <2> QED BY <2>1, <2>2
<1> QED BY <1>2, <1>3 DEF Reserve

(* A call that ends gives back one reservation, its own.                   *)
LEMMA FinishAccounts ==
  ASSUME CallsInv, NEW c \in Calls, Reserved(c), Finish(c)
  PROVE  /\ ReservationsAccounted'
         /\ active \in Nat \ {0}
         /\ owner[request[c].owner].reservations \in Nat \ {0}
<1> DEFINE o == request[c].owner
<1> USE DEF CallsInv, ReservationsAccounted
<1>1. /\ \A d \in Calls : Reserved(d)' <=> Reserved(d) /\ d # c
      /\ \A d \in Calls \ {c} : request'[d] = request[d]
      /\ o \in Owners
  BY DEF TypeOK, Reserved, ReservedPhases, Initializing, Finish, OwnersKnown
<1>2. /\ Cardinality({d \in Calls : Reserved(d)'})
           = Cardinality({d \in Calls : Reserved(d)}) - 1
      /\ Cardinality({d \in Calls : Reserved(d)}) \in Nat \ {0}
  <2>1. {d \in Calls : Reserved(d)'} = {d \in Calls : Reserved(d)} \ {c}
    BY <1>1
  <2>2. c \in {d \in Calls : Reserved(d)}
    OBVIOUS
  <2> HIDE DEF CallsInv, ReservationsAccounted
  <2> QED BY <2>1, <2>2, CountOut
<1>3. /\ Cardinality(OwnerCalls(o)) \in Nat \ {0}
      /\ Cardinality(OwnerCalls(o) \ {c}) = Cardinality(OwnerCalls(o)) - 1
  <2>1. c \in OwnerCalls(o) /\ OwnerCalls(o) \subseteq Calls
    BY DEF OwnerCalls
  <2> QED BY <2>1, CountOut
<1>4. ASSUME NEW x \in Owners
      PROVE  owner'[x].reservations = Cardinality(OwnerCalls(x)')
  <2>1. CASE x = o
    <3>1. OwnerCalls(x)' = OwnerCalls(x) \ {c}
      BY <1>1, <2>1 DEF OwnerCalls
    <3>2. owner'[x].reservations = owner[x].reservations - 1
      BY <2>1 DEF TypeOK, OwnerStates, Finish, Release
    <3> QED BY <3>1, <3>2, <1>3, <2>1
  <2>2. CASE x # o
    <3>1. OwnerCalls(x)' = OwnerCalls(x)
      BY <1>1, <2>2 DEF OwnerCalls
    <3>2. owner'[x] = owner[x]
      BY <2>2 DEF TypeOK, Finish, Release
    <3> QED BY <3>1, <3>2
  <2> QED BY <2>1, <2>2
<1> QED BY <1>1, <1>2, <1>3, <1>4 DEF Finish, Release

(* A step that moves no call into or out of a reservation.                 *)
LEMMA SameAccounts ==
  ASSUME CallsInv,
         \A c \in Calls : /\ Reserved(c)' <=> Reserved(c)
                          /\ Reserved(c) => request'[c] = request[c],
         active' = active,
         \A o \in Owners : owner'[o].reservations = owner[o].reservations
  PROVE  ReservationsAccounted'
<1>1. {c \in Calls : Reserved(c)'} = {c \in Calls : Reserved(c)}
  OBVIOUS
<1>2. \A o \in Owners : OwnerCalls(o)' = OwnerCalls(o)
  BY DEF OwnerCalls
<1> QED BY <1>1, <1>2 DEF CallsInv, ReservationsAccounted

-----------------------------------------------------------------------------
(* Changing one field of a record keeps its type.                          *)
LEMMA WithReservations ==
  ASSUME NEW s \in OwnerStates, NEW n \in Nat
  PROVE  [s EXCEPT !.reservations = n] \in OwnerStates
BY DEF OwnerStates

LEMMA WithWoken ==
  ASSUME NEW w \in Watches, NEW b \in BOOLEAN
  PROVE  [w EXCEPT !.woken = b] \in Watches
BY DEF Watches

(* The state an owner is given when it is first looked up.                  *)
Fresh(s, n) == [s EXCEPT !.known = TRUE, !.generation = n]
IsFresh(x, s) ==
  /\ x \in OwnerStates /\ x.known
  /\ x.reservations = s.reservations /\ x.epoch = s.epoch
  /\ x.quarantined = s.quarantined

LEMMA WithGeneration ==
  ASSUME NEW s \in OwnerStates, NEW n \in Nat
  PROVE  IsFresh(Fresh(s, n), s)
BY DEF OwnerStates, Fresh, IsFresh

(* Looking an owner up changes nothing about one the pool knows, and gives *)
(* one it does not know its first state.                                   *)
LEMMA Lookup ==
  ASSUME TypeOK, NEW o \in Owners
  PROVE  /\ Known(o) \in OwnerStates /\ Known(o).known
         /\ Known(o).reservations = owner[o].reservations
         /\ Known(o).epoch = owner[o].epoch
         /\ Known(o).quarantined = owner[o].quarantined
         /\ owner[o].known => Known(o) = owner[o]
<1>1. owner[o] \in OwnerStates /\ nextGeneration + 1 \in Nat
  BY DEF TypeOK
<1>2. CASE owner[o].known
  BY <1>1, <1>2 DEF Known
<1>3. CASE ~owner[o].known
  <2> DEFINE s == owner[o]
             n == nextGeneration + 1
  <2>1. Known(o) = Fresh(s, n)
    BY <1>3 DEF Known, Fresh
  <2>2. s \in OwnerStates /\ n \in Nat
    BY <1>1
  <2> HIDE DEF s, n
  <2>3. /\ Known(o) \in OwnerStates /\ Known(o).known
        /\ Known(o).reservations = s.reservations
        /\ Known(o).epoch = s.epoch /\ Known(o).quarantined = s.quarantined
    <3>1. IsFresh(Known(o), s)
      BY <2>1, <2>2, WithGeneration
    <3> QED BY <3>1 DEF IsFresh
  <2> QED BY <1>3, <2>3 DEF s
<1> QED BY <1>2, <1>3

(* The state reserve() leaves its owner in.                                *)
LEMMA ReservedOwner ==
  ASSUME TypeOK, NEW o \in Owners, Reserve(o)
  PROVE  /\ owner' \in [Owners -> OwnerStates]
         /\ \A x \in Owners \ {o} : owner'[x] = owner[x]
         /\ owner'[o].known
         /\ owner'[o].reservations = owner[o].reservations + 1
         /\ owner'[o].generation = Known(o).generation
         /\ owner'[o].quarantined = owner[o].quarantined
         /\ owner'[o].epoch = IF owner[o].reservations = 0
                              THEN owner[o].epoch + 1 ELSE owner[o].epoch
<1> DEFINE n == owner[o].reservations + 1
           e == IF owner[o].reservations = 0 THEN owner[o].epoch + 1
                                             ELSE owner[o].epoch
<1>1. n \in Nat /\ e \in Nat
  BY DEF TypeOK, OwnerStates
<1>2. owner' = [owner EXCEPT ![o] =
                  [Known(o) EXCEPT !.reservations = n, !.epoch = e]]
  <2>1. Known(o).reservations = owner[o].reservations
    BY Lookup
  <2>2. Known(o).epoch = owner[o].epoch
    BY Lookup
  <2> QED BY <2>1, <2>2 DEF Reserve
<1> DEFINE x == [Known(o) EXCEPT !.reservations = n, !.epoch = e]
<1>3. /\ x \in OwnerStates /\ x.reservations = n /\ x.epoch = e /\ x.known
      /\ x.quarantined = owner[o].quarantined
      /\ x.generation = Known(o).generation
  <2> DEFINE s == Known(o)
  <2>1. s \in OwnerStates /\ s.known /\ s.quarantined = owner[o].quarantined
    BY Lookup
  <2>2. x = [s EXCEPT !.reservations = n, !.epoch = e]
    OBVIOUS
  <2> HIDE DEF n, e, s, x
  <2>3. /\ x \in OwnerStates /\ x.reservations = n /\ x.epoch = e
        /\ x.known = s.known /\ x.quarantined = s.quarantined
        /\ x.generation = s.generation
    BY <1>1, <2>1, <2>2 DEF OwnerStates
  <2>4. x.known
    BY <2>1, <2>3, Zenon
  <2>5. x.quarantined = owner[o].quarantined
    BY <2>1, <2>3, Zenon
  <2>6. x.generation = Known(o).generation
    BY <2>3, Zenon DEF s
  <2> QED BY <2>3, <2>4, <2>5, <2>6, Zenon
<1>4. owner' = [owner EXCEPT ![o] = x]
  BY <1>2
<1> HIDE DEF x
<1> QED BY <1>3, <1>4 DEF TypeOK

(* The five ways a call can end keep the invariant.                        *)
LEMMA FinishKeepsCalls ==
  ASSUME CallsInv, NEW c \in Calls, Reserved(c), Finish(c),
         lastNow' \in Times \cup {Unset},
         outcome' = [outcome EXCEPT ![c] = outcome'[c]],
         outcome'[c] \in Outcomes \ {"unsettled"},
         stack' = stack \/ (stack # <<>> /\ stack' = Tail(stack))
  PROVE  CallsInv'
<1>1. ReservationsAccounted'
  BY FinishAccounts
<1>2. /\ active - 1 \in Nat
      /\ owner[request[c].owner].reservations - 1 \in Nat
      /\ request[c].owner \in Owners
  BY FinishAccounts DEF CallsInv, OwnersKnown
<1>3. stack' \in Seq(Frames) /\ OnStack(stack') \subseteq OnStack(stack)
  BY PopFrame DEF CallsInv, TypeOK
<1>4. TypeOK'
  <2> DEFINE o == request[c].owner
             n == owner[o].reservations - 1
             wakes(w) == /\ owner[o].reservations = 1
                         /\ watch[w].owner = o
                         /\ watch[w].epoch = owner[o].epoch
  <2>1. owner' \in [Owners -> OwnerStates]
    <3>1. owner' = [owner EXCEPT ![o] = [owner[o] EXCEPT !.reservations = n]]
      BY DEF Finish, Release
    <3>2. [owner[o] EXCEPT !.reservations = n] \in OwnerStates
      BY <1>2, WithReservations DEF CallsInv, TypeOK
    <3> QED BY <3>1, <3>2 DEF CallsInv, TypeOK
  <2>2. watch' \in [Observers -> Watches]
    <3>1. watch' = [w \in Observers |->
                     [watch[w] EXCEPT !.woken = watch[w].woken \/ wakes(w)]]
      BY DEF Finish, Release
    <3>2. \A w \in Observers : (watch[w].woken \/ wakes(w)) \in BOOLEAN
      OBVIOUS
    <3>3. \A w \in Observers :
            [watch[w] EXCEPT !.woken = watch[w].woken \/ wakes(w)] \in Watches
      <4> HIDE DEF wakes
      <4> QED BY <3>2, WithWoken DEF CallsInv, TypeOK
    <3> HIDE DEF wakes
    <3> QED BY <3>1, <3>3
  <2>3. request' \in [Calls -> Requests]
    BY DEF CallsInv, TypeOK, Finish, NoRequest, Requests, Deadlines
  <2>4. /\ active' \in Nat /\ nextGeneration' \in Nat
        /\ phase' \in [Calls -> Phases]
        /\ pending' \in [Calls -> AbandonCodes \cup {"none"}]
        /\ reason' \in [Calls -> AbandonCodes \cup {"none"}]
        /\ outcome' \in [Calls -> Outcomes]
        /\ aborted' \subseteq Calls /\ listening' \subseteq Calls
        /\ timers' \subseteq Calls
    BY <1>2 DEF CallsInv, TypeOK, Finish, Release, Cleanup, Phases
  <2> QED BY <1>3, <2>1, <2>2, <2>3, <2>4 DEF TypeOK
<1>5. OutcomeMatchesPhase'
  BY DEF CallsInv, TypeOK, OutcomeMatchesPhase, Finish, Initializing
<1>6. FramesStarted'
  <2>1. ASSUME NEW f \in OnStack(stack'), f[2] # "setup"
        PROVE  phase'[f[1]] \in {"running", "done"}
    <3>1. phase[f[1]] \in {"running", "done"}
      BY <1>3, <2>1 DEF CallsInv, FramesStarted
    <3> QED BY <3>1 DEF CallsInv, TypeOK, Finish
  <2> QED BY <2>1 DEF FramesStarted, OnStack
<1>7. OwnersKnown'
  <2>1. ASSUME NEW d \in Calls, Reserved(d)'
        PROVE  Reserved(d) /\ request'[d] = request[d]
    BY <2>1 DEF CallsInv, TypeOK, Finish, Reserved, ReservedPhases,
                Initializing
  <2>2. \A o \in Owners : owner'[o].known = owner[o].known
    BY DEF CallsInv, TypeOK, OwnerStates, Finish, Release
  <2> QED BY <2>1, <2>2 DEF CallsInv, OwnersKnown
<1> QED BY <1>1, <1>4, <1>5, <1>6, <1>7 DEF CallsInv

(* Steps that leave every call's phase and request alone.                  *)
LEMMA QuietKeepsCalls ==
  ASSUME CallsInv, TypeOK', UNCHANGED <<active, phase, request>>,
         \A o \in Owners : /\ owner'[o].reservations = owner[o].reservations
                           /\ owner[o].known => owner'[o].known,
         \A d \in Calls : outcome'[d] = outcome[d] \/
            (phase[d] = "running" /\ outcome'[d] # "unsettled"),
         \A f \in OnStack(stack') :
            f \in OnStack(stack) \/ f[2] = "setup" \/ phase[f[1]] = "running"
  PROVE  CallsInv'
<1>1. ReservationsAccounted'
  BY SameAccounts DEF Reserved
<1>2. OutcomeMatchesPhase'
  BY DEF CallsInv, OutcomeMatchesPhase, Initializing
<1>3. FramesStarted'
  BY DEF CallsInv, FramesStarted, OnStack
<1>4. OwnersKnown'
  BY DEF CallsInv, OwnersKnown, Reserved
<1> QED BY <1>1, <1>2, <1>3, <1>4 DEF CallsInv

(* The steps of setup that go on to a later phase.                         *)
LEMMA AdvanceKeepsCalls ==
  ASSUME CallsInv, TypeOK', NEW c \in Calls, NEW p \in ReservedPhases,
         phase[c] \in Initializing, phase' = [phase EXCEPT ![c] = p],
         UNCHANGED <<poolVars, request, outcome, stack>>
  PROVE  CallsInv'
<1>1. \A d \in Calls : Reserved(d)' <=> Reserved(d)
  BY DEF CallsInv, TypeOK, Reserved, ReservedPhases
<1>2. ReservationsAccounted'
  BY <1>1, SameAccounts DEF poolVars
<1>3. OutcomeMatchesPhase'
  BY DEF CallsInv, TypeOK, OutcomeMatchesPhase, ReservedPhases, Initializing
<1>4. FramesStarted'
  <2>1. ASSUME NEW f \in OnStack(stack), f[2] # "setup"
        PROVE  phase'[f[1]] \in {"running", "done"}
    <3>1. phase[f[1]] \in {"running", "done"}
      BY <2>1 DEF CallsInv, FramesStarted
    <3>2. f[1] # c
      BY <3>1 DEF Initializing
    <3> QED BY <3>1, <3>2 DEF CallsInv, TypeOK
  <2> QED BY <2>1 DEF FramesStarted, OnStack
<1>5. OwnersKnown'
  BY <1>1 DEF CallsInv, OwnersKnown, poolVars
<1> QED BY <1>2, <1>3, <1>4, <1>5 DEF CallsInv

-----------------------------------------------------------------------------
LEMMA InitCalls == Init => CallsInv
<1> SUFFICES ASSUME Init PROVE CallsInv
  OBVIOUS
<1>1. TypeOK
  BY TimeAssumption DEF Init, TypeOK, OwnerStates, Phases, Requests, NoRequest,
     Outcomes, Deadlines, Watches, NoWatch
<1>2. \A c \in Calls : ~Reserved(c) /\ outcome[c] = "unsettled"
  BY DEF Init, Reserved, ReservedPhases, Initializing
<1>3. ReservationsAccounted
  <2>1. /\ {c \in Calls : Reserved(c)} = {}
        /\ \A o \in Owners : OwnerCalls(o) = {}
    BY <1>2 DEF OwnerCalls
  <2>2. Cardinality({}) = 0
    BY FS_EmptySet
  <2> QED BY <2>1, <2>2 DEF ReservationsAccounted, Init
<1>4. OutcomeMatchesPhase /\ OwnersKnown
  BY <1>2 DEF OutcomeMatchesPhase, OwnersKnown, Init
<1>5. FramesStarted
  BY DEF Init, FramesStarted, OnStack
<1> QED BY <1>1, <1>3, <1>4, <1>5 DEF CallsInv

(* Refusals: the call goes from idle to done without a reservation.        *)
LEMMA RefuseKeepsCalls ==
  ASSUME CallsInv, NEW c \in Calls, Refuse(c), lastNow' \in Times \cup {Unset},
         nextGeneration' \in Nat,
         \/ owner' = owner
         \/ \E o \in Owners : owner' = [owner EXCEPT ![o] = Known(o)]
  PROVE  CallsInv'
<1>1. owner' \in [Owners -> OwnerStates]
  BY Lookup DEF CallsInv, TypeOK
<1>2. TypeOK'
  BY <1>1 DEF CallsInv, TypeOK, Refuse, Phases, Outcomes
<1>3. \A d \in Calls : Reserved(d)' <=> Reserved(d)
  BY DEF CallsInv, TypeOK, Refuse, Reserved, ReservedPhases, Initializing
<1>4. \A o \in Owners : /\ owner'[o].reservations = owner[o].reservations
                        /\ owner[o].known => owner'[o].known
  BY Lookup DEF CallsInv, TypeOK
<1>5. ReservationsAccounted'
  BY <1>3, <1>4, SameAccounts DEF Refuse
<1>6. OutcomeMatchesPhase'
  BY DEF CallsInv, TypeOK, OutcomeMatchesPhase, Refuse, Initializing
<1>7. FramesStarted'
  BY DEF CallsInv, TypeOK, FramesStarted, OnStack, Refuse
<1>8. OwnersKnown'
  BY <1>3, <1>4 DEF CallsInv, OwnersKnown, Refuse
<1> QED BY <1>2, <1>5, <1>6, <1>7, <1>8 DEF CallsInv

(* Admission.                                                              *)
LEMMA RunKeepsCalls ==
  ASSUME CallsInv, NEW c \in Calls, NEW o \in Owners, NEW d \in Deadlines,
         NEW sig \in BOOLEAN, NEW t \in Times, Run(c, o, d, sig, t)
  PROVE  CallsInv'
<1> DEFINE p == FirstPhase(d, sig)
           r == [owner |-> o, deadline |-> d, signal |-> sig,
                 generation |-> Known(o).generation]
<1>1. p \in ReservedPhases
  BY DEF FirstPhase, ReservedPhases, Initializing
<1>2. Known(o) \in OwnerStates /\ Known(o).known
  BY Lookup DEF CallsInv
<1>3. /\ phase[c] = "idle" /\ phase' = [phase EXCEPT ![c] = p]
      /\ request' = [request EXCEPT ![c] = r] /\ r.owner = o
      /\ r \in Requests
  BY <1>2 DEF Run, Requests, OwnerStates
<1>4. /\ stack' \in Seq(Frames)
      /\ OnStack(stack') = {<<c, "setup">>} \cup OnStack(stack)
  BY PushFrame DEF Run, CallsInv, TypeOK, Frames
<1>5. Reserve(o) /\ TypeOK
  BY DEF Run, CallsInv
<1>6. TypeOK'
  <2>1. lastNow' \in Times \cup {Unset} /\ active' \in Nat
        /\ nextGeneration' \in Nat
    BY DEF Run, Reserve, GenerationAfterLookup, CallsInv, TypeOK
  <2>2. phase' \in [Calls -> Phases] /\ request' \in [Calls -> Requests]
    BY <1>1, <1>3 DEF CallsInv, TypeOK, Phases
  <2> QED BY <1>4, <1>5, <2>1, <2>2, ReservedOwner DEF Run, TypeOK
<1>7. ReservationsAccounted'
  <2> HIDE DEF p, r
  <2> QED BY <1>1, <1>3, <1>5, ReserveAccounts
<1>8. OutcomeMatchesPhase'
  BY <1>1, <1>3 DEF Run, CallsInv, TypeOK, OutcomeMatchesPhase, ReservedPhases,
     Initializing
<1>9. FramesStarted'
  <2>1. ASSUME NEW f \in OnStack(stack'), f[2] # "setup"
        PROVE  phase'[f[1]] \in {"running", "done"}
    <3>1. f \in OnStack(stack)
      BY <1>4, <2>1
    <3>2. phase[f[1]] \in {"running", "done"}
      BY <2>1, <3>1 DEF CallsInv, FramesStarted
    <3> QED BY <1>3, <3>2 DEF CallsInv, TypeOK
  <2> QED BY <2>1 DEF FramesStarted, OnStack
<1>10. OwnersKnown'
  <2>1. \A x \in Owners : owner[x].known => owner'[x].known
    BY <1>5, ReservedOwner
  <2>2. owner'[o].known
    BY <1>5, ReservedOwner
  <2>3. \A x \in Calls : x # c /\ Reserved(x)' =>
          Reserved(x) /\ request'[x] = request[x]
    BY <1>3 DEF CallsInv, TypeOK, Reserved
  <2>4. request'[c].owner = o
    BY <1>3 DEF CallsInv, TypeOK
  <2> QED BY <2>1, <2>2, <2>3, <2>4 DEF CallsInv, OwnersKnown
<1> QED BY <1>6, <1>7, <1>8, <1>9, <1>10 DEF CallsInv

(* Cancellation and abandonment move no call.                              *)
LEMMA AbandonKeepsCalls ==
  ASSUME CallsInv, NEW c \in Calls, NEW code \in AbandonCodes,
         \/ Abandon(c, code)
         \/ /\ phase[c] = "running" /\ outcome[c] = "unsettled"
            /\ SettleAbandoned(c, code)
            /\ stack # <<>> /\ stack' = Tail(stack),
         UNCHANGED <<lastNow, phase, request, watch>>,
         aborted' \subseteq Calls, timers' \subseteq Calls,
         listening' \subseteq Calls
  PROVE  CallsInv'
<1>1. CASE NoteAbandoned(c, code)
  <2>1. TypeOK'
    BY <1>1 DEF CallsInv, TypeOK, NoteAbandoned, Noted, poolVars
  <2> QED BY <1>1, <2>1, QuietKeepsCalls DEF NoteAbandoned, poolVars
<1>2. CASE PublishCancellation(c, code)
  <2>1. /\ stack' \in Seq(Frames)
        /\ OnStack(stack') = {<<c, code>>} \cup OnStack(stack)
    BY <1>2, PushFrame DEF PublishCancellation, CallsInv, TypeOK, Frames
  <2>2. TypeOK'
    BY <1>2, <2>1 DEF CallsInv, TypeOK, PublishCancellation, poolVars
  <2>3. \A f \in OnStack(stack') :
          f \in OnStack(stack) \/ f[2] = "setup" \/ phase[f[1]] = "running"
    <3>1. phase[c] = "running" /\ <<c, code>>[1] = c
      BY <1>2 DEF PublishCancellation
    <3> QED BY <2>1, <3>1, Zenon
  <2> QED
    BY <1>2, <2>1, <2>2, <2>3, QuietKeepsCalls
    DEF PublishCancellation, poolVars
<1>3. CASE /\ phase[c] = "running" /\ SettleAbandoned(c, code)
           /\ stack' = stack \/ (stack # <<>> /\ stack' = Tail(stack))
  <2>1. stack' \in Seq(Frames) /\ OnStack(stack') \subseteq OnStack(stack)
    BY <1>3, PopFrame DEF CallsInv, TypeOK
  <2>2. /\ owner' \in [Owners -> OwnerStates]
        /\ \A o \in Owners : /\ owner'[o].reservations = owner[o].reservations
                             /\ owner'[o].known = owner[o].known
    <3> DEFINE o == request[c].owner
               s == [owner[o] EXCEPT !.quarantined = TRUE]
    <3>1. owner \in [Owners -> OwnerStates]
      BY DEF CallsInv, TypeOK
    <3>2. owner' = [owner EXCEPT ![o] = s]
      BY <1>3 DEF SettleAbandoned
    <3>3. CASE o \in Owners
      <4>1. /\ s \in OwnerStates /\ s.reservations = owner[o].reservations
            /\ s.known = owner[o].known
        BY <3>1, <3>3 DEF OwnerStates
      <4> HIDE DEF o, s
      <4> QED BY <3>1, <3>2, <3>3, <4>1
    <3>4. CASE o \notin Owners
      <4> HIDE DEF o, s
      <4> QED BY <3>1, <3>2, <3>4
    <3> QED BY <3>3, <3>4
  <2>3. TypeOK'
    BY <1>3, <2>1, <2>2 DEF CallsInv, TypeOK, SettleAbandoned, Outcomes
  <2>4. \A d \in Calls : outcome'[d] = outcome[d] \/
            (phase[d] = "running" /\ outcome'[d] # "unsettled")
    BY <1>3 DEF SettleAbandoned, CallsInv, TypeOK, AbandonCodes
  <2>5. \A o \in Owners : owner[o].known => owner'[o].known
    BY <2>2
  <2> QED
    BY <1>3, <2>1, <2>2, <2>3, <2>4, <2>5, QuietKeepsCalls
    DEF SettleAbandoned
<1> QED BY <1>1, <1>2, <1>3 DEF Abandon

(* Every step keeps the accounting and what it rests on.                   *)
LEMMA NextCalls == CallsInv /\ [Next]_vars => CallsInv'
<1> SUFFICES ASSUME CallsInv, [Next]_vars PROVE CallsInv'
  OBVIOUS
<1>1. ASSUME NEW c \in Calls, RunRefusedEarly(c) PROVE CallsInv'
  BY <1>1, RefuseKeepsCalls DEF RunRefusedEarly, CallsInv, TypeOK
<1>2. ASSUME NEW c \in Calls, NEW t \in Times, RunRefusedLate(c, t)
      PROVE  CallsInv'
  BY <1>2, RefuseKeepsCalls DEF RunRefusedLate, CallsInv, TypeOK
<1>3. ASSUME NEW c \in Calls, NEW o \in Owners, NEW t \in Times,
             RunNotAdmitted(c, o, t)
      PROVE  CallsInv'
  <2>1. nextGeneration' \in Nat
    BY <1>3 DEF RunNotAdmitted, GenerationAfterLookup, CallsInv, TypeOK
  <2> QED BY <1>3, <2>1, RefuseKeepsCalls DEF RunNotAdmitted
<1>4. ASSUME NEW c \in Calls, NEW o \in Owners, NEW d \in Deadlines,
             NEW s \in BOOLEAN, NEW t \in Times, Run(c, o, d, s, t)
      PROVE  CallsInv'
  BY <1>4, RunKeepsCalls
<1>5. ASSUME NEW c \in Calls, AttachListener(c) PROVE CallsInv'
  <2> DEFINE p == IF request[c].deadline # Unset THEN "arm" ELSE "begin"
  <2>1. p \in ReservedPhases /\ phase[c] \in Initializing
    BY <1>5 DEF AttachListener, InSetup, ReservedPhases, Initializing
  <2>2. phase' = [phase EXCEPT ![c] = p]
    BY <1>5 DEF AttachListener
  <2>3. TypeOK'
    <3>1. phase' \in [Calls -> Phases]
      BY <2>1, <2>2 DEF CallsInv, TypeOK, Phases
    <3>2. pending' \in [Calls -> AbandonCodes \cup {"none"}]
      BY <1>5 DEF AttachListener, CallsInv, TypeOK, Noted, AbandonCodes
    <3> QED
      BY <1>5, <3>1, <3>2 DEF AttachListener, CallsInv, TypeOK, poolVars
  <2> HIDE DEF p
  <2> QED BY <1>5, <2>1, <2>2, <2>3, AdvanceKeepsCalls DEF AttachListener
<1>6. ASSUME NEW c \in Calls, NEW t \in Times, ArmTimer(c, t) PROVE CallsInv'
  <2>1. "begin" \in ReservedPhases /\ phase[c] \in Initializing
    BY <1>6 DEF ArmTimer, InSetup, ReservedPhases, Initializing
  <2>2. TypeOK'
    BY <1>6 DEF ArmTimer, CallsInv, TypeOK, poolVars, Noted, Phases,
       ReservedPhases, Initializing, AbandonCodes
  <2> QED BY <1>6, <2>1, <2>2, AdvanceKeepsCalls DEF ArmTimer
<1>7. ASSUME NEW c \in Calls, Begin(c) PROVE CallsInv'
  <2>1. "running" \in ReservedPhases /\ phase[c] \in Initializing
    BY <1>7 DEF Begin, InSetup, ReservedPhases, Initializing
  <2>2. TypeOK'
    BY <1>7 DEF Begin, CallsInv, TypeOK, poolVars, Phases, ReservedPhases
  <2> QED BY <1>7, <2>1, <2>2, AdvanceKeepsCalls DEF Begin
<1>8. ASSUME NEW c \in Calls, BeforeStart(c), phase[c] \in Initializing,
             stack # <<>>, lastNow' \in Times \cup {Unset}
      PROVE  CallsInv'
  <2>1. outcome' = [outcome EXCEPT ![c] = outcome'[c]]
        /\ outcome'[c] = "refused"
    BY <1>8 DEF BeforeStart, CallsInv, TypeOK
  <2> QED
    BY <1>8, <2>1, FinishKeepsCalls
    DEF BeforeStart, Reserved, ReservedPhases, Outcomes
<1>9. ASSUME NEW c \in Calls, AttachFails(c) PROVE CallsInv'
  BY <1>8, <1>9 DEF AttachFails, InSetup, Initializing, CallsInv, TypeOK
<1>10. ASSUME NEW c \in Calls, NEW t \in Times, ArmFails(c, t) PROVE CallsInv'
  BY <1>8, <1>10 DEF ArmFails, InSetup, Initializing, CallsInv, TypeOK
<1>11. ASSUME NEW c \in Calls, BeginRefused(c) PROVE CallsInv'
  BY <1>8, <1>11 DEF BeginRefused, InSetup, Initializing, CallsInv, TypeOK
<1>12. ASSUME NEW c \in Calls, phase[c] = "running", SettleEffect(c),
              stack' = stack \/ (stack # <<>> /\ stack' = Tail(stack)),
              UNCHANGED lastNow
       PROVE  CallsInv'
  <2>1. /\ outcome' = [outcome EXCEPT ![c] = outcome'[c]]
        /\ outcome'[c] \in Outcomes \ {"unsettled"}
    BY <1>12 DEF SettleEffect, CallsInv, TypeOK, Outcomes
  <2> QED
    BY <1>12, <2>1, FinishKeepsCalls
    DEF SettleEffect, Reserved, ReservedPhases, CallsInv, TypeOK
<1>13. ASSUME NEW c \in Calls, MethodReturns(c) PROVE CallsInv'
  <2>1. stack' \in Seq(Frames) /\ OnStack(stack') \subseteq OnStack(stack)
    BY <1>13, PopFrame DEF MethodReturns, InSetup, CallsInv, TypeOK
  <2>2. TypeOK'
    BY <1>13, <2>1 DEF MethodReturns, CallsInv, TypeOK, poolVars, callVars
  <2> QED
    BY <1>13, <2>1, <2>2, QuietKeepsCalls
    DEF MethodReturns, poolVars, callVars
<1>14. ASSUME NEW c \in Calls, MethodThrows(c) PROVE CallsInv'
  BY <1>12, <1>14 DEF MethodThrows, InSetup
<1>15. ASSUME NEW c \in Calls, EffectSettles(c) PROVE CallsInv'
  BY <1>12, <1>15 DEF EffectSettles
<1>16. ASSUME NEW c \in Calls, NEW code \in AbandonCodes,
              SubscribersReturn(c, code)
       PROVE  CallsInv'
  <2>1. /\ stack' \in Seq(Frames) /\ OnStack(stack') \subseteq OnStack(stack)
        /\ phase[c] \in {"running", "done"}
    <3>1. stack \in Seq(Frames)
      BY DEF CallsInv, TypeOK
    <3>2. /\ <<c, code>> \in OnStack(stack) /\ code # "setup"
          /\ stack' \in Seq(Frames)
          /\ OnStack(stack') \subseteq OnStack(stack)
      BY <1>16, <3>1, ReturningFrame
    <3> QED BY <3>2 DEF CallsInv, FramesStarted
  <2>2. CASE outcome[c] = "unsettled"
    <3>1. phase[c] = "running"
      BY <2>1, <2>2 DEF CallsInv, OutcomeMatchesPhase
    <3>2. timers' \subseteq Calls /\ listening' \subseteq Calls
      BY <1>16, <2>2 DEF SubscribersReturn, Cleanup, CallsInv, TypeOK
    <3> QED
      BY <1>16, <2>2, <3>1, <3>2, AbandonKeepsCalls
      DEF SubscribersReturn, CallsInv, TypeOK
  <2>3. CASE outcome[c] # "unsettled"
    <3>1. TypeOK'
      BY <1>16, <2>1, <2>3 DEF SubscribersReturn, CallsInv, TypeOK, poolVars
    <3> QED
      BY <1>16, <2>1, <2>3, <3>1, QuietKeepsCalls
      DEF SubscribersReturn, poolVars
  <2> QED BY <2>2, <2>3
<1>17. ASSUME NEW c \in Calls, AbortSignal(c) PROVE CallsInv'
  <2>1. aborted' \subseteq Calls /\ timers' \subseteq Calls
    BY <1>17 DEF AbortSignal, CallsInv, TypeOK
  <2>2. CASE Abandon(c, "CALLER_ABORTED")
    <3>1. listening' \subseteq Calls
      BY <2>2 DEF Abandon, CallsInv, TypeOK
    <3> QED
      BY <1>17, <2>1, <2>2, <3>1, AbandonKeepsCalls
      DEF AbortSignal, AbandonCodes
  <2>3. CASE UNCHANGED <<poolVars, pending, reason, outcome, timers, listening,
                         stack>>
    <3>1. TypeOK'
      BY <1>17, <2>1, <2>3 DEF AbortSignal, CallsInv, TypeOK, poolVars
    <3> QED
      BY <1>17, <2>3, <3>1, QuietKeepsCalls DEF AbortSignal, poolVars
  <2> QED BY <1>17, <2>2, <2>3 DEF AbortSignal
<1>18. ASSUME NEW c \in Calls, DeadlineTimer(c) PROVE CallsInv'
  <2>1. listening' \subseteq Calls /\ timers' \subseteq Calls
    BY <1>18 DEF DeadlineTimer, Abandon, CallsInv, TypeOK
  <2> QED
    BY <1>18, <2>1, AbandonKeepsCalls
    DEF DeadlineTimer, AbandonCodes, CallsInv, TypeOK
<1>19. ASSUME NEW o \in Owners, RecoverOwner(o) PROVE CallsInv'
  <2>1. /\ owner' \in [Owners -> OwnerStates]
        /\ \A x \in Owners : /\ owner'[x].reservations = owner[x].reservations
                             /\ owner'[x].known = owner[x].known
    <3> DEFINE n == owner[o].generation + 1
               x == [owner[o] EXCEPT !.quarantined = FALSE, !.generation = n]
    <3>1. owner[o] \in OwnerStates /\ n \in Nat
      BY DEF CallsInv, TypeOK, OwnerStates
    <3>2. /\ x \in OwnerStates /\ x.reservations = owner[o].reservations
          /\ x.known = owner[o].known
      BY <3>1 DEF OwnerStates
    <3>3. owner' = [owner EXCEPT ![o] = x]
      BY <1>19 DEF RecoverOwner
    <3> HIDE DEF x
    <3> QED BY <3>2, <3>3 DEF CallsInv, TypeOK
  <2>2. TypeOK'
    BY <1>19, <2>1 DEF RecoverOwner, CallsInv, TypeOK, callVars
  <2>3. \A x \in Owners : owner[x].known => owner'[x].known
    BY <2>1
  <2> QED
    BY <1>19, <2>1, <2>2, <2>3, QuietKeepsCalls DEF RecoverOwner, callVars
<1>20. ASSUME NEW w \in Observers, NEW o \in Owners, WhenOwnerIdle(w, o)
       PROVE  CallsInv'
  <2> DEFINE b == owner[o].reservations = 0
             handed == [owner |-> o, epoch |-> owner[o].epoch,
                        calls |-> OwnerCalls(o), woken |-> b]
  <2>1. handed \in Watches
    <3>1. b \in BOOLEAN
      OBVIOUS
    <3>2. owner[o].epoch \in Nat /\ OwnerCalls(o) \subseteq Calls
      BY DEF CallsInv, TypeOK, OwnerStates, OwnerCalls
    <3> HIDE DEF b
    <3> QED BY <3>1, <3>2 DEF Watches
  <2>2. TypeOK'
    BY <1>20, <2>1 DEF WhenOwnerIdle, CallsInv, TypeOK, poolVars, callVars
  <2> QED
    BY <1>20, <2>2, QuietKeepsCalls DEF WhenOwnerIdle, poolVars, callVars
<1>21. CASE UNCHANGED vars
  <2>1. TypeOK'
    BY <1>21 DEF vars, CallsInv, TypeOK, poolVars, callVars
  <2> QED
    BY <1>21, <2>1, QuietKeepsCalls DEF vars, poolVars, callVars
<1> QED
  BY <1>1, <1>2, <1>3, <1>4, <1>5, <1>6, <1>7, <1>9, <1>10, <1>11, <1>13,
     <1>14, <1>15, <1>16, <1>17, <1>18, <1>19, <1>20, <1>21
  DEF Next, RunCalls, Continue

-----------------------------------------------------------------------------
(* The invariant of the running, quarantined and waiting calls always      *)
(* holds.                                                                  *)
THEOREM CallsInvariant == Spec => []CallsInv
<1>1. Init => CallsInv
  BY InitCalls
<1>2. CallsInv /\ [Next]_vars => CallsInv'
  BY NextCalls
<1> QED BY <1>1, <1>2, PTL DEF Spec

(* The state keeps its type in every run of the supervisor: no counter of  *)
(* the admission pool goes below zero.                                     *)
THEOREM TypeCorrect == Spec => []TypeOK
<1>1. CallsInv => TypeOK
  BY DEF CallsInv
<1> QED BY <1>1, CallsInvariant, PTL

(* reserve() and release() are balanced for every call: the pool's counters *)
(* are the number of calls that hold a reservation.                        *)
THEOREM ReservationsBalanced == Spec => []ReservationsAccounted
<1>1. CallsInv => ReservationsAccounted
  BY DEF CallsInv
<1> QED BY <1>1, CallsInvariant, PTL

-----------------------------------------------------------------------------
(* The refinement: who holds a place, who has ended, who is quarantined.   *)
LEMMA HoldersAreReserved ==
  ASSUME CallsInv
  PROVE  Admission!AllHolders = {c \in Calls : Reserved(c)}
BY DEF CallsInv, OwnersKnown, Admission!AllHolders, OwnerCalls

LEMMA SeenAdmit ==
  ASSUME CallsInv, NEW c \in Calls, NEW o \in Owners, NEW d \in Deadlines,
         NEW s \in BOOLEAN, NEW t \in Times, Run(c, o, d, s, t)
  PROVE  Admission!Admit(c, o)
<1>1. /\ phase[c] = "idle" /\ Admissible(o) /\ Reserve(o) /\ TypeOK
      /\ request' = [request EXCEPT ![c] = request'[c]]
      /\ request'[c].owner = o
      /\ phase' = [phase EXCEPT ![c] = FirstPhase(d, s)]
  BY DEF Run, Reserve, CallsInv, TypeOK
<1>2. /\ \A x \in Calls : Reserved(x)' <=> Reserved(x) \/ x = c
      /\ \A x \in Calls : phase'[x] = "done" <=> phase[x] = "done"
      /\ ~Reserved(c) /\ phase[c] # "done"
      /\ \A x \in Calls \ {c} : request'[x] = request[x]
  BY <1>1 DEF TypeOK, FirstPhase, Reserved, ReservedPhases, Initializing
<1>3. \A x \in Owners : owner'[x].quarantined = owner[x].quarantined
  BY <1>1, ReservedOwner
<1>4. Cardinality(OwnerCalls(o)) < MaxConcurrentEffectsPerOwner
  BY <1>1 DEF CallsInv, ReservationsAccounted, Admissible
<1>5. Cardinality(Admission!AllHolders) < MaxConcurrentEffects
  BY <1>1, HoldersAreReserved DEF CallsInv, ReservationsAccounted, Admissible
<1>6. /\ OwnerCalls(o)' = OwnerCalls(o) \cup {c}
      /\ \A x \in Owners \ {o} : OwnerCalls(x)' = OwnerCalls(x)
  BY <1>1, <1>2 DEF OwnerCalls
<1>7. /\ c \notin {x \in Calls : phase[x] = "done"} \cup Admission!AllHolders
      /\ o \notin {x \in Owners : owner[x].quarantined}
  BY <1>1, <1>2, HoldersAreReserved DEF Admissible
<1>8. /\ {x \in Calls : phase[x] = "done"}' = {x \in Calls : phase[x] = "done"}
      /\ {x \in Owners : owner[x].quarantined}'
           = {x \in Owners : owner[x].quarantined}
  BY <1>2, <1>3
<1>9. [x \in Owners |-> OwnerCalls(x)']
        = [[x \in Owners |-> OwnerCalls(x)] EXCEPT ![o] = @ \cup {c}]
  BY <1>6
<1>10. [x \in Owners |-> OwnerCalls(x)][o] = OwnerCalls(o)
  OBVIOUS
<1>11. Cardinality([x \in Owners |-> OwnerCalls(x)][o])
         < MaxConcurrentEffectsPerOwner
  BY <1>4, <1>10
<1> HIDE DEF Admission!AllHolders
<1> QED
  BY <1>5, <1>7, <1>8, <1>9, <1>11
  DEF Admission!Admit, Admission!Cardinality, Cardinality

LEMMA SeenTurnAway ==
  ASSUME CallsInv, NEW c \in Calls, Refuse(c),
         \/ owner' = owner
         \/ \E o \in Owners : owner' = [owner EXCEPT ![o] = Known(o)]
  PROVE  Admission!TurnAway(c)
<1>1. /\ \A x \in Calls : Reserved(x)' <=> Reserved(x)
      /\ \A x \in Calls : phase'[x] = "done" <=> phase[x] = "done" \/ x = c
      /\ ~Reserved(c) /\ phase[c] # "done" /\ request' = request
  BY DEF CallsInv, TypeOK, Refuse, Reserved, ReservedPhases, Initializing
<1>2. \A x \in Owners : owner'[x].quarantined = owner[x].quarantined
  BY Lookup DEF CallsInv, TypeOK
<1>3. \A x \in Owners : OwnerCalls(x)' = OwnerCalls(x)
  BY <1>1 DEF OwnerCalls
<1>4. c \notin {x \in Calls : phase[x] = "done"} \cup Admission!AllHolders
  BY <1>1, HoldersAreReserved
<1>5. {x \in Calls : phase[x] = "done"}'
        = {x \in Calls : phase[x] = "done"} \cup {c}
  BY <1>1
<1>6. {x \in Owners : owner[x].quarantined}'
        = {x \in Owners : owner[x].quarantined}
  BY <1>2
<1>7. [x \in Owners |-> OwnerCalls(x)'] = [x \in Owners |-> OwnerCalls(x)]
  BY <1>3
<1> QED BY <1>4, <1>5, <1>6, <1>7 DEF Admission!TurnAway

LEMMA SeenEnd ==
  ASSUME CallsInv, NEW c \in Calls, Reserved(c), Finish(c),
         NEW o, o = request[c].owner
  PROVE  Admission!End(c, o) /\ o \in Owners
<1>1. /\ \A x \in Calls : Reserved(x)' <=> Reserved(x) /\ x # c
      /\ \A x \in Calls : phase'[x] = "done" <=> phase[x] = "done" \/ x = c
      /\ \A x \in Calls \ {c} : request'[x] = request[x]
  BY DEF CallsInv, TypeOK, Finish, Reserved, ReservedPhases, Initializing
<1>2. o \in Owners /\ c \in OwnerCalls(o)
  BY DEF CallsInv, OwnersKnown, OwnerCalls
<1>3. \A x \in Owners : owner'[x].quarantined = owner[x].quarantined
  BY DEF CallsInv, TypeOK, OwnerStates, Finish, Release
<1>4. /\ OwnerCalls(o)' = OwnerCalls(o) \ {c}
      /\ \A x \in Owners \ {o} : OwnerCalls(x)' = OwnerCalls(x)
  <2>1. ASSUME NEW x \in Owners
        PROVE  OwnerCalls(x)' = {y \in Calls : /\ Reserved(y) /\ y # c
                                               /\ request[y].owner = x}
    BY <1>1 DEF OwnerCalls
  <2>2. OwnerCalls(o)' = OwnerCalls(o) \ {c}
    BY <1>2, <2>1 DEF OwnerCalls
  <2>3. \A x \in Owners \ {o} : OwnerCalls(x)' = OwnerCalls(x)
    BY <2>1 DEF OwnerCalls
  <2> QED BY <2>2, <2>3
<1>5. {x \in Calls : phase[x] = "done"}'
        = {x \in Calls : phase[x] = "done"} \cup {c}
  BY <1>1
<1>6. {x \in Owners : owner[x].quarantined}'
        = {x \in Owners : owner[x].quarantined}
  BY <1>3
<1>7. [x \in Owners |-> OwnerCalls(x)']
        = [[x \in Owners |-> OwnerCalls(x)] EXCEPT ![o] = @ \ {c}]
  BY <1>2, <1>4
<1> QED BY <1>2, <1>5, <1>6, <1>7 DEF Admission!End

LEMMA SeenQuarantine ==
  ASSUME CallsInv, NEW c \in Calls, NEW code, phase[c] = "running",
         SettleAbandoned(c, code), UNCHANGED <<phase, request>>,
         NEW o, o = request[c].owner
  PROVE  Admission!Quarantine(o) /\ o \in Owners
<1>1. o \in Owners /\ c \in OwnerCalls(o)
  BY DEF CallsInv, OwnersKnown, OwnerCalls, Reserved, ReservedPhases
<1>2. \A x \in Owners : OwnerCalls(x)' = OwnerCalls(x)
  BY DEF OwnerCalls, Reserved
<1>3. \A x \in Owners :
        owner'[x].quarantined <=> owner[x].quarantined \/ x = o
  BY <1>1 DEF CallsInv, TypeOK, OwnerStates, SettleAbandoned
<1>4. {x \in Owners : owner[x].quarantined}'
        = {x \in Owners : owner[x].quarantined} \cup {o}
  BY <1>1, <1>3
<1>5. [x \in Owners |-> OwnerCalls(x)'] = [x \in Owners |-> OwnerCalls(x)]
  BY <1>2
<1> QED BY <1>1, <1>4, <1>5 DEF Admission!Quarantine

LEMMA SeenRecover ==
  ASSUME CallsInv, NEW o \in Owners, RecoverOwner(o)
  PROVE  Admission!Recover(o)
<1>1. OwnerCalls(o) = {}
  <2>1. Cardinality(OwnerCalls(o)) = 0 /\ OwnerCalls(o) \subseteq Calls
    BY DEF RecoverOwner, CallsInv, ReservationsAccounted, OwnerCalls
  <2> QED BY <2>1, CountType
<1>2. /\ \A x \in Owners : OwnerCalls(x)' = OwnerCalls(x)
      /\ UNCHANGED phase
  BY DEF RecoverOwner, callVars, OwnerCalls, Reserved
<1>3. \A x \in Owners :
        owner'[x].quarantined <=> owner[x].quarantined /\ x # o
  BY DEF CallsInv, TypeOK, OwnerStates, RecoverOwner
<1>4. {x \in Owners : owner[x].quarantined}'
        = {x \in Owners : owner[x].quarantined} \ {o}
  BY <1>3
<1>5. [x \in Owners |-> OwnerCalls(x)'] = [x \in Owners |-> OwnerCalls(x)]
  BY <1>2
<1>6. o \in {x \in Owners : owner[x].quarantined}
  BY DEF RecoverOwner
<1> QED BY <1>1, <1>2, <1>4, <1>5, <1>6 DEF Admission!Recover

LEMMA SeenNothing ==
  ASSUME \A c \in Calls : /\ Reserved(c)' <=> Reserved(c)
                          /\ phase'[c] = "done" <=> phase[c] = "done",
         request' = request, owner' = owner
  PROVE  UNCHANGED Admission!vars
<1>1. \A x \in Owners : OwnerCalls(x)' = OwnerCalls(x)
  BY DEF OwnerCalls
<1>2. [x \in Owners |-> OwnerCalls(x)'] = [x \in Owners |-> OwnerCalls(x)]
  BY <1>1
<1>3. {c \in Calls : phase[c] = "done"}' = {c \in Calls : phase[c] = "done"}
  OBVIOUS
<1> QED BY <1>2, <1>3 DEF Admission!vars

(* Every step of the supervisor is seen as a step of EffectAdmission, or   *)
(* not at all.                                                             *)
LEMMA SeenStep ==
  ASSUME CallsInv, [Next]_vars
  PROVE  [Admission!Next]_(Admission!vars)
<1> DEFINE Seen == Admission!Next \/ UNCHANGED Admission!vars
<1>1. ASSUME NEW c \in Calls, Admission!TurnAway(c) PROVE Seen
  BY <1>1 DEF Admission!Next
<1>2. ASSUME NEW c \in Calls, NEW o \in Owners,
             Admission!Admit(c, o) \/ Admission!End(c, o)
      PROVE  Seen
  BY <1>2 DEF Admission!Next
<1>3. ASSUME NEW o \in Owners, Admission!Quarantine(o) \/ Admission!Recover(o)
      PROVE  Seen
  BY <1>3 DEF Admission!Next
<1>4. ASSUME NEW c \in Calls, Reserved(c), Finish(c) PROVE Seen
  <2>1. PICK o : o = request[c].owner
    OBVIOUS
  <2>2. Admission!End(c, o) /\ o \in Owners
    BY <1>4, <2>1, SeenEnd
  <2> QED BY <1>2, <2>2
<1>5. ASSUME NEW c \in Calls, NEW code, phase[c] = "running",
             SettleAbandoned(c, code), UNCHANGED <<phase, request>>
      PROVE  Seen
  <2>1. PICK o : o = request[c].owner
    OBVIOUS
  <2>2. Admission!Quarantine(o) /\ o \in Owners
    BY <1>5, <2>1, SeenQuarantine
  <2> QED BY <1>3, <2>2
<1>6. ASSUME UNCHANGED <<phase, request, owner>> PROVE Seen
  BY <1>6, SeenNothing DEF Reserved
<1>7. ASSUME NEW c \in Calls, NEW p \in ReservedPhases,
             phase[c] \in Initializing, phase' = [phase EXCEPT ![c] = p],
             UNCHANGED <<request, owner>>
      PROVE  Seen
  <2>1. \A d \in Calls : /\ Reserved(d)' <=> Reserved(d)
                         /\ phase'[d] = "done" <=> phase[d] = "done"
    BY <1>7 DEF CallsInv, TypeOK, Reserved, ReservedPhases, Initializing
  <2> QED BY <1>7, <2>1, SeenNothing
<1>8. ASSUME NEW c \in Calls, NEW code \in AbandonCodes, Abandon(c, code),
             UNCHANGED <<phase, request>>
      PROVE  Seen
  <2>1. CASE NoteAbandoned(c, code) \/ PublishCancellation(c, code)
    BY <1>6, <1>8, <2>1 DEF NoteAbandoned, PublishCancellation, poolVars
  <2>2. CASE phase[c] = "running" /\ SettleAbandoned(c, code)
    BY <1>5, <1>8, <2>2
  <2> QED BY <1>8, <2>1, <2>2 DEF Abandon
<1> HIDE DEF Seen
<1>9. ASSUME NEW c \in Calls, RunCalls(c) PROVE Seen
  <2>1. CASE RunRefusedEarly(c)
    BY <1>1, <2>1, SeenTurnAway DEF RunRefusedEarly
  <2>2. ASSUME NEW t \in Times, RunRefusedLate(c, t) PROVE Seen
    BY <1>1, <2>2, SeenTurnAway DEF RunRefusedLate
  <2>3. ASSUME NEW o \in Owners, NEW t \in Times, RunNotAdmitted(c, o, t)
        PROVE  Seen
    BY <1>1, <2>3, SeenTurnAway DEF RunNotAdmitted
  <2>4. ASSUME NEW o \in Owners, NEW d \in Deadlines, NEW s \in BOOLEAN,
               NEW t \in Times, Run(c, o, d, s, t)
        PROVE  Seen
    BY <1>2, <2>4, SeenAdmit
  <2> QED BY <1>9, <2>1, <2>2, <2>3, <2>4 DEF RunCalls
<1>10. ASSUME NEW c \in Calls, Continue(c) PROVE Seen
  <2>1. CASE AttachListener(c)
    <3>1. (IF request[c].deadline # Unset THEN "arm" ELSE "begin")
            \in ReservedPhases
      BY DEF ReservedPhases, Initializing
    <3> QED
      BY <1>7, <2>1, <3>1
      DEF AttachListener, InSetup, Initializing, poolVars
  <2>2. CASE AttachFails(c)
    BY <1>4, <2>2 DEF AttachFails, BeforeStart, InSetup, Reserved,
       ReservedPhases, Initializing
  <2>3. ASSUME NEW t \in Times, ArmTimer(c, t) PROVE Seen
    BY <1>7, <2>3 DEF ArmTimer, InSetup, ReservedPhases, Initializing, poolVars
  <2>4. ASSUME NEW t \in Times, ArmFails(c, t) PROVE Seen
    BY <1>4, <2>4 DEF ArmFails, BeforeStart, InSetup, Reserved,
       ReservedPhases, Initializing
  <2>5. CASE BeginRefused(c)
    BY <1>4, <2>5 DEF BeginRefused, BeforeStart, InSetup, Reserved,
       ReservedPhases, Initializing
  <2>6. CASE Begin(c)
    BY <1>7, <2>6 DEF Begin, InSetup, ReservedPhases, Initializing, poolVars
  <2>7. CASE MethodReturns(c)
    BY <1>6, <2>7 DEF MethodReturns, poolVars, callVars
  <2>8. CASE MethodThrows(c)
    BY <1>4, <2>8 DEF MethodThrows, SettleEffect, InSetup, Reserved,
       ReservedPhases
  <2>9. ASSUME NEW code \in AbandonCodes, SubscribersReturn(c, code) PROVE Seen
    <3>1. CASE outcome[c] = "unsettled"
      <4>0. stack \in Seq(Frames)
        BY DEF CallsInv, TypeOK
      <4>1. <<c, code>> \in OnStack(stack) /\ code # "setup"
        BY <2>9, <4>0, ReturningFrame
      <4>2. phase[c] \in {"running", "done"}
        BY <4>1 DEF CallsInv, FramesStarted
      <4>3. phase[c] = "running"
        BY <3>1, <4>2 DEF CallsInv, OutcomeMatchesPhase
      <4> QED BY <1>5, <2>9, <3>1, <4>3 DEF SubscribersReturn
    <3>2. CASE outcome[c] # "unsettled"
      BY <1>6, <2>9, <3>2 DEF SubscribersReturn, poolVars
    <3> QED BY <3>1, <3>2
  <2> QED BY <1>10, <2>1, <2>2, <2>3, <2>4, <2>5, <2>6, <2>7, <2>8, <2>9
          DEF Continue
<1>11. ASSUME NEW c \in Calls, AbortSignal(c) PROVE Seen
  BY <1>6, <1>8, <1>11 DEF AbortSignal, AbandonCodes, poolVars
<1>12. ASSUME NEW c \in Calls, DeadlineTimer(c) PROVE Seen
  BY <1>8, <1>12 DEF DeadlineTimer, AbandonCodes
<1>13. ASSUME NEW c \in Calls, EffectSettles(c) PROVE Seen
  BY <1>4, <1>13 DEF EffectSettles, SettleEffect, Reserved, ReservedPhases
<1>14. ASSUME NEW o \in Owners, RecoverOwner(o) PROVE Seen
  BY <1>3, <1>14, SeenRecover
<1>15. ASSUME NEW w \in Observers, NEW o \in Owners, WhenOwnerIdle(w, o)
       PROVE  Seen
  BY <1>6, <1>15 DEF WhenOwnerIdle, poolVars, callVars
<1>16. ASSUME UNCHANGED vars PROVE Seen
  BY <1>6, <1>16 DEF vars, poolVars, callVars
<1>17. Seen
  BY <1>9, <1>10, <1>11, <1>12, <1>13, <1>14, <1>15, <1>16 DEF Next
<1> QED BY <1>17 DEF Seen

LEMMA SeenInit == Init => Admission!Init
<1> SUFFICES ASSUME Init PROVE Admission!Init
  OBVIOUS
<1>1. /\ \A o \in Owners : OwnerCalls(o) = {} /\ ~owner[o].quarantined
      /\ \A c \in Calls : phase[c] # "done"
  BY DEF Init, OwnerCalls, Reserved, ReservedPhases, Initializing
<1>2. [o \in Owners |-> OwnerCalls(o)] = [o \in Owners |-> {}]
  BY <1>1
<1> QED BY <1>1, <1>2 DEF Admission!Init

(* The supervisor of packages/host-runtime admits, ends, quarantines and   *)
(* recovers as EffectAdmission says, for any number of calls and owners and *)
(* any limits, reentrant calls included.                                   *)
THEOREM AdmissionImplemented == Spec => ImplementsAdmission
<1>1. Init => Admission!Init
  BY SeenInit
<1>2. CallsInv /\ [Next]_vars => [Admission!Next]_(Admission!vars)
  BY SeenStep
<1> QED
  BY <1>1, <1>2, CallsInvariant, PTL DEF Spec, ImplementsAdmission,
     Admission!Spec

-----------------------------------------------------------------------------
(* The limits, read off the abstract step.                                 *)
LEMMA NextLimits ==
  CallsInv /\ LimitsRespected /\ [Next]_vars => LimitsRespected'
<1> SUFFICES ASSUME CallsInv, LimitsRespected, [Next]_vars
             PROVE  LimitsRespected'
  OBVIOUS
<1> DEFINE Held == {c \in Calls : Reserved(c)}
<1>1. CallsInv' /\ [Admission!Next]_(Admission!vars)
  BY NextCalls, SeenStep
<1>2. /\ Held' = UNION {OwnerCalls(o)' : o \in Owners}
      /\ Held = UNION {OwnerCalls(o) : o \in Owners}
  BY <1>1 DEF CallsInv, OwnersKnown, OwnerCalls
<1>3. ASSUME NEW c \in Calls, NEW o \in Owners, Admission!Admit(c, o)
      PROVE  LimitsRespected'
  <2>1. /\ [x \in Owners |-> OwnerCalls(x)']
             = [[x \in Owners |-> OwnerCalls(x)] EXCEPT ![o] = @ \cup {c}]
        /\ c \notin Admission!AllHolders
        /\ Cardinality([x \in Owners |-> OwnerCalls(x)][o])
             < MaxConcurrentEffectsPerOwner
        /\ Cardinality(Admission!AllHolders) < MaxConcurrentEffects
    BY <1>3 DEF Admission!Admit, Admission!Cardinality, Cardinality
  <2>2. /\ OwnerCalls(o)' = OwnerCalls(o) \cup {c}
        /\ \A x \in Owners \ {o} : OwnerCalls(x)' = OwnerCalls(x)
    BY <2>1
  <2>3. Held' = Held \cup {c} /\ c \notin Held /\ c \notin OwnerCalls(o)
    BY <1>2, <2>1, <2>2, HoldersAreReserved DEF OwnerCalls
  <2>4. Cardinality(Held') = Cardinality(Held) + 1
    BY <2>3, CountIn
  <2>5. Cardinality(OwnerCalls(o)') = Cardinality(OwnerCalls(o)) + 1
    BY <2>2, <2>3, CountIn DEF OwnerCalls
  <2>6. /\ Cardinality(Held) < MaxConcurrentEffects
        /\ Cardinality(OwnerCalls(o)) < MaxConcurrentEffectsPerOwner
    BY <2>1, HoldersAreReserved
  <2>7. Cardinality(Held) \in Nat /\ Cardinality(OwnerCalls(o)) \in Nat
    BY CountType DEF OwnerCalls
  <2>8. /\ Cardinality(Held') <= MaxConcurrentEffects
        /\ Cardinality(OwnerCalls(o)') <= MaxConcurrentEffectsPerOwner
    BY <2>4, <2>5, <2>6, <2>7, LimitsAssumption
  <2> QED BY <2>2, <2>8 DEF LimitsRespected
<1>4. ASSUME \A x \in Owners : OwnerCalls(x)' \subseteq OwnerCalls(x)
      PROVE  LimitsRespected'
  <2>1. Held' \subseteq Held
    BY <1>2, <1>4
  <2>2. ASSUME NEW S, S \subseteq Calls, NEW T, T \subseteq S
        PROVE  Cardinality(T) <= Cardinality(S)
    BY <2>2, CallsAssumption, FS_Subset
  <2>3. Cardinality(Held') <= Cardinality(Held)
    BY <2>1, <2>2
  <2>4. /\ Cardinality(Held) <= MaxConcurrentEffects
        /\ Cardinality(Held) \in Nat /\ Cardinality(Held') \in Nat
    BY <2>1, CountType DEF LimitsRespected
  <2>5. Cardinality(Held') <= MaxConcurrentEffects
    BY <2>3, <2>4, LimitsAssumption
  <2>6. ASSUME NEW x \in Owners
        PROVE  Cardinality(OwnerCalls(x)') <= MaxConcurrentEffectsPerOwner
    <3>1. OwnerCalls(x) \subseteq Calls
      BY DEF OwnerCalls
    <3>2. Cardinality(OwnerCalls(x)') <= Cardinality(OwnerCalls(x))
      BY <1>4, <2>2, <3>1
    <3>3. /\ Cardinality(OwnerCalls(x)) <= MaxConcurrentEffectsPerOwner
          /\ Cardinality(OwnerCalls(x)) \in Nat
          /\ Cardinality(OwnerCalls(x)') \in Nat
      BY <1>4, <3>1, CountType DEF LimitsRespected
    <3> QED BY <3>2, <3>3, LimitsAssumption
  <2> QED BY <2>5, <2>6 DEF LimitsRespected
<1>5. ASSUME NEW c \in Calls, NEW o \in Owners, Admission!End(c, o)
      PROVE  LimitsRespected'
  <2>1. [x \in Owners |-> OwnerCalls(x)']
          = [[x \in Owners |-> OwnerCalls(x)] EXCEPT ![o] = @ \ {c}]
    BY <1>5 DEF Admission!End
  <2>2. \A x \in Owners : OwnerCalls(x)' \subseteq OwnerCalls(x)
    BY <2>1
  <2> QED BY <1>4, <2>2
<1>6. ASSUME [x \in Owners |-> OwnerCalls(x)']
               = [x \in Owners |-> OwnerCalls(x)]
      PROVE  LimitsRespected'
  <2>1. \A x \in Owners : OwnerCalls(x)' \subseteq OwnerCalls(x)
    BY <1>6
  <2> QED BY <1>4, <2>1
<1> QED
  BY <1>1, <1>3, <1>5, <1>6
  DEF Admission!Next, Admission!vars, Admission!TurnAway, Admission!Quarantine,
      Admission!Recover

(* Running effects, those whose callers were told of an abandonment        *)
(* included, never exceed the limit of the process or of an owner.         *)
THEOREM LimitsAreRespected == Spec => []LimitsRespected
<1>1. Init => LimitsRespected
  <2> SUFFICES ASSUME Init PROVE LimitsRespected
    OBVIOUS
  <2>1. /\ {c \in Calls : Reserved(c)} = {}
        /\ \A o \in Owners : OwnerCalls(o) = {}
    BY DEF Init, Reserved, ReservedPhases, Initializing, OwnerCalls
  <2>2. /\ Cardinality({}) <= MaxConcurrentEffects
        /\ Cardinality({}) <= MaxConcurrentEffectsPerOwner
    <3>1. Cardinality({}) = 0
      BY FS_EmptySet
    <3> QED BY <3>1, LimitsAssumption
  <2> QED BY <2>1, <2>2, Zenon DEF LimitsRespected
<1>2. CallsInv /\ LimitsRespected /\ [Next]_vars => LimitsRespected'
  BY NextLimits
<1> QED BY <1>1, <1>2, CallsInvariant, PTL DEF Spec

-----------------------------------------------------------------------------
(* Owners: their generation and quarantine, beside the effects they run.   *)

(* A step that adds no reservation and lifts no quarantine of a busy owner. *)
LEMMA OwnersKept ==
  ASSUME OldEffectsContained,
         \A c \in Calls : Reserved(c)' =>
           /\ Reserved(c) /\ request'[c] = request[c]
           /\ owner'[request[c].owner].generation
                = owner[request[c].owner].generation
           /\ owner[request[c].owner].quarantined
                => owner'[request[c].owner].quarantined
           /\ phase'[c] = "running" /\ outcome'[c] # "unsettled" =>
                \/ phase[c] = "running" /\ outcome[c] # "unsettled"
                \/ owner'[request[c].owner].quarantined
  PROVE  OldEffectsContained'
BY DEF OldEffectsContained, GenerationStable,
       AbandonedMeansQuarantined, Reserved,
       ReservedPhases

LEMMA NextOwners ==
  CallsInv /\ OldEffectsContained /\ [Next]_vars => OldEffectsContained'
<1> SUFFICES ASSUME CallsInv, OldEffectsContained, [Next]_vars
             PROVE  OldEffectsContained'
  OBVIOUS
<1> USE DEF ReservedPhases, Initializing
<1>1. ASSUME UNCHANGED <<phase, request, outcome, owner>>
      PROVE  OldEffectsContained'
  BY <1>1, OwnersKept DEF Reserved
<1>2. ASSUME NEW c \in Calls, Refuse(c),
             \/ owner' = owner
             \/ \E o \in Owners : owner' = [owner EXCEPT ![o] = Known(o)]
      PROVE  OldEffectsContained'
  <2>1. \A d \in Calls : Reserved(d)' => /\ Reserved(d) /\ d # c
                                         /\ phase'[d] = phase[d]
                                         /\ outcome'[d] = outcome[d]
    BY <1>2 DEF Refuse, Reserved, CallsInv, TypeOK
  <2>2. \A d \in Calls : Reserved(d) =>
          owner'[request[d].owner] = owner[request[d].owner]
    BY <1>2, Lookup DEF CallsInv, TypeOK, OwnersKnown
  <2> QED BY <1>2, <2>1, <2>2, OwnersKept DEF Refuse
<1>3. ASSUME NEW c \in Calls, NEW o \in Owners, NEW d \in Deadlines,
             NEW s \in BOOLEAN, NEW t \in Times, Run(c, o, d, s, t)
      PROVE  OldEffectsContained'
  <2>1. TypeOK /\ Reserve(o) /\ phase[c] = "idle"
    BY <1>3 DEF Run, CallsInv
  <2>2. /\ request'[c].owner = o
        /\ request'[c].generation = Known(o).generation
        /\ outcome' = outcome /\ outcome[c] = "unsettled"
        /\ \A x \in Calls \ {c} : /\ phase'[x] = phase[x]
                                  /\ request'[x] = request[x]
    BY <1>3, <2>1 DEF Run, TypeOK, CallsInv, OutcomeMatchesPhase
  <2>3. ASSUME NEW x \in Owners, owner[x].known
        PROVE  /\ owner'[x].generation = owner[x].generation
               /\ owner'[x].quarantined = owner[x].quarantined
    BY <2>1, <2>3, ReservedOwner, Lookup
  <2>4. owner'[o].generation = Known(o).generation
    BY <2>1, ReservedOwner
  <2>5. ASSUME NEW x \in Calls, Reserved(x)'
        PROVE  request'[x].generation = owner'[request'[x].owner].generation
    <3>1. CASE x = c
      BY <2>2, <2>4, <3>1
    <3>2. CASE x # c
      <4>1. Reserved(x) /\ request'[x] = request[x]
        BY <2>2, <2>5, <3>2 DEF Reserved
      <4> QED BY <2>3, <4>1 DEF CallsInv, OwnersKnown, OldEffectsContained,
                                GenerationStable
    <3> QED BY <3>1, <3>2
  <2>6. ASSUME NEW x \in Calls, phase'[x] = "running",
               outcome'[x] # "unsettled"
        PROVE  owner'[request'[x].owner].quarantined
    <3>1. x # c /\ Reserved(x) /\ phase[x] = "running"
          /\ request'[x] = request[x] /\ outcome[x] # "unsettled"
      BY <2>2, <2>6 DEF Reserved
    <3>2. owner[request[x].owner].quarantined
      BY <3>1 DEF OldEffectsContained, AbandonedMeansQuarantined
    <3>3. owner'[request[x].owner].quarantined
            = owner[request[x].owner].quarantined
      BY <2>3, <3>1 DEF CallsInv, OwnersKnown
    <3> QED BY <3>1, <3>2, <3>3, Zenon
  <2> QED BY <2>5, <2>6 DEF OldEffectsContained, GenerationStable,
                            AbandonedMeansQuarantined
<1>4. ASSUME NEW c \in Calls, phase[c] \in Initializing,
             NEW p \in ReservedPhases, phase' = [phase EXCEPT ![c] = p],
             UNCHANGED <<request, outcome, owner>>
      PROVE  OldEffectsContained'
  <2>1. outcome[c] = "unsettled"
    BY <1>4 DEF CallsInv, OutcomeMatchesPhase
  <2>2. \A x \in Calls : Reserved(x)' => Reserved(x)
    BY <1>4 DEF Reserved, CallsInv, TypeOK
  <2>3. \A x \in Calls : phase'[x] = "running" /\ outcome[x] # "unsettled"
                           => phase[x] = "running"
    BY <1>4, <2>1 DEF CallsInv, TypeOK
  <2> QED BY <1>4, <2>2, <2>3, OwnersKept
<1>5. ASSUME NEW c \in Calls, Finish(c),
             \A d \in Calls \ {c} : outcome'[d] = outcome[d]
      PROVE  OldEffectsContained'
  <2>1. \A d \in Calls : Reserved(d)' =>
          /\ d # c /\ Reserved(d) /\ phase'[d] = phase[d]
          /\ request'[d] = request[d]
    BY <1>5 DEF Finish, Reserved, CallsInv, TypeOK
  <2>2. ASSUME NEW o \in Owners
        PROVE  /\ owner'[o].generation = owner[o].generation
               /\ owner'[o].quarantined = owner[o].quarantined
    BY <1>5 DEF Finish, Release, CallsInv, TypeOK, OwnerStates
  <2>3. \A o \in Owners : owner[o].quarantined => owner'[o].quarantined
    BY <2>2
  <2>4. \A d \in Calls : Reserved(d) => request[d].owner \in Owners
    BY DEF CallsInv, OwnersKnown
  <2> QED BY <1>5, <2>1, <2>2, <2>3, <2>4, OwnersKept
<1>6. ASSUME NEW c \in Calls, NEW code, phase[c] = "running",
             SettleAbandoned(c, code), UNCHANGED <<phase, request>>
      PROVE  OldEffectsContained'
  <2>1. \A d \in Calls : Reserved(d) => request[d].owner \in Owners
    BY DEF CallsInv, OwnersKnown
  <2>2. request[c].owner \in Owners
    BY <1>6, <2>1 DEF Reserved
  <2>3. ASSUME NEW o \in Owners
        PROVE  /\ owner'[o].generation = owner[o].generation
               /\ owner[o].quarantined => owner'[o].quarantined
               /\ o = request[c].owner => owner'[o].quarantined
    BY <1>6, <2>2 DEF SettleAbandoned, CallsInv, TypeOK, OwnerStates
  <2>4. \A d \in Calls \ {c} : outcome'[d] = outcome[d]
    BY <1>6 DEF SettleAbandoned, CallsInv, TypeOK
  <2>5. \A d \in Calls : Reserved(d)' <=> Reserved(d)
    BY <1>6 DEF Reserved
  <2> QED BY <1>6, <2>1, <2>2, <2>3, <2>4, <2>5, OwnersKept
<1>7. ASSUME NEW c \in Calls, NEW code \in AbandonCodes, Abandon(c, code),
             UNCHANGED <<phase, request>>
      PROVE  OldEffectsContained'
  <2>1. CASE NoteAbandoned(c, code) \/ PublishCancellation(c, code)
    BY <1>1, <1>7, <2>1 DEF NoteAbandoned, PublishCancellation, poolVars
  <2>2. CASE phase[c] = "running" /\ SettleAbandoned(c, code)
    BY <1>6, <1>7, <2>2
  <2> QED BY <1>7, <2>1, <2>2 DEF Abandon
<1>8. ASSUME NEW c \in Calls, RunCalls(c) PROVE OldEffectsContained'
  <2>1. CASE RunRefusedEarly(c)
    BY <1>2, <2>1 DEF RunRefusedEarly
  <2>2. ASSUME NEW t \in Times, RunRefusedLate(c, t) PROVE OldEffectsContained'
    BY <1>2, <2>2 DEF RunRefusedLate
  <2>3. ASSUME NEW o \in Owners, NEW t \in Times, RunNotAdmitted(c, o, t)
        PROVE  OldEffectsContained'
    BY <1>2, <2>3 DEF RunNotAdmitted
  <2> QED BY <1>3, <1>8, <2>1, <2>2, <2>3 DEF RunCalls
<1>9. ASSUME NEW c \in Calls, Continue(c) PROVE OldEffectsContained'
  <2>1. ASSUME BeforeStart(c) PROVE OldEffectsContained'
    BY <1>5, <2>1 DEF BeforeStart, CallsInv, TypeOK
  <2>2. CASE AttachListener(c)
    <3>1. (IF request[c].deadline # Unset THEN "arm" ELSE "begin")
            \in ReservedPhases
      OBVIOUS
    <3> QED BY <1>4, <2>2, <3>1 DEF AttachListener, InSetup, poolVars
  <2>3. ASSUME NEW t \in Times, ArmTimer(c, t) PROVE OldEffectsContained'
    BY <1>4, <2>3 DEF ArmTimer, InSetup, poolVars
  <2>4. CASE Begin(c)
    BY <1>4, <2>4 DEF Begin, InSetup, poolVars
  <2>5. CASE MethodReturns(c)
    BY <1>1, <2>5 DEF MethodReturns, poolVars, callVars
  <2>6. CASE MethodThrows(c)
    BY <1>5, <2>6 DEF MethodThrows, SettleEffect, CallsInv, TypeOK
  <2>7. ASSUME NEW code \in AbandonCodes, SubscribersReturn(c, code)
        PROVE  OldEffectsContained'
    <3>1. CASE outcome[c] = "unsettled"
      <4>0. stack \in Seq(Frames)
        BY DEF CallsInv, TypeOK
      <4>1. <<c, code>> \in OnStack(stack) /\ code # "setup"
        BY <2>7, <4>0, ReturningFrame
      <4>2. phase[c] \in {"running", "done"}
        BY <4>1 DEF CallsInv, FramesStarted
      <4>3. phase[c] = "running"
        BY <3>1, <4>2 DEF CallsInv, OutcomeMatchesPhase
      <4> QED BY <1>6, <2>7, <3>1, <4>3 DEF SubscribersReturn
    <3>2. CASE outcome[c] # "unsettled"
      BY <1>1, <2>7, <3>2 DEF SubscribersReturn, poolVars
    <3> QED BY <3>1, <3>2
  <2> QED BY <1>9, <2>1, <2>2, <2>3, <2>4, <2>5, <2>6, <2>7
          DEF Continue, AttachFails, ArmFails, BeginRefused
<1>10. ASSUME NEW c \in Calls, AbortSignal(c) PROVE OldEffectsContained'
  BY <1>1, <1>7, <1>10 DEF AbortSignal, AbandonCodes, poolVars
<1>11. ASSUME NEW c \in Calls, DeadlineTimer(c) PROVE OldEffectsContained'
  BY <1>7, <1>11 DEF DeadlineTimer, AbandonCodes
<1>12. ASSUME NEW c \in Calls, EffectSettles(c) PROVE OldEffectsContained'
  BY <1>5, <1>12 DEF EffectSettles, SettleEffect, CallsInv, TypeOK
<1>13. ASSUME NEW o \in Owners, RecoverOwner(o) PROVE OldEffectsContained'
  <2>1. OwnerCalls(o) = {}
    <3>1. Cardinality(OwnerCalls(o)) = 0 /\ OwnerCalls(o) \subseteq Calls
      BY <1>13 DEF RecoverOwner, CallsInv, ReservationsAccounted, OwnerCalls
    <3> QED BY <3>1, CountType
  <2>2. \A d \in Calls : Reserved(d)' => Reserved(d) /\ request[d].owner # o
    BY <1>13, <2>1 DEF RecoverOwner, callVars, Reserved, OwnerCalls
  <2>3. \A x \in Owners \ {o} : owner'[x] = owner[x]
    BY <1>13 DEF RecoverOwner, CallsInv, TypeOK
  <2>4. \A d \in Calls : Reserved(d) => request[d].owner \in Owners
    BY DEF CallsInv, OwnersKnown
  <2> QED
    BY <1>13, <2>2, <2>3, <2>4, OwnersKept DEF RecoverOwner, callVars
<1>14. ASSUME NEW w \in Observers, NEW o \in Owners, WhenOwnerIdle(w, o)
       PROVE  OldEffectsContained'
  BY <1>1, <1>14 DEF WhenOwnerIdle, poolVars, callVars
<1>15. ASSUME UNCHANGED vars PROVE OldEffectsContained'
  BY <1>1, <1>15 DEF vars, poolVars, callVars
<1> QED
  BY <1>8, <1>9, <1>10, <1>11, <1>12, <1>13, <1>14, <1>15 DEF Next

(* recoverOwner() never opens a generation beside an effect of the one     *)
(* before, and an effect that outlives its caller keeps its owner          *)
(* quarantined until it has really settled.                                *)
THEOREM OldEffectsAreContained == Spec => []OldEffectsContained
<1>1. Init => OldEffectsContained
  BY DEF Init, OldEffectsContained, GenerationStable,
     AbandonedMeansQuarantined, Reserved, ReservedPhases, Initializing
<1>2. CallsInv /\ OldEffectsContained /\ [Next]_vars => OldEffectsContained'
  BY NextOwners
<1> QED BY <1>1, <1>2, CallsInvariant, PTL DEF Spec

-----------------------------------------------------------------------------
(* Idle epochs.                                                            *)

(* Whoever was handed an epoch's promise waits for calls that have started *)
(* and, while they hold a reservation, hold it of the owner it asked for;  *)
(* the epoch is the owner's or one the owner has left.                     *)
EpochsHanded ==
  \A w \in Observers :
    /\ \A c \in watch[w].calls :
         /\ phase[c] # "idle"
         /\ Reserved(c) => request[c].owner = watch[w].owner
    /\ watch[w].owner \in Owners =>
         watch[w].epoch <= owner[watch[w].owner].epoch

WatchInv == WokenWhenDrained /\ EpochsHanded

(* An observer that has not been woken waits for the owner's epoch.        *)
LEMMA WaitsForTheEpoch ==
  ASSUME TypeOK, WatchInv, NEW w \in Observers, ~watch[w].woken,
         watch[w].owner # NoOwner
  PROVE  /\ watch[w].owner \in Owners
         /\ watch[w].epoch = owner[watch[w].owner].epoch
         /\ owner[watch[w].owner].reservations # 0
<1>1. watch[w].owner \in Owners /\ watch[w].epoch \in Nat
  BY DEF TypeOK, Watches
<1>2. owner[watch[w].owner].epoch \in Nat
  BY <1>1 DEF TypeOK, OwnerStates
<1> QED
  BY <1>1, <1>2 DEF WatchInv, WokenWhenDrained, DrainedMeansWoken, EpochsHanded

(* A step that reserves nothing and opens and resolves no epoch.           *)
LEMMA WatchKept ==
  ASSUME WatchInv, TypeOK, watch' = watch,
         \A c \in Calls : /\ phase[c] # "idle" => phase'[c] # "idle"
                          /\ Reserved(c)' => /\ Reserved(c)
                                             /\ request'[c] = request[c],
         \A o \in Owners : /\ owner'[o].reservations = owner[o].reservations
                           /\ owner'[o].epoch = owner[o].epoch
  PROVE  WatchInv'
<1>1. \A w \in Observers : /\ watch[w].calls \subseteq Calls
                           /\ watch[w].owner \in Owners \cup {NoOwner}
  BY DEF TypeOK, Watches
<1>2. WokenMeansDrained'
  BY <1>1 DEF WatchInv, WokenWhenDrained, WokenMeansDrained
<1>3. DrainedMeansWoken'
  BY <1>1 DEF WatchInv, WokenWhenDrained, DrainedMeansWoken
<1>4. EpochsHanded'
  BY <1>1 DEF WatchInv, EpochsHanded
<1> QED BY <1>2, <1>3, <1>4 DEF WatchInv, WokenWhenDrained

(* A reservation opens an epoch only when nobody unwoken waits for the     *)
(* owner, and is taken by a call nobody was told of.                       *)
LEMMA RunKeepsWatch ==
  ASSUME CallsInv, WatchInv, NEW c \in Calls, NEW o \in Owners,
         NEW d \in Deadlines, NEW s \in BOOLEAN, NEW t \in Times,
         Run(c, o, d, s, t)
  PROVE  WatchInv'
<1>1. TypeOK /\ Reserve(o) /\ phase[c] = "idle" /\ watch' = watch
  BY DEF Run, CallsInv
<1>2. /\ \A x \in Calls \ {c} : /\ phase'[x] = phase[x]
                                /\ request'[x] = request[x]
      /\ phase'[c] # "idle"
  BY <1>1 DEF Run, TypeOK, FirstPhase
<1>3. /\ \A x \in Owners \ {o} : owner'[x] = owner[x]
      /\ owner'[o].reservations = owner[o].reservations + 1
      /\ owner'[o].epoch = IF owner[o].reservations = 0
                           THEN owner[o].epoch + 1 ELSE owner[o].epoch
      /\ owner[o].reservations \in Nat /\ owner[o].epoch \in Nat
  BY <1>1, ReservedOwner DEF TypeOK, OwnerStates
<1>4. ASSUME NEW w \in Observers
      PROVE  /\ watch[w].calls \subseteq Calls \ {c}
             /\ \A x \in watch[w].calls : Reserved(x)' <=> Reserved(x)
             /\ watch[w].epoch \in Nat
  BY <1>1, <1>2 DEF WatchInv, EpochsHanded, TypeOK, Watches, Reserved
<1>5. WokenMeansDrained'
  BY <1>1, <1>4 DEF WatchInv, WokenWhenDrained, WokenMeansDrained
<1>6. ASSUME NEW w \in Observers, ~watch[w].woken, watch[w].owner # NoOwner
      PROVE  /\ owner'[watch[w].owner].reservations # 0
             /\ ~(owner'[watch[w].owner].epoch > watch[w].epoch)
  <2>1. /\ watch[w].owner \in Owners
        /\ watch[w].epoch = owner[watch[w].owner].epoch
        /\ owner[watch[w].owner].reservations # 0
    BY <1>1, <1>6, WaitsForTheEpoch
  <2>2. CASE watch[w].owner = o
    BY <1>3, <2>1, <2>2
  <2>3. CASE watch[w].owner # o
    <3>1. owner'[watch[w].owner] = owner[watch[w].owner]
      BY <1>3, <2>1, <2>3
    <3> QED BY <1>4, <2>1, <3>1
  <2> QED BY <2>2, <2>3
<1>7. DrainedMeansWoken'
  BY <1>1, <1>6 DEF DrainedMeansWoken
<1>8. ASSUME NEW w \in Observers, watch[w].owner \in Owners
      PROVE  watch[w].epoch <= owner'[watch[w].owner].epoch
  <2>1. watch[w].epoch <= owner[watch[w].owner].epoch
    BY <1>8 DEF WatchInv, EpochsHanded
  <2>2. CASE watch[w].owner = o
    BY <1>3, <1>4, <2>1, <2>2
  <2>3. CASE watch[w].owner # o
    BY <1>3, <1>8, <2>1, <2>3
  <2> QED BY <2>2, <2>3
<1>9. EpochsHanded'
  BY <1>1, <1>2, <1>4, <1>8 DEF WatchInv, EpochsHanded
<1> QED BY <1>5, <1>7, <1>9 DEF WatchInv, WokenWhenDrained

(* The last release of an owner wakes all who wait for its epoch, and      *)
(* nothing of the owner runs any more; another release wakes nobody.       *)
LEMMA FinishKeepsWatch ==
  ASSUME CallsInv, WatchInv, NEW c \in Calls, Reserved(c), Finish(c)
  PROVE  WatchInv'
<1> DEFINE o == request[c].owner
<1>1. TypeOK /\ o \in Owners /\ owner[o].reservations \in Nat \ {0}
  BY FinishAccounts DEF CallsInv, OwnersKnown
<1>2. /\ \A x \in Calls \ {c} : /\ phase'[x] = phase[x]
                                /\ request'[x] = request[x]
      /\ phase'[c] = "done" /\ ~Reserved(c)'
  BY <1>1 DEF Finish, TypeOK, Reserved, ReservedPhases, Initializing
<1>3. \A x \in Calls : Reserved(x)' => /\ Reserved(x) /\ x # c
                                       /\ request'[x] = request[x]
  BY <1>2 DEF Reserved
<1>4. /\ \A x \in Owners : owner'[x].epoch = owner[x].epoch
      /\ \A x \in Owners \ {o} : owner'[x] = owner[x]
      /\ owner'[o].reservations = owner[o].reservations - 1
  BY <1>1 DEF Finish, Release, TypeOK, OwnerStates
<1>5. ASSUME NEW w \in Observers
      PROVE  /\ watch'[w].owner = watch[w].owner
             /\ watch'[w].epoch = watch[w].epoch
             /\ watch'[w].calls = watch[w].calls
             /\ watch'[w].woken <=>
                  \/ watch[w].woken
                  \/ /\ owner[o].reservations = 1
                     /\ watch[w].owner = o /\ watch[w].epoch = owner[o].epoch
             /\ watch[w].calls \subseteq Calls
             /\ watch[w].owner \in Owners \cup {NoOwner}
  BY <1>1 DEF Finish, Release, TypeOK, Watches
<1>6. ASSUME owner[o].reservations = 1, NEW x \in Calls, x # c, Reserved(x)
      PROVE  request[x].owner # o
  <2>1. CASE request[x].owner = o
    <3>1. {c, x} \subseteq OwnerCalls(o) /\ OwnerCalls(o) \subseteq Calls
      BY <1>6, <2>1 DEF OwnerCalls
    <3>2. /\ Cardinality(OwnerCalls(o)) = 1
          /\ Cardinality(OwnerCalls(o) \ {c})
               = Cardinality(OwnerCalls(o)) - 1
      BY <1>1, <1>6, <3>1, CountOut DEF CallsInv, ReservationsAccounted
    <3>3. OwnerCalls(o) \ {c} = {}
      BY <3>1, <3>2, CountType
    <3> QED BY <1>6, <3>1, <3>3
  <2> QED BY <2>1
<1>7. ASSUME NEW w \in Observers, watch'[w].woken, NEW x \in watch'[w].calls
      PROVE  ~Reserved(x)'
  <2>1. x \in watch[w].calls /\ x \in Calls
    BY <1>5, <1>7
  <2>2. CASE watch[w].woken
    BY <1>3, <2>1, <2>2 DEF WatchInv, WokenWhenDrained, WokenMeansDrained
  <2>3. CASE ~watch[w].woken
    <3>1. owner[o].reservations = 1 /\ watch[w].owner = o
      BY <1>5, <1>7, <2>3
    <3>2. Reserved(x) => request[x].owner = o
      BY <2>1, <3>1 DEF WatchInv, EpochsHanded
    <3> QED BY <1>3, <1>6, <2>1, <3>1, <3>2
  <2> QED BY <2>2, <2>3
<1>8. WokenMeansDrained'
  BY <1>7 DEF WokenMeansDrained
<1>9. ASSUME NEW w \in Observers, ~watch'[w].woken, watch[w].owner # NoOwner
      PROVE  /\ owner'[watch[w].owner].reservations # 0
             /\ ~(owner'[watch[w].owner].epoch > watch[w].epoch)
  <2>0. ~watch[w].woken
    BY <1>5, <1>9
  <2>1. /\ watch[w].owner \in Owners
        /\ watch[w].epoch = owner[watch[w].owner].epoch
        /\ owner[watch[w].owner].reservations # 0
    BY <1>1, <1>9, <2>0, WaitsForTheEpoch
  <2>2. ~(owner'[watch[w].owner].epoch > watch[w].epoch)
    <3>1. watch[w].epoch \in Nat
      BY <1>1 DEF TypeOK, Watches
    <3> QED BY <1>4, <2>1, <3>1
  <2>3. CASE watch[w].owner = o
    <3>1. owner[o].reservations # 1
      BY <1>5, <1>9, <2>1, <2>3
    <3> QED BY <1>1, <1>4, <2>2, <2>3, <3>1
  <2>4. CASE watch[w].owner # o
    BY <1>4, <2>1, <2>2, <2>4
  <2> QED BY <2>3, <2>4
<1>10. DrainedMeansWoken'
  BY <1>5, <1>9 DEF DrainedMeansWoken
<1>11. EpochsHanded'
  BY <1>2, <1>3, <1>4, <1>5 DEF WatchInv, EpochsHanded
<1> QED BY <1>8, <1>10, <1>11 DEF WatchInv, WokenWhenDrained

(* Whoever asks is handed the owner's epoch with the calls it runs.        *)
LEMMA AskingKeepsWatch ==
  ASSUME CallsInv, WatchInv, NEW w \in Observers, NEW o \in Owners,
         WhenOwnerIdle(w, o)
  PROVE  WatchInv'
<1>1. TypeOK /\ UNCHANGED <<owner, phase, request>>
  BY DEF WhenOwnerIdle, CallsInv, poolVars, callVars
<1>2. /\ \A v \in Observers \ {w} : watch'[v] = watch[v]
      /\ watch'[w].owner = o /\ watch'[w].epoch = owner[o].epoch
      /\ watch'[w].calls = OwnerCalls(o)
      /\ watch'[w].woken <=> owner[o].reservations = 0
      /\ owner[o].epoch \in Nat
  BY <1>1 DEF WhenOwnerIdle, TypeOK, OwnerStates
<1>3. \A c \in Calls : Reserved(c)' <=> Reserved(c)
  BY <1>1 DEF Reserved
<1>4. owner[o].reservations = 0 => OwnerCalls(o) = {}
  <2>1. OwnerCalls(o) \subseteq Calls
    BY DEF OwnerCalls
  <2> QED BY <2>1, CountType DEF CallsInv, ReservationsAccounted
<1>5. \A v \in Observers : watch[v].calls \subseteq Calls
  BY <1>1 DEF TypeOK, Watches
<1>6. WokenMeansDrained'
  <2>1. ASSUME NEW v \in Observers, watch'[v].woken, NEW x \in watch'[v].calls
        PROVE  ~Reserved(x)'
    <3>1. CASE v = w
      BY <1>2, <1>4, <2>1, <3>1
    <3>2. CASE v # w
      BY <1>2, <1>3, <1>5, <2>1, <3>2
      DEF WatchInv, WokenWhenDrained, WokenMeansDrained
    <3> QED BY <3>1, <3>2
  <2> QED BY <2>1 DEF WokenMeansDrained
<1>7. DrainedMeansWoken'
  BY <1>1, <1>2 DEF WatchInv, WokenWhenDrained, DrainedMeansWoken
<1>8. EpochsHanded'
  <2>1. \A c \in OwnerCalls(o) : Reserved(c) /\ request[c].owner = o
    BY DEF OwnerCalls
  <2>2. \A c \in OwnerCalls(o) : phase[c] # "idle"
    BY DEF OwnerCalls, Reserved, ReservedPhases, Initializing
  <2> QED BY <1>1, <1>2, <1>3, <1>5, <2>1, <2>2 DEF WatchInv, EpochsHanded
<1> QED BY <1>6, <1>7, <1>8 DEF WatchInv, WokenWhenDrained

LEMMA NextWatch ==
  CallsInv /\ WatchInv /\ [Next]_vars => WatchInv'
<1> SUFFICES ASSUME CallsInv, WatchInv, [Next]_vars
             PROVE  WatchInv'
  OBVIOUS
<1>0. TypeOK
  BY DEF CallsInv
<1>1. ASSUME UNCHANGED <<phase, request, watch>>,
             \A o \in Owners :
               /\ owner'[o].reservations = owner[o].reservations
                               /\ owner'[o].epoch = owner[o].epoch
      PROVE  WatchInv'
  BY <1>0, <1>1, WatchKept DEF Reserved
<1>2. ASSUME NEW c \in Calls, Refuse(c),
             \/ owner' = owner
             \/ \E o \in Owners : owner' = [owner EXCEPT ![o] = Known(o)]
      PROVE  WatchInv'
  <2>1. \A d \in Calls : /\ phase[d] # "idle" => phase'[d] # "idle"
                         /\ Reserved(d)' => Reserved(d)
    BY <1>0, <1>2 DEF Refuse, Reserved, ReservedPhases, Initializing, TypeOK
  <2>2. \A o \in Owners : /\ owner'[o].reservations = owner[o].reservations
                          /\ owner'[o].epoch = owner[o].epoch
    BY <1>0, <1>2, Lookup DEF TypeOK
  <2> QED BY <1>0, <1>2, <2>1, <2>2, WatchKept DEF Refuse
<1>3. ASSUME NEW c \in Calls, phase[c] \in Initializing,
             NEW p \in ReservedPhases, phase' = [phase EXCEPT ![c] = p],
             UNCHANGED <<request, owner, watch>>
      PROVE  WatchInv'
  <2>1. \A d \in Calls : /\ phase[d] # "idle" => phase'[d] # "idle"
                         /\ Reserved(d)' => Reserved(d)
    BY <1>0, <1>3 DEF Reserved, ReservedPhases, Initializing, TypeOK
  <2> QED BY <1>0, <1>3, <2>1, WatchKept
<1>4. ASSUME NEW c \in Calls, NEW code, request[c].owner \in Owners,
             SettleAbandoned(c, code), UNCHANGED <<phase, request, watch>>
      PROVE  WatchInv'
  <2>1. \A o \in Owners : /\ owner'[o].reservations = owner[o].reservations
                          /\ owner'[o].epoch = owner[o].epoch
    BY <1>0, <1>4 DEF SettleAbandoned, TypeOK, OwnerStates
  <2> QED BY <1>1, <1>4, <2>1
<1>5. ASSUME NEW c \in Calls, NEW code, Abandon(c, code),
             UNCHANGED <<phase, request, watch>>
      PROVE  WatchInv'
  <2>1. request[c].owner \in Owners
    BY <1>5 DEF Abandon, Abandonable, CallsInv, OwnersKnown
  <2>2. CASE NoteAbandoned(c, code) \/ PublishCancellation(c, code)
    BY <1>1, <1>5, <2>2 DEF NoteAbandoned, PublishCancellation, poolVars
  <2>3. CASE SettleAbandoned(c, code)
    BY <1>4, <1>5, <2>1, <2>3
  <2> QED BY <1>5, <2>2, <2>3 DEF Abandon
<1>6. ASSUME NEW c \in Calls, RunCalls(c) PROVE WatchInv'
  <2>1. CASE RunRefusedEarly(c)
    BY <1>2, <2>1 DEF RunRefusedEarly
  <2>2. ASSUME NEW t \in Times, RunRefusedLate(c, t) PROVE WatchInv'
    BY <1>2, <2>2 DEF RunRefusedLate
  <2>3. ASSUME NEW o \in Owners, NEW t \in Times, RunNotAdmitted(c, o, t)
        PROVE  WatchInv'
    BY <1>2, <2>3 DEF RunNotAdmitted
  <2> QED BY <1>6, <2>1, <2>2, <2>3, RunKeepsWatch DEF RunCalls
<1>7. ASSUME NEW c \in Calls, Continue(c) PROVE WatchInv'
  <2> USE DEF ReservedPhases, Initializing
  <2>1. ASSUME BeforeStart(c), phase[c] \in Initializing PROVE WatchInv'
    BY <2>1, FinishKeepsWatch DEF BeforeStart, Reserved
  <2>2. CASE AttachListener(c)
    <3>1. (IF request[c].deadline # Unset THEN "arm" ELSE "begin")
            \in ReservedPhases
      OBVIOUS
    <3> QED BY <1>3, <2>2, <3>1 DEF AttachListener, InSetup, poolVars
  <2>3. ASSUME NEW t \in Times, ArmTimer(c, t) PROVE WatchInv'
    BY <1>3, <2>3 DEF ArmTimer, InSetup, poolVars
  <2>4. CASE Begin(c)
    BY <1>3, <2>4 DEF Begin, InSetup, poolVars
  <2>5. CASE MethodReturns(c)
    BY <1>1, <2>5 DEF MethodReturns, poolVars, callVars
  <2>6. CASE MethodThrows(c)
    BY <2>6, FinishKeepsWatch DEF MethodThrows, SettleEffect, InSetup, Reserved
  <2>7. ASSUME NEW code \in AbandonCodes, SubscribersReturn(c, code)
        PROVE  WatchInv'
    <3>1. CASE outcome[c] = "unsettled"
      <4>0. stack \in Seq(Frames)
        BY DEF CallsInv, TypeOK
      <4>1. <<c, code>> \in OnStack(stack) /\ code # "setup"
        BY <2>7, <4>0, ReturningFrame
      <4>2. phase[c] \in {"running", "done"}
        BY <4>1 DEF CallsInv, FramesStarted
      <4>3. phase[c] = "running"
        BY <3>1, <4>2 DEF CallsInv, OutcomeMatchesPhase
      <4>4. request[c].owner \in Owners
        BY <4>3 DEF CallsInv, OwnersKnown, Reserved
      <4> QED BY <1>4, <2>7, <3>1, <4>4 DEF SubscribersReturn
    <3>2. CASE outcome[c] # "unsettled"
      BY <1>1, <2>7, <3>2 DEF SubscribersReturn, poolVars
    <3> QED BY <3>1, <3>2
  <2> QED BY <1>7, <2>1, <2>2, <2>3, <2>4, <2>5, <2>6, <2>7
          DEF Continue, AttachFails, ArmFails, BeginRefused, InSetup
<1>8. ASSUME NEW c \in Calls, AbortSignal(c) PROVE WatchInv'
  BY <1>1, <1>5, <1>8 DEF AbortSignal, poolVars
<1>9. ASSUME NEW c \in Calls, DeadlineTimer(c) PROVE WatchInv'
  BY <1>5, <1>9 DEF DeadlineTimer
<1>10. ASSUME NEW c \in Calls, EffectSettles(c) PROVE WatchInv'
  BY <1>10, FinishKeepsWatch
  DEF EffectSettles, SettleEffect, Reserved, ReservedPhases
<1>11. ASSUME NEW o \in Owners, RecoverOwner(o) PROVE WatchInv'
  <2>1. \A x \in Owners : /\ owner'[x].reservations = owner[x].reservations
                          /\ owner'[x].epoch = owner[x].epoch
    BY <1>0, <1>11 DEF RecoverOwner, TypeOK, OwnerStates
  <2> QED BY <1>1, <1>11, <2>1 DEF RecoverOwner, callVars
<1>12. ASSUME UNCHANGED vars PROVE WatchInv'
  BY <1>1, <1>12 DEF vars, poolVars, callVars
<1> QED
  BY <1>6, <1>7, <1>8, <1>9, <1>10, <1>11, <1>12, AskingKeepsWatch DEF Next

(* Whoever waits for an owner to be idle is woken when all that ran when   *)
(* it asked has really settled: never before, and never forgotten, however *)
(* many epochs the owner goes through in the meantime.                     *)
THEOREM WokenExactlyWhenDrained == Spec => []WokenWhenDrained
<1>1. Init => WatchInv
  BY DEF Init, WatchInv, WokenWhenDrained, WokenMeansDrained,
     DrainedMeansWoken, EpochsHanded, NoWatch
<1>2. CallsInv /\ WatchInv /\ [Next]_vars => WatchInv'
  BY NextWatch
<1>3. WatchInv => WokenWhenDrained
  BY DEF WatchInv
<1> QED BY <1>1, <1>2, <1>3, CallsInvariant, PTL DEF Spec

-----------------------------------------------------------------------------
(* Who waits for an answer.                                                *)

(* A call being set up has its frame.  Once its listener should be there   *)
(* it is, and an abort or a deadline that is over has been noted.          *)
SetupIsHeard(c) ==
  /\ phase[c] = "idle" => c \notin aborted /\ reason[c] = "none"
  /\ phase[c] \in Initializing =>
       /\ <<c, "setup">> \in OnStack(stack)
       /\ pending[c] = "none" => reason[c] = "none"
  /\ phase[c] \in {"arm", "begin"} =>
       /\ request[c].signal => c \in listening
       /\ pending[c] = "none" => c \notin aborted
  /\ phase[c] = "begin" /\ pending[c] = "none" =>
       (request[c].deadline # Unset => c \in timers)

(* A started effect whose caller waits is being cancelled by a frame of    *)
(* its own, or nothing has happened to it and whatever may happen is heard. *)
WaitIsHeard(c) ==
  phase[c] = "running" /\ outcome[c] = "unsettled" =>
    \/ \E code \in AbandonCodes : <<c, code>> \in OnStack(stack)
    \/ /\ reason[c] = "none" /\ c \notin aborted
       /\ request[c].signal => c \in listening
       /\ request[c].deadline # Unset => c \in timers

Heard(c) == SetupIsHeard(c) /\ WaitIsHeard(c)
HeardInv == \A c \in Calls : Heard(c)

(* The frames a step takes from the stack are not the call's.              *)
FramesKept(c) ==
  \A f \in OnStack(stack) : f[1] = c => f \in OnStack(stack')

(* What happens to other calls does not touch this one.                    *)
LEMMA OthersHeard ==
  ASSUME NEW c \in Calls, Heard(c), FramesKept(c),
         phase'[c] = phase[c], outcome'[c] = outcome[c],
         reason'[c] = reason[c], pending'[c] = pending[c],
         request'[c] = request[c],
         c \in aborted' <=> c \in aborted,
         c \in listening' <=> c \in listening,
         c \in timers' <=> c \in timers
  PROVE  Heard(c)'
<1>1. \A x \in {"setup"} \cup AbandonCodes :
        <<c, x>> \in OnStack(stack) => <<c, x>> \in OnStack(stack')
  BY DEF FramesKept
<1>2. SetupIsHeard(c)'
  BY <1>1 DEF Heard, SetupIsHeard
<1>3. WaitIsHeard(c)'
  BY <1>1 DEF Heard, WaitIsHeard
<1> QED BY <1>2, <1>3 DEF Heard

(* A call that has ended waits for nothing.                                *)
LEMMA EndedHeard ==
  ASSUME NEW c \in Calls, phase'[c] = "done"
  PROVE  Heard(c)'
BY DEF Heard, SetupIsHeard, WaitIsHeard, Initializing

(* Taking a frame from the stack leaves the others.                        *)
LEMMA OthersFrames ==
  ASSUME stack \in Seq(Frames),
         \/ stack' = stack
         \/ stack # <<>> /\ stack' = Tail(stack)
  PROVE  \A f \in OnStack(stack) :
           f \in OnStack(stack') \/ (stack # <<>> /\ f = Head(stack))
<1>1. CASE stack' = stack
  BY <1>1
<1>2. CASE stack # <<>> /\ stack' = Tail(stack)
  <2>1. /\ Len(stack') = Len(stack) - 1 /\ Len(stack) \in Nat \ {0}
        /\ \A i \in 1..(Len(stack) - 1) : stack'[i] = stack[i + 1]
        /\ Head(stack) = stack[1]
    BY <1>2
  <2>2. ASSUME NEW f \in OnStack(stack), f # Head(stack)
        PROVE  f \in OnStack(stack')
    <3>1. PICK i \in 1..Len(stack) : f = stack[i]
      BY <2>2 DEF OnStack
    <3>2. i # 1
      BY <2>1, <2>2, <3>1
    <3>3. i - 1 \in 1..(Len(stack) - 1) /\ f = stack'[i - 1]
      BY <2>1, <3>1, <3>2
    <3> QED BY <2>1, <3>3 DEF OnStack
  <2> QED BY <1>2, <2>2
<1> QED BY <1>1, <1>2

(* The end of a call, by whichever of its ways.                            *)
LEMMA FinishKeepsHeard ==
  ASSUME CallsInv, HeardInv, NEW c \in Calls, Finish(c),
         \A d \in Calls \ {c} : outcome'[d] = outcome[d],
         \/ stack' = stack
         \/ stack # <<>> /\ stack' = Tail(stack) /\ Head(stack)[1] = c
  PROVE  HeardInv'
<1>1. TypeOK
  BY DEF CallsInv
<1>2. phase'[c] = "done"
  BY <1>1 DEF Finish, TypeOK
<1>3. ASSUME NEW d \in Calls \ {c} PROVE Heard(d)'
  <2>1. FramesKept(d)
    <3>1. stack \in Seq(Frames)
      BY <1>1 DEF TypeOK
    <3> QED BY <1>3, <3>1, OthersFrames DEF FramesKept
  <2>2. /\ phase'[d] = phase[d] /\ outcome'[d] = outcome[d]
        /\ reason'[d] = reason[d] /\ pending'[d] = pending[d]
        /\ request'[d] = request[d]
    BY <1>1, <1>3 DEF Finish, TypeOK
  <2>3. /\ d \in aborted' <=> d \in aborted
        /\ d \in listening' <=> d \in listening
        /\ d \in timers' <=> d \in timers
    BY <1>3 DEF Finish, Cleanup
  <2>4. Heard(d)
    BY DEF HeardInv
  <2> QED BY <2>1, <2>2, <2>3, <2>4, OthersHeard
<1> QED BY <1>2, <1>3, EndedHeard DEF HeardInv

(* A step of one call that keeps the frames of all others.                 *)
LEMMA OneHeard ==
  ASSUME HeardInv, NEW c \in Calls, Heard(c)',
         \A d \in Calls \ {c} :
           /\ FramesKept(d)
           /\ phase'[d] = phase[d] /\ outcome'[d] = outcome[d]
           /\ reason'[d] = reason[d] /\ pending'[d] = pending[d]
           /\ request'[d] = request[d]
           /\ d \in aborted' <=> d \in aborted
           /\ d \in listening' <=> d \in listening
           /\ d \in timers' <=> d \in timers
  PROVE  HeardInv'
<1>1. ASSUME NEW d \in Calls \ {c} PROVE Heard(d)'
  <2>1. Heard(d)
    BY DEF HeardInv
  <2> QED BY <1>1, <2>1, OthersHeard
<1> QED BY <1>1 DEF HeardInv

LEMMA SameFrames ==
  ASSUME stack' = stack, NEW c
  PROVE  FramesKept(c)
BY DEF FramesKept

(* Admission: the call's frame is the innermost, and nothing has happened  *)
(* to the call.                                                            *)
LEMMA RunIsHeard ==
  ASSUME CallsInv, HeardInv, NEW c \in Calls, NEW o \in Owners,
         NEW d \in Deadlines, NEW sig \in BOOLEAN, NEW t \in Times,
         Run(c, o, d, sig, t)
  PROVE  HeardInv'
<1>1. TypeOK /\ Heard(c) /\ stack \in Seq(Frames) /\ <<c, "setup">> \in Frames
  BY DEF CallsInv, HeardInv, TypeOK, Frames
<1>2. OnStack(stack') = {<<c, "setup">>} \cup OnStack(stack)
  BY <1>1, PushFrame DEF Run
<1>3. /\ phase[c] = "idle" /\ phase'[c] = FirstPhase(d, sig)
      /\ request'[c].signal = sig /\ request'[c].deadline = d
      /\ UNCHANGED <<pending, reason, outcome, aborted, listening, timers>>
  BY <1>1 DEF Run, TypeOK
<1>4. c \notin aborted /\ reason[c] = "none"
  BY <1>1, <1>3 DEF Heard, SetupIsHeard
<1>5. SetupIsHeard(c)'
  BY <1>2, <1>3, <1>4 DEF SetupIsHeard, FirstPhase, Initializing
<1>6. WaitIsHeard(c)'
  BY <1>3, <1>4 DEF WaitIsHeard, FirstPhase
<1>7. ASSUME NEW x \in Calls \ {c}
      PROVE  /\ FramesKept(x) /\ phase'[x] = phase[x]
             /\ request'[x] = request[x]
  BY <1>1, <1>2, <1>7 DEF Run, TypeOK, FramesKept
<1> QED BY <1>3, <1>5, <1>6, <1>7, OneHeard DEF Heard

(* The listener is attached, and the signal read again.                    *)
LEMMA AttachIsHeard ==
  ASSUME CallsInv, HeardInv, NEW c \in Calls, AttachListener(c)
  PROVE  HeardInv'
<1>1. TypeOK /\ Heard(c)
  BY DEF CallsInv, HeardInv
<1>2. /\ phase[c] = "attach"
      /\ phase'[c] = IF request[c].deadline # Unset THEN "arm" ELSE "begin"
      /\ listening' = listening \cup {c}
      /\ UNCHANGED <<request, reason, outcome, aborted, timers, stack>>
      /\ pending'[c] = IF c \in aborted THEN Noted(c, "CALLER_ABORTED")
                       ELSE pending[c]
  BY <1>1 DEF AttachListener, InSetup, TypeOK, HeardAlready
<1>3. c \in aborted => pending'[c] # "none"
  BY <1>2 DEF Noted
<1>4. pending[c] # "none" => pending'[c] # "none"
  BY <1>2 DEF Noted
<1>5. SetupIsHeard(c)'
  BY <1>1, <1>2, <1>3, <1>4 DEF Heard, SetupIsHeard, Initializing
<1>6. WaitIsHeard(c)'
  BY <1>2 DEF WaitIsHeard
<1>7. ASSUME NEW x \in Calls \ {c}
      PROVE  phase'[x] = phase[x] /\ pending'[x] = pending[x]
  BY <1>1, <1>7 DEF AttachListener, TypeOK
<1> QED BY <1>2, <1>5, <1>6, <1>7, OneHeard, SameFrames DEF Heard

(* The timer is armed, or the deadline is over and noted.                  *)
LEMMA ArmIsHeard ==
  ASSUME CallsInv, HeardInv, NEW c \in Calls, NEW t \in Times, ArmTimer(c, t)
  PROVE  HeardInv'
<1>1. TypeOK /\ Heard(c)
  BY DEF CallsInv, HeardInv
<1>2. /\ phase[c] = "arm" /\ phase'[c] = "begin"
      /\ UNCHANGED <<request, reason, outcome, aborted, listening, stack>>
      /\ \/ /\ pending'[c] = Noted(c, "DEADLINE_EXCEEDED")
            /\ UNCHANGED timers
         \/ timers' = timers \cup {c} /\ UNCHANGED pending
  BY <1>1 DEF ArmTimer, InSetup, TypeOK
<1>3. /\ pending[c] # "none" => pending'[c] # "none"
      /\ pending'[c] # "none" \/ c \in timers'
  BY <1>2 DEF Noted
<1>4. SetupIsHeard(c)'
  BY <1>1, <1>2, <1>3 DEF Heard, SetupIsHeard, Initializing
<1>5. WaitIsHeard(c)'
  BY <1>2 DEF WaitIsHeard
<1>6. ASSUME NEW x \in Calls \ {c}
      PROVE  /\ phase'[x] = phase[x] /\ pending'[x] = pending[x]
             /\ x \in timers' <=> x \in timers
  BY <1>1, <1>6 DEF ArmTimer, TypeOK
<1> QED BY <1>2, <1>4, <1>5, <1>6, OneHeard, SameFrames DEF Heard

(* The effect starts with nothing noted.                                   *)
LEMMA BeginIsHeard ==
  ASSUME CallsInv, HeardInv, NEW c \in Calls, Begin(c)
  PROVE  HeardInv'
<1>1. TypeOK /\ Heard(c)
  BY DEF CallsInv, HeardInv
<1>2. /\ phase[c] = "begin" /\ phase'[c] = "running" /\ pending[c] = "none"
      /\ UNCHANGED <<request, pending, reason, outcome, aborted, listening,
                     timers, stack>>
  BY <1>1 DEF Begin, InSetup, TypeOK
<1>3. SetupIsHeard(c)' /\ WaitIsHeard(c)'
  BY <1>1, <1>2 DEF Heard, SetupIsHeard, WaitIsHeard, Initializing
<1>4. ASSUME NEW x \in Calls \ {c} PROVE phase'[x] = phase[x]
  BY <1>1, <1>4 DEF Begin, TypeOK
<1> QED BY <1>2, <1>3, <1>4, OneHeard, SameFrames DEF Heard

(* The method returns: the frame that goes cancels nothing.                *)
LEMMA ReturnIsHeard ==
  ASSUME CallsInv, HeardInv, NEW c \in Calls, MethodReturns(c)
  PROVE  HeardInv'
<1>1. TypeOK /\ Heard(c) /\ stack \in Seq(Frames)
  BY DEF CallsInv, HeardInv, TypeOK
<1>2. /\ phase[c] = "running" /\ Head(stack) = <<c, "setup">>
      /\ stack # <<>> /\ stack' = Tail(stack)
      /\ UNCHANGED <<phase, request, pending, reason, outcome, aborted,
                     listening, timers>>
  BY DEF MethodReturns, InSetup, callVars
<1>3. \A f \in OnStack(stack) : f \in OnStack(stack') \/ f = <<c, "setup">>
  BY <1>1, <1>2, OthersFrames
<1>4. \A code \in AbandonCodes :
        <<c, code>> \in OnStack(stack) => <<c, code>> \in OnStack(stack')
  BY <1>3 DEF AbandonCodes
<1>5. SetupIsHeard(c)' /\ WaitIsHeard(c)'
  BY <1>1, <1>2, <1>4 DEF Heard, SetupIsHeard, WaitIsHeard, Initializing
<1>6. ASSUME NEW x \in Calls \ {c} PROVE FramesKept(x)
  BY <1>3, <1>6 DEF FramesKept
<1> QED BY <1>2, <1>5, <1>6, OneHeard DEF Heard

(* The subscribers of a cancellation return: now the caller is told.       *)
LEMMA SubscribersAreHeard ==
  ASSUME CallsInv, HeardInv, NEW c \in Calls, NEW code \in AbandonCodes,
         SubscribersReturn(c, code)
  PROVE  HeardInv'
<1>1. TypeOK /\ Heard(c) /\ stack \in Seq(Frames)
  BY DEF CallsInv, HeardInv, TypeOK
<1>2. /\ stack # <<>> /\ Head(stack) = <<c, code>> /\ stack' = Tail(stack)
      /\ UNCHANGED <<phase, request, pending, reason, aborted>>
  BY DEF SubscribersReturn, SettleAbandoned
<1>3. \A f \in OnStack(stack) : f \in OnStack(stack') \/ f = <<c, code>>
  BY <1>1, <1>2, OthersFrames
<1>4. phase[c] \in {"running", "done"}
  <2>1. <<c, code>> \in OnStack(stack) /\ code # "setup"
    BY <1>1, ReturningFrame
  <2> QED BY <2>1 DEF CallsInv, FramesStarted
<1>5. outcome'[c] # "unsettled"
  BY <1>1 DEF SubscribersReturn, SettleAbandoned, AbandonCodes, TypeOK
<1>6. SetupIsHeard(c)' /\ WaitIsHeard(c)'
  BY <1>2, <1>4, <1>5 DEF SetupIsHeard, WaitIsHeard, Initializing
<1>7. ASSUME NEW x \in Calls \ {c}
      PROVE  /\ FramesKept(x) /\ outcome'[x] = outcome[x]
             /\ x \in listening' <=> x \in listening
             /\ x \in timers' <=> x \in timers
  <2>1. FramesKept(x)
    BY <1>3, <1>7 DEF FramesKept
  <2>2. CASE outcome[c] = "unsettled"
    BY <1>1, <1>7, <2>1, <2>2
    DEF SubscribersReturn, SettleAbandoned, Cleanup, TypeOK
  <2>3. CASE outcome[c] # "unsettled"
    BY <2>1, <2>3 DEF SubscribersReturn
  <2> QED BY <2>2, <2>3
<1> QED BY <1>2, <1>6, <1>7, OneHeard DEF Heard

(* A deadline or an abort that is heard is noted, published to a frame of  *)
(* its own, or answered.                                                   *)
LEMMA AbandonIsHeard ==
  ASSUME CallsInv, HeardInv, NEW c \in Calls, NEW code \in AbandonCodes,
         Abandon(c, code), UNCHANGED <<phase, request>>,
         timers' \ {c} = timers \ {c}, aborted' \ {c} = aborted \ {c}
  PROVE  HeardInv'
<1>1. TypeOK /\ Heard(c) /\ stack \in Seq(Frames) /\ Reserved(c)
  BY DEF CallsInv, HeardInv, TypeOK, Abandon, Abandonable
<1>2. \A x \in Calls \ {c} : /\ x \in timers' <=> x \in timers
                             /\ x \in aborted' <=> x \in aborted
  OBVIOUS
<1>3. CASE NoteAbandoned(c, code) /\ UNCHANGED listening
  <2>1. /\ phase[c] \in Initializing /\ pending'[c] # "none"
        /\ UNCHANGED <<outcome, stack>>
    BY <1>1, <1>3 DEF NoteAbandoned, Noted, TypeOK, AbandonCodes
  <2>2. SetupIsHeard(c)' /\ WaitIsHeard(c)'
    BY <1>1, <1>3, <2>1
    DEF Heard, SetupIsHeard, WaitIsHeard, Initializing
  <2>3. ASSUME NEW x \in Calls \ {c}
        PROVE  pending'[x] = pending[x] /\ reason'[x] = reason[x]
    BY <1>1, <1>3, <2>3 DEF NoteAbandoned, TypeOK
  <2> QED BY <1>2, <1>3, <2>1, <2>2, <2>3, OneHeard, SameFrames DEF Heard
<1>4. CASE PublishCancellation(c, code) /\ UNCHANGED listening
  <2>1. <<c, code>> \in Frames
    BY DEF Frames
  <2>2. /\ OnStack(stack') = {<<c, code>>} \cup OnStack(stack)
        /\ phase[c] = "running" /\ UNCHANGED <<pending, outcome>>
    BY <1>1, <1>4, <2>1, PushFrame DEF PublishCancellation
  <2>3. SetupIsHeard(c)' /\ WaitIsHeard(c)'
    BY <2>2 DEF SetupIsHeard, WaitIsHeard, Initializing
  <2>4. ASSUME NEW x \in Calls \ {c}
        PROVE  reason'[x] = reason[x] /\ FramesKept(x)
    BY <1>1, <1>4, <2>2, <2>4 DEF PublishCancellation, TypeOK, FramesKept
  <2> QED BY <1>2, <1>4, <2>2, <2>3, <2>4, OneHeard DEF Heard
<1>5. CASE /\ phase[c] = "running" /\ SettleAbandoned(c, code)
           /\ listening' = listening \ {c} /\ UNCHANGED stack
  <2>1. outcome'[c] # "unsettled" /\ UNCHANGED <<pending, reason>>
    BY <1>1, <1>5 DEF SettleAbandoned, TypeOK, AbandonCodes
  <2>2. SetupIsHeard(c)' /\ WaitIsHeard(c)'
    BY <1>5, <2>1 DEF SetupIsHeard, WaitIsHeard, Initializing
  <2>3. ASSUME NEW x \in Calls \ {c}
        PROVE  /\ outcome'[x] = outcome[x]
               /\ x \in listening' <=> x \in listening
    BY <1>1, <1>5, <2>3 DEF SettleAbandoned, TypeOK
  <2> QED BY <1>2, <1>5, <2>1, <2>2, <2>3, OneHeard, SameFrames DEF Heard
<1> QED BY <1>3, <1>4, <1>5 DEF Abandon

(* An abort that is not heard comes before the signal is read again.       *)
LEMMA AbortIsHeard ==
  ASSUME CallsInv, HeardInv, NEW c \in Calls, AbortSignal(c)
  PROVE  HeardInv'
<1>1. TypeOK /\ Heard(c)
  BY DEF CallsInv, HeardInv
<1>2. CASE c \in listening
  <2>1. /\ Abandon(c, "CALLER_ABORTED") /\ aborted' = aborted \cup {c}
        /\ timers' = timers \/ timers' = timers \ {c}
        /\ UNCHANGED <<phase, request>>
    BY <1>2 DEF AbortSignal
  <2>2. /\ timers' \ {c} = timers \ {c} /\ aborted' \ {c} = aborted \ {c}
        /\ "CALLER_ABORTED" \in AbandonCodes
    BY <2>1 DEF AbandonCodes
  <2> QED BY <2>1, <2>2, AbandonIsHeard
<1>3. CASE c \notin listening
  <2>1. /\ request[c].signal /\ Reserved(c) /\ aborted' = aborted \cup {c}
        /\ UNCHANGED <<phase, request, pending, reason, outcome, timers,
                       listening, stack>>
    BY <1>3 DEF AbortSignal
  <2>2. phase[c] # "idle" /\ phase[c] \notin {"arm", "begin"}
    BY <1>1, <1>3, <2>1 DEF Heard, SetupIsHeard, Reserved, ReservedPhases,
       Initializing
  <2>3. SetupIsHeard(c)'
    BY <1>1, <2>1, <2>2 DEF Heard, SetupIsHeard, Initializing
  <2>4. WaitIsHeard(c)'
    BY <1>1, <1>3, <2>1 DEF Heard, WaitIsHeard
  <2>5. \A x \in Calls \ {c} : x \in aborted' <=> x \in aborted
    BY <2>1
  <2> QED BY <2>1, <2>3, <2>4, <2>5, OneHeard, SameFrames DEF Heard
<1> QED BY <1>2, <1>3

LEMMA NextHeard == CallsInv /\ HeardInv /\ [Next]_vars => HeardInv'
<1> SUFFICES ASSUME CallsInv, HeardInv, [Next]_vars PROVE HeardInv'
  OBVIOUS
<1>0. TypeOK
  BY DEF CallsInv
<1>1. ASSUME UNCHANGED <<callVars, stack>> PROVE HeardInv'
  <2>1. \A c \in Calls : Heard(c)
    BY DEF HeardInv
  <2> QED BY <1>1, <2>1, OthersHeard, SameFrames DEF HeardInv, callVars
<1>2. ASSUME NEW c \in Calls, Refuse(c) PROVE HeardInv'
  <2>1. phase'[c] = "done"
    BY <1>0, <1>2 DEF Refuse, TypeOK
  <2>2. ASSUME NEW x \in Calls \ {c}
        PROVE  phase'[x] = phase[x] /\ outcome'[x] = outcome[x]
    BY <1>0, <1>2, <2>2 DEF Refuse, TypeOK
  <2>3. UNCHANGED <<request, pending, reason, aborted, listening, timers,
                    stack>>
    BY <1>2 DEF Refuse
  <2> QED BY <2>1, <2>2, <2>3, EndedHeard, OneHeard, SameFrames
<1>3. ASSUME NEW c \in Calls, RunCalls(c) PROVE HeardInv'
  BY <1>2, <1>3, RunIsHeard
  DEF RunCalls, RunRefusedEarly, RunRefusedLate, RunNotAdmitted
<1>4. ASSUME NEW c \in Calls, BeforeStart(c), stack # <<>>,
             Head(stack) = <<c, "setup">>
      PROVE  HeardInv'
  <2>1. /\ Finish(c) /\ stack' = Tail(stack) /\ Head(stack)[1] = c
        /\ \A d \in Calls \ {c} : outcome'[d] = outcome[d]
    BY <1>0, <1>4 DEF BeforeStart, TypeOK
  <2> QED BY <1>4, <2>1, FinishKeepsHeard
<1>5. ASSUME NEW c \in Calls, SettleEffect(c),
             \/ UNCHANGED stack
             \/ /\ stack # <<>> /\ stack' = Tail(stack)
                /\ Head(stack) = <<c, "setup">>
      PROVE  HeardInv'
  <2>1. /\ Finish(c)
        /\ stack # <<>> /\ Head(stack) = <<c, "setup">> => Head(stack)[1] = c
        /\ \A d \in Calls \ {c} : outcome'[d] = outcome[d]
    BY <1>0, <1>5 DEF SettleEffect, TypeOK
  <2> QED BY <1>5, <2>1, FinishKeepsHeard
<1>6. ASSUME NEW c \in Calls, Continue(c) PROVE HeardInv'
  <2>1. CASE AttachFails(c) \/ (\E t \in Times : ArmFails(c, t))
               \/ BeginRefused(c)
    BY <1>4, <2>1 DEF AttachFails, ArmFails, BeginRefused, InSetup
  <2>2. CASE MethodThrows(c)
    BY <1>5, <2>2 DEF MethodThrows, InSetup
  <2> QED BY <1>6, <2>1, <2>2, AttachIsHeard, ArmIsHeard, BeginIsHeard,
             ReturnIsHeard, SubscribersAreHeard DEF Continue
<1>7. ASSUME NEW c \in Calls, DeadlineTimer(c) PROVE HeardInv'
  <2>1. /\ Abandon(c, "DEADLINE_EXCEEDED") /\ UNCHANGED <<phase, request>>
        /\ timers' \ {c} = timers \ {c} /\ aborted' = aborted
        /\ "DEADLINE_EXCEEDED" \in AbandonCodes
    BY <1>7 DEF DeadlineTimer, AbandonCodes
  <2> QED BY <2>1, AbandonIsHeard
<1>8. ASSUME NEW c \in Calls, EffectSettles(c) PROVE HeardInv'
  BY <1>5, <1>8 DEF EffectSettles
<1>9. ASSUME NEW o \in Owners, RecoverOwner(o) PROVE HeardInv'
  BY <1>1, <1>9 DEF RecoverOwner
<1>10. ASSUME NEW w \in Observers, NEW o \in Owners, WhenOwnerIdle(w, o)
       PROVE  HeardInv'
  BY <1>1, <1>10 DEF WhenOwnerIdle
<1>11. CASE UNCHANGED vars
  BY <1>1, <1>11 DEF vars
<1> QED
  BY <1>3, <1>6, <1>7, <1>8, <1>9, <1>10, <1>11, AbortIsHeard DEF Next

LEMMA HeardIsDue == TypeOK /\ HeardInv => AnswerIsDue
<1> SUFFICES ASSUME TypeOK, HeardInv, NEW c \in Calls, Reserved(c),
                    outcome[c] = "unsettled"
             PROVE  \/ Called(c)
                    \/ /\ c \notin aborted
                       /\ request[c].deadline # Unset => c \in timers
  BY DEF AnswerIsDue
<1>1. SetupIsHeard(c) /\ WaitIsHeard(c) /\ stack \in Seq(Frames)
  BY DEF HeardInv, Heard, TypeOK
<1>2. ASSUME NEW x, <<c, x>> \in OnStack(stack) PROVE Called(c)
  <2>1. PICK i \in 1..Len(stack) : <<c, x>> = stack[i]
    BY <1>2 DEF OnStack
  <2>2. i \in DOMAIN stack /\ stack[i][1] = c
    BY <1>1, <2>1
  <2> QED BY <2>2 DEF Called
<1>3. CASE phase[c] \in Initializing
  BY <1>1, <1>2, <1>3 DEF SetupIsHeard
<1>4. CASE phase[c] = "running"
  BY <1>1, <1>2, <1>4 DEF WaitIsHeard
<1> QED BY <1>3, <1>4 DEF Reserved, ReservedPhases

(* Nobody waits for an effect alone: whoever gave a deadline has a timer   *)
(* or a callee of the supervisor under way that leads to the answer, and   *)
(* so has whoever aborted, in whatever order setup, timer, abort and       *)
(* re-entrant calls come (abandon(), pendingAbandonment).                  *)
THEOREM AnswersAreDue == Spec => []AnswerIsDue
<1>1. Init => HeardInv
  BY DEF Init, HeardInv, Heard, SetupIsHeard, WaitIsHeard, Initializing
<1>2. CallsInv /\ HeardInv /\ [Next]_vars => HeardInv'
  BY NextHeard
<1>3. CallsInv /\ HeardInv => AnswerIsDue
  BY HeardIsDue DEF CallsInv
<1> QED BY <1>1, <1>2, <1>3, CallsInvariant, PTL DEF Spec
=============================================================================
