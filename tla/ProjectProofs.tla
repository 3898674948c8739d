---------------------------- MODULE ProjectProofs ---------------------------
(***************************************************************************)
(* Proofs about the projects the desktop works on.  First what it previews *)
(* of them, for any callers, builds and capabilities: BuildsInv,           *)
(* StoriesInv, NewestInv and LeasesInv.  Then the designer service's       *)
(* project, for any requests, numbers of revisions and lengths of its      *)
(* queue: DesignerInv.  Then the local projects' files, for any projects,  *)
(* calls and bounds: LocalInv says which calls hold a lock and that what a *)
(* writing call is about to store still fits the file.  Then the agent     *)
(* host, for any requests and timers: AgentInv and DueInv.  Last the parts *)
(* of the desktop side by side.                                            *)
(***************************************************************************)
EXTENDS DesktopMC, TLAPS

-----------------------------------------------------------------------------
(* Shared builds.                                                          *)
BuildCalls ==
  [phase : {"idle", "waiting"} \cup PreviewBuild!Outcomes,
   key : BuildKeys \cup {Nobody}, flight : Callers \cup {Nobody}]
Flights ==
  [key : BuildKeys \cup {Nobody}, result : PreviewBuild!Results \cup {"none"},
   waiters : SUBSET Callers, abort : PreviewBuild!Aborts]

BuildsTyped ==
  /\ buildCall \in [Callers -> BuildCalls]
  /\ flight \in [Callers -> Flights]
  /\ inFlight \in [BuildKeys -> Callers \cup {Nobody}]

(* A caller that waits is one of the waiters of its flight.                *)
WaitersCounted ==
  \A c \in Callers : buildCall[c].phase = "waiting" =>
    /\ buildCall[c].flight \in Callers
    /\ c \in flight[buildCall[c].flight].waiters

(* A flight its last caller left is settled and has no waiter; one that    *)
(* nobody has started yet has not been answered.                           *)
FlightsSound ==
  \A f \in Callers :
    /\ flight[f].abort = "unwanted" =>
         flight[f].waiters = {} /\ flight[f].result # "none"
    /\ buildCall[f].phase = "idle" =>
         /\ flight[f].abort # "unwanted"
         /\ flight[f].result = "none" /\ flight[f].key = Nobody
         /\ flight[f].waiters = {}

(* A flight new callers join was started and still runs.                   *)
ListedRuns ==
  \A k \in BuildKeys : inFlight[k] # Nobody =>
    /\ flight[inFlight[k]].result = "none"
    /\ buildCall[inFlight[k]].phase # "idle"

BuildsInv == BuildsTyped /\ WaitersCounted /\ FlightsSound /\ ListedRuns

LEMMA BuildsBegin == PreviewBuild!Init => BuildsInv
BY DEF PreviewBuild!Init, PreviewBuild!NoFlight, PreviewBuild!Aborts,
       BuildsInv, BuildsTyped, BuildCalls, Flights, WaitersCounted,
       FlightsSound, ListedRuns

(* Changing a flight's fields.                                             *)
IsFlight(x, k, r, W, a) ==
  x \in Flights /\ x.key = k /\ x.result = r /\ x.waiters = W /\ x.abort = a
Joined(s, k, W) == [s EXCEPT !.key = k, !.waiters = W]
Resolved(s, a, r) == [s EXCEPT !.abort = a, !.result = r]
Answered(s, r) == [s EXCEPT !.result = r]
LeftTo(s, W) == [s EXCEPT !.waiters = W]

LEMMA FlightJoined ==
  ASSUME NEW s \in Flights, NEW W \in SUBSET Callers, NEW k \in BuildKeys
  PROVE  IsFlight(Joined(s, k, W), k, s.result, W, s.abort)
<1> USE DEF Flights
<1> DEFINE t == [s EXCEPT !.key = k]
<1>1. t = [key |-> k, result |-> s.result, waiters |-> s.waiters,
           abort |-> s.abort]
  OBVIOUS
<1>2. Joined(s, k, W) = [t EXCEPT !.waiters = W]
  BY DEF Joined
<1> HIDE DEF t
<1>3. Joined(s, k, W) = [key |-> k, result |-> s.result, waiters |-> W,
                         abort |-> s.abort]
  BY <1>1, <1>2
<1> QED BY <1>3 DEF IsFlight

LEMMA FlightEnded ==
  ASSUME NEW s \in Flights, NEW r \in PreviewBuild!Results \cup {"none"},
         NEW a \in PreviewBuild!Aborts
  PROVE  IsFlight(Resolved(s, a, r), s.key, r, s.waiters, a)
<1> USE DEF Flights
<1> DEFINE t == [s EXCEPT !.abort = a]
<1>1. t = [key |-> s.key, result |-> s.result, waiters |-> s.waiters,
           abort |-> a]
  OBVIOUS
<1>2. Resolved(s, a, r) = [t EXCEPT !.result = r]
  BY DEF Resolved
<1> HIDE DEF t
<1>3. Resolved(s, a, r) = [key |-> s.key, result |-> r, waiters |-> s.waiters,
                        abort |-> a]
  BY <1>1, <1>2
<1> QED BY <1>3 DEF IsFlight

LEMMA FlightAnswered ==
  ASSUME NEW s \in Flights, NEW r \in PreviewBuild!Results
  PROVE  IsFlight(Answered(s, r), s.key, r, s.waiters, s.abort)
BY DEF Flights, Answered, IsFlight

LEMMA FlightLeft ==
  ASSUME NEW s \in Flights, NEW W \in SUBSET Callers
  PROVE  IsFlight(LeftTo(s, W), s.key, s.result, W, s.abort)
BY DEF Flights, LeftTo, IsFlight

(* A caller returns: it waits no longer, and has not gone back to idle.     *)
LEMMA CallReturns ==
  ASSUME BuildsTyped, NEW c \in Callers, NEW o \in PreviewBuild!Outcomes,
         PreviewBuild!Return(c, o)
  PROVE  /\ buildCall' \in [Callers -> BuildCalls]
         /\ buildCall'[c].phase \notin {"idle", "waiting"}
         /\ \A d \in Callers \ {c} : buildCall'[d] = buildCall[d]
<1> DEFINE x == [phase |-> o, key |-> Nobody, flight |-> Nobody]
<1>1. x \in BuildCalls /\ x.phase \notin {"idle", "waiting"}
  BY DEF BuildCalls, PreviewBuild!Outcomes
<1>2. buildCall' = [buildCall EXCEPT ![c] = x]
  BY DEF PreviewBuild!Return
<1> HIDE DEF x
<1> QED BY <1>1, <1>2 DEF BuildsTyped

(* Flights settle and are forgotten together.                              *)
LEMMA Forgetting ==
  ASSUME BuildsInv, NEW f \in Callers, inFlight' = PreviewBuild!Forgotten(f)
  PROVE  /\ inFlight' \in [BuildKeys -> Callers \cup {Nobody}]
         /\ \A k \in BuildKeys : inFlight'[k] # Nobody =>
              inFlight'[k] = inFlight[k] /\ inFlight[k] # f
BY DEF BuildsInv, BuildsTyped, PreviewBuild!Forgotten

LEMMA BuildsStep == BuildsInv /\ [PreviewBuild!Next]_buildVars => BuildsInv'
<1> SUFFICES ASSUME BuildsInv, [PreviewBuild!Next]_buildVars
             PROVE  BuildsInv'
  OBVIOUS
<1>0. /\ buildCall \in [Callers -> BuildCalls]
      /\ flight \in [Callers -> Flights]
      /\ inFlight \in [BuildKeys -> Callers \cup {Nobody}]
      /\ BuildsTyped
  BY DEF BuildsInv, BuildsTyped
<1>1. ASSUME NEW c \in Callers, NEW o \in PreviewBuild!Outcomes,
             PreviewBuild!Return(c, o), UNCHANGED <<flight, inFlight>>
      PROVE  BuildsInv'
  <2>1. /\ buildCall' \in [Callers -> BuildCalls]
        /\ buildCall'[c].phase \notin {"idle", "waiting"}
        /\ \A d \in Callers \ {c} : buildCall'[d] = buildCall[d]
    BY <1>0, <1>1, CallReturns
  <2> QED
    BY <1>1, <2>1
    DEF BuildsInv, BuildsTyped, WaitersCounted, FlightsSound, ListedRuns
<1>2. ASSUME NEW c \in Callers, NEW k \in BuildKeys, PreviewBuild!Build(c, k)
      PROVE  BuildsInv'
  <2> DEFINE f == IF inFlight[k] # Nobody THEN inFlight[k] ELSE c
             x == [phase |-> "waiting", key |-> k, flight |-> f]
             y == [flight[f] EXCEPT !.key = k, !.waiters = @ \cup {c}]
  <2>1. {"aborted", "stale", "artifact"} \subseteq PreviewBuild!Outcomes
    BY DEF PreviewBuild!Outcomes
  <2>2. CASE c \in withdrawn
    BY <1>1, <1>2, <2>1, <2>2 DEF PreviewBuild!Build
  <2>3. CASE c \notin withdrawn /\ c \in stale
    BY <1>1, <1>2, <2>1, <2>3 DEF PreviewBuild!Build
  <2>4. CASE /\ ~(c \in withdrawn \/ c \in stale)
             /\ k \in PreviewBuild!ToSet(retained)
    BY <1>1, <1>2, <2>1, <2>4 DEF PreviewBuild!Build
  <2>5. CASE /\ ~(c \in withdrawn \/ c \in stale)
             /\ ~(k \in PreviewBuild!ToSet(retained))
    <3>1. /\ buildCall' = [buildCall EXCEPT ![c] = x]
          /\ flight' = [flight EXCEPT ![f] = y]
          /\ inFlight' = [inFlight EXCEPT ![k] = f]
          /\ buildCall[c].phase = "idle"
      BY <1>2, <2>5 DEF PreviewBuild!Build
    <3>2. /\ f \in Callers /\ flight[f].result = "none"
          /\ flight[f].abort # "unwanted"
      <4>1. CASE inFlight[k] # Nobody
        BY <1>0, <4>1 DEF BuildsInv, FlightsSound, ListedRuns
      <4>2. CASE inFlight[k] = Nobody
        BY <3>1, <4>2 DEF BuildsInv, FlightsSound
      <4> QED BY <4>1, <4>2
    <3>3. x \in BuildCalls /\ x.phase = "waiting" /\ x.flight = f
      BY <3>2 DEF BuildCalls
    <3> HIDE DEF x, f
    <3>4. /\ y \in Flights /\ y.result = "none" /\ y.abort # "unwanted"
          /\ y.waiters = flight[f].waiters \cup {c}
      <4>1. /\ flight[f] \in Flights
            /\ flight[f].waiters \cup {c} \in SUBSET Callers
        BY <1>0, <3>2 DEF Flights
      <4>2. y = Joined(flight[f], k, flight[f].waiters \cup {c})
        BY DEF Joined
      <4> HIDE DEF y
      <4> QED BY <3>2, <4>1, <4>2, FlightJoined DEF IsFlight
    <3> HIDE DEF y
    <3>5. BuildsTyped'
      BY <1>0, <3>1, <3>2, <3>3, <3>4 DEF BuildsTyped
    <3>6. ASSUME NEW d \in Callers, buildCall'[d].phase = "waiting"
          PROVE  /\ buildCall'[d].flight \in Callers
                 /\ d \in flight'[buildCall'[d].flight].waiters
      <4>1. CASE d = c
        BY <1>0, <3>1, <3>2, <3>3, <3>4, <4>1
      <4>2. CASE d # c
        <5>1. /\ buildCall'[d] = buildCall[d]
              /\ buildCall[d].flight \in Callers
              /\ d \in flight[buildCall[d].flight].waiters
          BY <1>0, <3>1, <3>6, <4>2 DEF BuildsInv, WaitersCounted
        <5> QED BY <1>0, <3>1, <3>4, <5>1
      <4> QED BY <4>1, <4>2
    <3>7. \A d \in Callers : buildCall'[d].phase = "idle" =>
            buildCall[d].phase = "idle" /\ d # c
      BY <1>0, <3>1, <3>3
    <3>8. f = c \/ buildCall[f].phase # "idle"
      BY DEF f, BuildsInv, ListedRuns
    <3>9. FlightsSound'
      <4>1. \A g \in Callers : flight'[g] = flight[g] \/ g = f
        BY <1>0, <3>1
      <4>2. flight'[f] = y
        BY <1>0, <3>1, <3>2
      <4> QED BY <3>4, <3>7, <3>8, <4>1, <4>2 DEF BuildsInv, FlightsSound
    <3>10. ListedRuns'
      <4>1. ASSUME NEW j \in BuildKeys, inFlight'[j] # Nobody
            PROVE  /\ flight'[inFlight'[j]].result = "none"
                   /\ buildCall'[inFlight'[j]].phase # "idle"
        <5>1. /\ inFlight'[j] \in Callers
              /\ flight[inFlight'[j]].result = "none"
              /\ inFlight'[j] = f \/ buildCall[inFlight'[j]].phase # "idle"
          BY <1>0, <3>1, <3>2, <4>1 DEF BuildsInv, ListedRuns
        <5> QED BY <1>0, <3>1, <3>4, <3>7, <3>8, <5>1
      <4> QED BY <4>1 DEF ListedRuns
    <3> QED BY <3>5, <3>6, <3>9, <3>10 DEF BuildsInv, WaitersCounted
  <2> QED BY <2>2, <2>3, <2>4, <2>5
<1>3. ASSUME NEW f \in Callers, NEW y \in Flights,
             flight' = [flight EXCEPT ![f] = y], flight[f].key # Nobody,
             y.result # "none", y.abort # "unwanted",
             y.waiters = flight[f].waiters,
             inFlight' = PreviewBuild!Forgotten(f), UNCHANGED buildCall
      PROVE  BuildsInv'
  <2>1. /\ inFlight' \in [BuildKeys -> Callers \cup {Nobody}]
        /\ \A k \in BuildKeys : inFlight'[k] # Nobody =>
             inFlight'[k] = inFlight[k] /\ inFlight[k] # f
    BY <1>3, Forgetting
  <2>2. /\ flight' \in [Callers -> Flights] /\ flight'[f] = y
        /\ \A g \in Callers \ {f} : flight'[g] = flight[g]
    BY <1>0, <1>3
  <2>3. BuildsTyped'
    BY <1>0, <1>3, <2>1, <2>2 DEF BuildsTyped
  <2>4. WaitersCounted'
    BY <1>3, <2>2 DEF BuildsInv, WaitersCounted
  <2>5. FlightsSound'
    BY <1>3, <2>2 DEF BuildsInv, FlightsSound
  <2>6. ListedRuns'
    BY <1>0, <1>3, <2>1, <2>2 DEF BuildsInv, ListedRuns
  <2> QED BY <2>3, <2>4, <2>5, <2>6 DEF BuildsInv
<1>4. ASSUME NEW f \in Callers, NEW r \in PreviewBuild!Results,
             PreviewBuild!Answer(f, r)
      PROVE  BuildsInv'
  <2> DEFINE y == [flight[f] EXCEPT !.result = r]
  <2>1. /\ y \in Flights /\ y.result = r /\ y.abort = flight[f].abort
        /\ y.waiters = flight[f].waiters
    <3>1. y = Answered(flight[f], r)
      BY DEF Answered
    <3> HIDE DEF y
    <3> QED BY <1>0, <3>1, FlightAnswered DEF IsFlight
  <2>2. flight[f].abort # "unwanted"
    BY <1>4 DEF BuildsInv, FlightsSound, PreviewBuild!Answer,
       PreviewBuild!Settled
  <2>3. r # "none" /\ flight' = [flight EXCEPT ![f] = y]
    BY <1>4 DEF PreviewBuild!Answer
  <2> HIDE DEF y
  <2> QED BY <1>3, <1>4, <2>1, <2>2, <2>3 DEF PreviewBuild!Answer
<1>5. ASSUME NEW f \in Callers, PreviewBuild!Timeout(f) PROVE BuildsInv'
  <2> DEFINE y == [flight[f] EXCEPT !.abort = "timeout",
                                    !.result = "abandoned"]
  <2>1. /\ y \in Flights /\ y.result = "abandoned" /\ y.abort = "timeout"
        /\ y.waiters = flight[f].waiters
    <3>1. /\ "abandoned" \in PreviewBuild!Results
          /\ "timeout" \in PreviewBuild!Aborts
      BY DEF PreviewBuild!Results, PreviewBuild!Aborts
    <3>2. y = Resolved(flight[f], "timeout", "abandoned")
      BY DEF Resolved
    <3> HIDE DEF y
    <3> QED BY <1>0, <3>1, <3>2, FlightEnded DEF IsFlight
  <2>2. flight' = [flight EXCEPT ![f] = y]
    BY <1>5 DEF PreviewBuild!Timeout, PreviewBuild!Abandon
  <2> HIDE DEF y
  <2> QED BY <1>3, <1>5, <2>1, <2>2 DEF PreviewBuild!Timeout
<1>6. ASSUME NEW c \in Callers, PreviewBuild!Cancel(c) PROVE BuildsInv'
  <2> DEFINE f == buildCall[c].flight
             last == PreviewBuild!Unwanted(f, c)
             y == [flight[f] EXCEPT
                     !.waiters = @ \ {c},
                     !.abort = IF last THEN "unwanted" ELSE @,
                     !.result = IF last THEN "abandoned" ELSE @]
  <2>1. CASE buildCall[c].phase # "waiting"
    BY <1>6, <2>1 DEF PreviewBuild!Cancel, BuildsInv, BuildsTyped,
       WaitersCounted, FlightsSound, ListedRuns
  <2>2. CASE buildCall[c].phase = "waiting"
    <3>1. /\ PreviewBuild!Return(c, "aborted")
          /\ flight' = [flight EXCEPT ![f] = y]
          /\ inFlight' = IF last THEN PreviewBuild!Forgotten(f) ELSE inFlight
      BY <1>6, <2>2 DEF PreviewBuild!Cancel
    <3>2. f \in Callers /\ c \in flight[f].waiters
      BY <2>2 DEF BuildsInv, WaitersCounted
    <3>3. /\ buildCall' \in [Callers -> BuildCalls]
          /\ buildCall'[c].phase \notin {"idle", "waiting"}
          /\ \A d \in Callers \ {c} : buildCall'[d] = buildCall[d]
      BY <1>0, <3>1, CallReturns DEF PreviewBuild!Outcomes
    <3> HIDE DEF f
    <3>4. /\ y \in Flights /\ y.waiters = flight[f].waiters \ {c}
          /\ y.key = flight[f].key
          /\ ~last => y.abort = flight[f].abort /\ y.result = flight[f].result
          /\ last => y.abort = "unwanted" /\ y.result = "abandoned"
      <4> DEFINE W == flight[f].waiters \ {c}
                 a == IF last THEN "unwanted" ELSE flight[f].abort
                 r == IF last THEN "abandoned" ELSE flight[f].result
      <4>1. /\ flight[f] \in Flights /\ W \in SUBSET Callers
            /\ r \in PreviewBuild!Results \cup {"none"}
            /\ a \in PreviewBuild!Aborts
        BY <1>0, <3>2 DEF Flights, PreviewBuild!Results, PreviewBuild!Aborts
      <4>2. y = Resolved(LeftTo(flight[f], W), a, r)
        BY DEF Resolved, LeftTo
      <4>3. a = (IF last THEN "unwanted" ELSE flight[f].abort)
            /\ r = (IF last THEN "abandoned" ELSE flight[f].result)
        OBVIOUS
      <4> HIDE DEF y, a, r
      <4>4. IsFlight(y, flight[f].key, r, W, a)
        <5> DEFINE t == LeftTo(flight[f], W)
        <5>1. IsFlight(t, flight[f].key, flight[f].result, W, flight[f].abort)
          BY <4>1, FlightLeft
        <5>2. y = Resolved(t, a, r)
          BY <4>2
        <5> HIDE DEF t, W
        <5>3. IsFlight(y, t.key, r, t.waiters, a)
          BY <4>1, <5>1, <5>2, FlightEnded DEF IsFlight
        <5> QED BY <5>1, <5>3 DEF IsFlight
      <4> QED BY <4>1, <4>3, <4>4 DEF IsFlight
    <3> HIDE DEF y
    <3>5. last => flight[f].waiters = {c}
      BY DEF PreviewBuild!Unwanted
    <3> HIDE DEF last
    <3>6. /\ flight' \in [Callers -> Flights] /\ flight'[f] = y
          /\ \A g \in Callers \ {f} : flight'[g] = flight[g]
      BY <1>0, <3>1, <3>2, <3>4
    <3>7. /\ inFlight' \in [BuildKeys -> Callers \cup {Nobody}]
          /\ \A k \in BuildKeys : inFlight'[k] # Nobody =>
               inFlight'[k] = inFlight[k] /\ (last => inFlight[k] # f)
      BY <1>0, <3>1, <3>2, Forgetting
    <3>8. WaitersCounted'
      BY <3>3, <3>4, <3>6 DEF BuildsInv, WaitersCounted
    <3>9. FlightsSound'
      <4>1. \A g \in Callers : buildCall'[g].phase = "idle" =>
              /\ flight[g].abort # "unwanted" /\ flight[g].waiters = {}
              /\ flight[g].result = "none" /\ flight[g].key = Nobody
        BY <3>3 DEF BuildsInv, FlightsSound
      <4>2. flight[f].abort = "unwanted" =>
              flight[f].waiters = {} /\ flight[f].result # "none"
        BY <3>2 DEF BuildsInv, FlightsSound
      <4> QED
        BY <3>2, <3>4, <3>5, <3>6, <4>1, <4>2 DEF BuildsInv, FlightsSound
    <3>10. ListedRuns'
      BY <1>0, <3>3, <3>4, <3>6, <3>7 DEF BuildsInv, ListedRuns
    <3> QED BY <3>3, <3>6, <3>7, <3>8, <3>9, <3>10
            DEF BuildsInv, BuildsTyped
  <2> QED BY <2>1, <2>2
<1>7. ASSUME NEW c \in Callers, PreviewBuild!Resume(c) PROVE BuildsInv'
  <2> DEFINE f == buildCall[c].flight
             y == IF flight[f].waiters = {c} THEN PreviewBuild!NoFlight
                  ELSE [flight[f] EXCEPT !.waiters = @ \ {c}]
  <2>1. /\ f \in Callers /\ c \in flight[f].waiters
        /\ flight[f].result # "none"
        /\ flight' = [flight EXCEPT ![f] = y] /\ UNCHANGED inFlight
    BY <1>7
    DEF PreviewBuild!Resume, PreviewBuild!Settled, BuildsInv, WaitersCounted
  <2>2. \E o \in PreviewBuild!Outcomes : PreviewBuild!Return(c, o)
    <3>1. {"failed", "abandoned", "stale", "artifact"}
            \subseteq PreviewBuild!Outcomes
      BY DEF PreviewBuild!Outcomes
    <3> QED BY <1>7, <3>1 DEF PreviewBuild!Resume, PreviewBuild!Received
  <2>3. /\ buildCall' \in [Callers -> BuildCalls]
        /\ buildCall'[c].phase \notin {"idle", "waiting"}
        /\ \A d \in Callers \ {c} : buildCall'[d] = buildCall[d]
    BY <1>0, <2>2, CallReturns
  <2> HIDE DEF f
  <2>4. /\ y \in Flights /\ y.waiters = flight[f].waiters \ {c}
        /\ \/ y = PreviewBuild!NoFlight
           \/ y.abort = flight[f].abort /\ y.result = flight[f].result
    <3>1. CASE flight[f].waiters = {c}
      <4>1. /\ PreviewBuild!NoFlight \in Flights
            /\ PreviewBuild!NoFlight.waiters = {}
        BY DEF PreviewBuild!NoFlight, PreviewBuild!Aborts, Flights
      <4> QED BY <3>1, <4>1
    <3>2. CASE flight[f].waiters # {c}
      <4>1. /\ flight[f] \in Flights
            /\ flight[f].waiters \ {c} \in SUBSET Callers
        BY <1>0, <2>1 DEF Flights
      <4>2. y = LeftTo(flight[f], flight[f].waiters \ {c})
        BY <3>2 DEF LeftTo
      <4> HIDE DEF y
      <4> QED BY <4>1, <4>2, FlightLeft DEF IsFlight
    <3> QED BY <3>1, <3>2
  <2> HIDE DEF y
  <2>5. /\ flight' \in [Callers -> Flights] /\ flight'[f] = y
        /\ \A g \in Callers \ {f} : flight'[g] = flight[g]
    BY <1>0, <2>1, <2>4
  <2>6. WaitersCounted'
    BY <2>3, <2>4, <2>5 DEF BuildsInv, WaitersCounted
  <2>7. FlightsSound'
    <3>1. \A g \in Callers : buildCall'[g].phase = "idle" =>
            /\ flight[g].abort # "unwanted" /\ flight[g].waiters = {}
            /\ flight[g].result = "none" /\ flight[g].key = Nobody
      BY <2>3 DEF BuildsInv, FlightsSound
    <3> QED BY <2>1, <2>4, <2>5, <3>1
            DEF BuildsInv, FlightsSound, PreviewBuild!NoFlight
  <2>8. ListedRuns'
    BY <1>0, <2>1, <2>3, <2>4, <2>5 DEF BuildsInv, ListedRuns
  <2> QED BY <1>0, <2>1, <2>3, <2>5, <2>6, <2>7, <2>8
          DEF BuildsInv, BuildsTyped
<1>8. ASSUME PreviewBuild!Clear PROVE BuildsInv'
  <2> DEFINE y(f) == IF \E k \in BuildKeys : inFlight[k] = f
                     THEN [flight[f] EXCEPT !.abort = "cleared",
                                            !.result = "abandoned"]
                     ELSE flight[f]
  <2>1. /\ flight' = [f \in Callers |-> y(f)] /\ UNCHANGED buildCall
        /\ inFlight' = [k \in BuildKeys |-> Nobody]
    BY <1>8, Zenon DEF PreviewBuild!Clear
  <2>2. ASSUME NEW f \in Callers
        PROVE  /\ y(f) \in Flights /\ y(f).waiters = flight[f].waiters
               /\ \/ y(f) = flight[f]
                  \/ /\ y(f).abort = "cleared"
                     /\ \E k \in BuildKeys : inFlight[k] = f
    <3>1. CASE \E k \in BuildKeys : inFlight[k] = f
      <4>1. /\ "abandoned" \in PreviewBuild!Results
            /\ "cleared" \in PreviewBuild!Aborts
        BY DEF PreviewBuild!Results, PreviewBuild!Aborts
      <4>2. y(f) = Resolved(flight[f], "cleared", "abandoned")
        BY <3>1 DEF Resolved
      <4> HIDE DEF y
      <4> QED BY <1>0, <3>1, <4>1, <4>2, FlightEnded DEF IsFlight
    <3>2. CASE ~\E k \in BuildKeys : inFlight[k] = f
      BY <1>0, <3>2
    <3> QED BY <3>1, <3>2
  <2> HIDE DEF y
  <2>3. BuildsTyped'
    BY <1>0, <2>1, <2>2 DEF BuildsTyped
  <2>4. WaitersCounted'
    BY <2>1, <2>2 DEF BuildsInv, WaitersCounted
  <2>5. FlightsSound'
    <3>1. ASSUME NEW f \in Callers, NEW k \in BuildKeys, inFlight[k] = f
          PROVE  buildCall[f].phase # "idle"
      BY <3>1, NobodyAssumption DEF BuildsInv, ListedRuns
    <3> QED BY <2>1, <2>2, <3>1 DEF BuildsInv, FlightsSound
  <2> QED BY <2>1, <2>3, <2>4, <2>5 DEF BuildsInv, ListedRuns
<1>9. ASSUME NEW c \in Callers, PreviewBuild!Revoke(c) PROVE BuildsInv'
  BY <1>9 DEF PreviewBuild!Revoke, BuildsInv, BuildsTyped, WaitersCounted,
     FlightsSound, ListedRuns
<1>10. CASE UNCHANGED buildVars
  BY <1>10 DEF buildVars, BuildsInv, BuildsTyped, WaitersCounted,
     FlightsSound, ListedRuns
<1> QED
  BY <1>2, <1>4, <1>5, <1>6, <1>7, <1>8, <1>9, <1>10 DEF PreviewBuild!Next

(* A caller that waits never sees its build aborted because another one    *)
(* left, and no new caller joins a build that has ended: the flight is     *)
(* aborted by its last waiter only, and unlisted in the same step.         *)
THEOREM SharedBuildsSurvive == PreviewBuild!Spec => []SharedBuildSurvives
<1>1. PreviewBuild!Init => BuildsInv
  BY BuildsBegin
<1>2. BuildsInv /\ [PreviewBuild!Next]_buildVars => BuildsInv'
  BY BuildsStep
<1>3. BuildsInv => SharedBuildSurvives
  BY DEF BuildsInv, WaitersCounted, FlightsSound, ListedRuns,
     SharedBuildSurvives, PreviewBuild!SharedBuildSurvives,
     PreviewBuild!Settled
<1> QED BY <1>1, <1>2, <1>3, PTL
       DEF PreviewBuild!Spec, PreviewBuild!vars, buildVars

-----------------------------------------------------------------------------
(* Story previews.                                                         *)
StoryCalls ==
  [state : {"idle", "building", "returned", "refused"},
   cap : Story!Caps \cup {0}, by : Viewers \cup {Nobody}, aborted : BOOLEAN]

StoriesTyped ==
  /\ storyBuild \in [Builds -> StoryCalls]
  /\ running \in [Viewers -> Builds \cup {Nobody}]

Wanted(b) == storyBuild[b].state = "building" /\ ~storyBuild[b].aborted

(* Calls are numbered in the order they are made.                          *)
CallsInOrder ==
  \A b \in Builds :
    /\ storyBuild[b].state = "idle" => storyBuild[b].by = Nobody
    /\ storyBuild[b].state # "idle" =>
         \A earlier \in Builds : earlier < b =>
           storyBuild[earlier].state # "idle"

(* A call whose signal was not aborted is the last its renderer made.      *)
WantedIsLast ==
  \A b \in Builds : Wanted(b) =>
    /\ storyBuild[b].by \in Viewers /\ running[storyBuild[b].by] = b
    /\ \A later \in Builds : b < later =>
         storyBuild[later].by # storyBuild[b].by

StoriesInv == StoriesTyped /\ CallsInOrder /\ WantedIsLast

LEMMA StoriesBegin == Story!Init => StoriesInv
BY DEF Story!Init, StoriesInv, StoriesTyped, StoryCalls, CallsInOrder,
       WantedIsLast, Wanted

(* A step that starts no call: some are aborted or end, and a call that is *)
(* still wanted keeps its controller.                                      *)
LEMMA CallsOnlyEnd ==
  ASSUME StoriesInv, StoriesTyped',
         \A b \in Builds :
           /\ storyBuild'[b].by = storyBuild[b].by
           /\ storyBuild'[b].state = "idle" <=> storyBuild[b].state = "idle"
           /\ Wanted(b)' => /\ Wanted(b)
                            /\ running'[storyBuild[b].by] = b
  PROVE  StoriesInv'
BY DEF StoriesInv, CallsInOrder, WantedIsLast

(* Aborting what a renderer had asked for.                                 *)
LEMMA StoryAborts ==
  ASSUME StoriesTyped, NEW c \in Viewers
  PROVE  /\ Story!Aborts(c) \in [Builds -> StoryCalls]
         /\ \A b \in Builds :
              /\ Story!Aborts(c)[b].by = storyBuild[b].by
              /\ Story!Aborts(c)[b].state = storyBuild[b].state
              /\ ~Story!Aborts(c)[b].aborted =>
                   ~storyBuild[b].aborted /\ running[c] # b
<1> DEFINE x(b) == IF b = running[c]
                   THEN [storyBuild[b] EXCEPT !.aborted = TRUE]
                   ELSE storyBuild[b]
<1>1. ASSUME NEW b \in Builds
      PROVE  /\ x(b) \in StoryCalls /\ x(b).by = storyBuild[b].by
             /\ x(b).state = storyBuild[b].state
             /\ ~x(b).aborted => ~storyBuild[b].aborted /\ running[c] # b
  BY DEF StoriesTyped, StoryCalls
<1>2. Story!Aborts(c) = [b \in Builds |-> x(b)]
  BY Zenon DEF Story!Aborts
<1> HIDE DEF x
<1> QED BY <1>1, <1>2

(* A call that ends.                                                       *)
LEMMA StoryEnds ==
  ASSUME StoriesInv, NEW b \in Builds, storyBuild[b].state = "building",
         NEW s \in {"returned", "refused"},
         storyBuild' = [storyBuild EXCEPT ![b].state = s],
         running' = Story!Released(b)
  PROVE  /\ StoriesInv'
         /\ \A d \in Builds : d # b => storyBuild'[d] = storyBuild[d]
         /\ storyBuild'[b].state = s
<1> DEFINE x == [storyBuild[b] EXCEPT !.state = s]
<1>1. /\ x \in StoryCalls /\ x.state = s /\ x.by = storyBuild[b].by
      /\ storyBuild' = [storyBuild EXCEPT ![b] = x]
  BY DEF StoriesInv, StoriesTyped, StoryCalls
<1> HIDE DEF x
<1>2. /\ storyBuild' \in [Builds -> StoryCalls] /\ storyBuild'[b] = x
      /\ \A d \in Builds : d # b => storyBuild'[d] = storyBuild[d]
  BY <1>1 DEF StoriesInv, StoriesTyped
<1>3. /\ running' \in [Viewers -> Builds \cup {Nobody}]
      /\ \A c \in Viewers : running[c] # b => running'[c] = running[c]
  BY DEF StoriesInv, StoriesTyped, Story!Released
<1>4. \A d \in Builds : Wanted(d)' =>
        Wanted(d) /\ running'[storyBuild[d].by] = d
  BY <1>1, <1>2, <1>3 DEF Wanted, StoriesInv, WantedIsLast
<1> QED BY <1>1, <1>2, <1>3, <1>4, CallsOnlyEnd DEF StoriesTyped

(* What the returned call's renderer is shown.                             *)
ShownFor(b) ==
  /\ drawn[storyBuild[b].cap].catalog = catalog
  /\ storyBuild[b].cap \in Story!Listed
  /\ \A later \in Builds : later > b => storyBuild[later].by # storyBuild[b].by

LEMMA StoriesStep ==
  ASSUME StoriesInv, [Story!Next]_storyVars
  PROVE  /\ StoriesInv'
         /\ \A b \in Builds :
              storyBuild[b].state = "building"
                /\ storyBuild'[b].state = "returned" => ShownFor(b)
<1> DEFINE Goal == /\ StoriesInv'
                   /\ \A b \in Builds :
                        storyBuild[b].state = "building"
                          /\ storyBuild'[b].state = "returned" => ShownFor(b)
<1>0. StoriesTyped
  BY DEF StoriesInv
<1>1. ASSUME UNCHANGED <<storyBuild, running>> PROVE Goal
  BY <1>1 DEF StoriesInv, StoriesTyped, CallsInOrder, WantedIsLast, Wanted
<1>2. ASSUME NEW b \in Builds, NEW c \in Viewers, NEW cap \in Story!Caps,
             Story!Start(b, c, cap)
      PROVE  Goal
  <2> DEFINE x == [state |-> "building", cap |-> cap, by |-> c,
                   aborted |-> FALSE]
             A == Story!Aborts(c)
  <2>1. /\ storyBuild[b].state = "idle"
        /\ \A e \in Builds : e < b => storyBuild[e].state # "idle"
        /\ storyBuild' = [A EXCEPT ![b] = x]
        /\ running' = [running EXCEPT ![c] = b]
    BY <1>2 DEF Story!Start
  <2>2. x \in StoryCalls /\ x.state = "building" /\ x.by = c
    BY DEF StoryCalls
  <2> HIDE DEF x
  <2>3. /\ A \in [Builds -> StoryCalls]
        /\ \A d \in Builds :
             /\ A[d].by = storyBuild[d].by /\ A[d].state = storyBuild[d].state
             /\ ~A[d].aborted => ~storyBuild[d].aborted /\ running[c] # d
    BY <1>0, StoryAborts
  <2> HIDE DEF A
  <2>4. /\ storyBuild' \in [Builds -> StoryCalls] /\ storyBuild'[b] = x
        /\ \A d \in Builds : d # b => storyBuild'[d] = A[d]
        /\ running' \in [Viewers -> Builds \cup {Nobody}] /\ running'[c] = b
        /\ \A v \in Viewers : v # c => running'[v] = running[v]
    BY <1>0, <2>1, <2>2, <2>3 DEF StoriesTyped
  <2>5. CallsInOrder'
    <3>1. ASSUME NEW d \in Builds, storyBuild'[d].state = "idle"
          PROVE  storyBuild'[d].by = Nobody
      BY <2>2, <2>3, <2>4, <3>1 DEF StoriesInv, CallsInOrder
    <3>2. ASSUME NEW d \in Builds, storyBuild'[d].state # "idle",
                 NEW e \in Builds, e < d
          PROVE  storyBuild'[e].state # "idle"
      BY <2>1, <2>2, <2>3, <2>4, <3>2 DEF StoriesInv, CallsInOrder
    <3> QED BY <3>1, <3>2 DEF CallsInOrder
  <2>6. ASSUME NEW l \in Builds, b < l PROVE storyBuild[l].by # c
    <3>1. storyBuild[l].state = "idle"
      BY <2>1, <2>6 DEF StoriesInv, CallsInOrder
    <3> QED BY <3>1, NobodyAssumption DEF StoriesInv, CallsInOrder
  <2>7. ASSUME NEW d \in Builds, Wanted(d)'
        PROVE  /\ storyBuild'[d].by \in Viewers
               /\ running'[storyBuild'[d].by] = d
               /\ \A l \in Builds :
                    d < l => storyBuild'[l].by # storyBuild'[d].by
    <3>1. CASE d = b
      <4>1. \A l \in Builds : b < l => l # b
        BY NumbersAssumption
      <4> QED BY <2>2, <2>3, <2>4, <2>6, <3>1, <4>1
    <3>2. CASE d # b
      <4>1. /\ Wanted(d) /\ running[c] # d
            /\ storyBuild'[d].by = storyBuild[d].by
        BY <2>3, <2>4, <2>7, <3>2 DEF Wanted
      <4>2. /\ storyBuild[d].by \in Viewers /\ running[storyBuild[d].by] = d
            /\ \A l \in Builds : d < l => storyBuild[l].by # storyBuild[d].by
        BY <4>1 DEF StoriesInv, WantedIsLast
      <4>3. storyBuild[d].by # c
        BY <4>1, <4>2
      <4>4. ASSUME NEW l \in Builds, d < l
            PROVE  storyBuild'[l].by # storyBuild[d].by
        BY <2>2, <2>3, <2>4, <4>2, <4>3, <4>4
      <4> QED BY <2>4, <4>1, <4>2, <4>3, <4>4
    <3> QED BY <3>1, <3>2
  <2>8. WantedIsLast'
    BY <2>7 DEF WantedIsLast
  <2>9. \A d \in Builds : storyBuild[d].state = "building" =>
          storyBuild'[d].state # "returned"
    BY <2>1, <2>3, <2>4
  <2> QED BY <2>4, <2>5, <2>8, <2>9 DEF StoriesInv, StoriesTyped
<1>3. ASSUME NEW b \in Builds, Story!Published(b) PROVE Goal
  <2>1. CASE Story!StillResolves(b)
    <3>1. /\ StoriesInv'
          /\ \A d \in Builds : d # b => storyBuild'[d] = storyBuild[d]
      BY <1>3, <2>1, StoryEnds DEF Story!Published
    <3>2. Wanted(b)
      BY <1>3, <2>1 DEF Story!Published, Story!StillResolves, Wanted
    <3>3. ShownFor(b)
      <4>1. \A later \in Builds : later > b =>
              storyBuild[later].by # storyBuild[b].by
        BY <3>2, NumbersAssumption DEF StoriesInv, WantedIsLast
      <4> QED BY <2>1, <4>1 DEF ShownFor, Story!StillResolves,
                                Story!Resolves, Story!Current
    <3> QED BY <3>1, <3>3
  <2>2. CASE ~Story!StillResolves(b)
    <3>1. /\ StoriesInv' /\ storyBuild'[b].state = "refused"
          /\ \A d \in Builds : d # b => storyBuild'[d] = storyBuild[d]
      BY <1>3, <2>2, StoryEnds DEF Story!Published
    <3> QED BY <3>1
  <2> QED BY <2>1, <2>2
<1>4. ASSUME NEW b \in Builds, Story!BuildFails(b) PROVE Goal
  <2>1. /\ StoriesInv' /\ storyBuild'[b].state = "refused"
        /\ \A d \in Builds : d # b => storyBuild'[d] = storyBuild[d]
    BY <1>4, StoryEnds DEF Story!BuildFails
  <2> QED BY <2>1
<1>5. ASSUME NEW c \in Viewers, Story!Cancel(c) PROVE Goal
  <2> DEFINE A == Story!Aborts(c)
  <2>1. storyBuild' = A /\ running' = [running EXCEPT ![c] = Nobody]
    BY <1>5 DEF Story!Cancel
  <2>2. /\ A \in [Builds -> StoryCalls]
        /\ \A d \in Builds :
             /\ A[d].by = storyBuild[d].by /\ A[d].state = storyBuild[d].state
             /\ ~A[d].aborted => ~storyBuild[d].aborted /\ running[c] # d
    BY <1>0, StoryAborts
  <2> HIDE DEF A
  <2>3. StoriesTyped'
    BY <1>0, <2>1, <2>2 DEF StoriesTyped
  <2>4. \A d \in Builds : Wanted(d)' =>
          Wanted(d) /\ running'[storyBuild[d].by] = d
    BY <1>0, <2>1, <2>2 DEF Wanted, StoriesTyped, StoriesInv, WantedIsLast
  <2>5. StoriesInv'
    BY <2>1, <2>2, <2>3, <2>4, CallsOnlyEnd
  <2> QED BY <2>1, <2>2, <2>5
<1>6. ASSUME Story!Reset PROVE Goal
  <2> DEFINE x(b) == IF \E c \in Viewers : running[c] = b
                     THEN [storyBuild[b] EXCEPT !.aborted = TRUE]
                     ELSE storyBuild[b]
  <2>1. storyBuild' = [b \in Builds |-> x(b)]
    BY <1>6, Zenon DEF Story!Reset
  <2>2. running' = [c \in Viewers |-> Nobody]
    BY <1>6 DEF Story!Reset
  <2>3. ASSUME NEW b \in Builds
        PROVE  /\ x(b) \in StoryCalls /\ x(b).by = storyBuild[b].by
               /\ x(b).state = storyBuild[b].state
               /\ ~x(b).aborted => /\ ~storyBuild[b].aborted
                                   /\ ~\E c \in Viewers : running[c] = b
    <3>1. storyBuild[b] \in StoryCalls
      BY <1>0 DEF StoriesTyped
    <3> QED BY <3>1 DEF StoryCalls
  <2> HIDE DEF x
  <2>4. StoriesTyped'
    BY <2>1, <2>2, <2>3 DEF StoriesTyped
  <2>5. \A d \in Builds : ~Wanted(d)'
    BY <2>1, <2>3 DEF Wanted, StoriesInv, WantedIsLast
  <2>6. StoriesInv'
    BY <2>1, <2>3, <2>4, <2>5, CallsOnlyEnd
  <2> QED BY <2>1, <2>3, <2>6
<1> QED
  BY <1>1, <1>2, <1>3, <1>4, <1>5, <1>6
  DEF Story!Next, storyVars, Story!CatalogChanges, Story!RevokeProject,
      Story!Issue, Story!IssueAgain

(* A renderer is shown only the story it last asked for, of the current    *)
(* catalog and under a capability in force: a build whose renderer asked   *)
(* again, left or was reset meanwhile has been aborted, and the capability *)
(* is resolved again when the builder answers.                             *)
THEOREM OnlyTheWantedIsShown == Story!Spec => ShownIsWanted
<1>1. Story!Init => StoriesInv
  BY StoriesBegin
<1>2. StoriesInv /\ [Story!Next]_storyVars => StoriesInv'
  BY StoriesStep
<1>3. StoriesInv /\ [Story!Next]_storyVars =>
        [\A b \in Builds :
           storyBuild[b].state = "building"
             /\ storyBuild'[b].state = "returned" =>
           /\ drawn[storyBuild[b].cap].catalog = catalog
           /\ storyBuild[b].cap \in Story!Listed
           /\ \A later \in Builds :
                later > b => storyBuild[later].by # storyBuild[b].by]_storyVars
  BY StoriesStep DEF ShownFor
<1> QED BY <1>1, <1>2, <1>3, PTL DEF Story!Spec, Story!vars, storyVars,
       ShownIsWanted, Story!ShownIsWanted

-----------------------------------------------------------------------------
(* Refreshes.                                                              *)
RefreshStates ==
  [phase : Refresh!Phases, kind : {"render", "open"}, ticket : 0..MaxTicket,
   aborted : BOOLEAN]
Presentations == [refresh : Refreshes, ready : BOOLEAN]
RefreshTyped ==
  /\ refresh \in [Refreshes -> RefreshStates]
  /\ active \in Refreshes \cup {Nobody}
  /\ pending \in Presentations \cup {Nobody}

(* Refreshes start in the order of their numbers, and the active one is    *)
(* the last that started.                                                  *)
StartedInOrder ==
  \A q \in Refreshes : refresh[q].phase # "idle" =>
    \A p \in Refreshes : p < q => refresh[p].phase # "idle"
ActiveIsNewest ==
  active # Nobody => \A q \in Refreshes : active < q =>
    refresh[q].phase = "idle"

(* Only the active refresh compiles, and the one that is retargeting while *)
(* it is active is in the frame.                                           *)
CompilingIsActive ==
  \A q \in Refreshes : refresh[q].phase = "compiling" => active = q
RetargetingInFrame ==
  \A q \in Refreshes :
    refresh[q].phase = "retargeting" /\ active = q => frame = q

PendingStarted ==
  pending # Nobody => refresh[pending.refresh].phase # "idle"

(* What has started stays so: of a step.                                   *)
KeepsStarted ==
  \A q \in Refreshes : refresh'[q].phase = "idle" => refresh[q].phase = "idle"

NewestInv ==
  RefreshTyped /\ StartedInOrder /\ ActiveIsNewest /\ CompilingIsActive
    /\ RetargetingInFrame /\ PendingStarted

LEMMA NewestBegin == Refresh!Init => NewestInv
BY NobodyAssumption, NumbersAssumption
DEF Refresh!Init, NewestInv, RefreshTyped, RefreshStates,
   Refresh!Phases, StartedInOrder, ActiveIsNewest, CompilingIsActive,
   RetargetingInFrame, PendingStarted

(* A step that starts no refresh, and makes none the active one.           *)
LEMMA NothingStarts ==
  ASSUME NewestInv, RefreshTyped', active' \in {active, Nobody},
         \A q \in Refreshes :
           /\ refresh'[q].phase = "idle" <=> refresh[q].phase = "idle"
           /\ refresh'[q].phase = "compiling" =>
                refresh[q].phase = "compiling" /\ active' = active
           /\ refresh'[q].phase = "retargeting" /\ active' = q => frame' = q,
         \/ pending' = Nobody \/ refresh'[pending'.refresh].phase # "idle"
  PROVE  NewestInv' /\ KeepsStarted
BY NobodyAssumption
DEF KeepsStarted, NewestInv, StartedInOrder, ActiveIsNewest, CompilingIsActive,
    RetargetingInFrame, PendingStarted, RefreshTyped

(* A refresh that comes to another phase.                                  *)
LEMMA PhaseSet ==
  ASSUME RefreshTyped, NEW r \in Refreshes, NEW p \in Refresh!Phases,
         refresh' = [refresh EXCEPT ![r].phase = p]
  PROVE  /\ refresh' \in [Refreshes -> RefreshStates]
         /\ refresh'[r].phase = p
         /\ \A q \in Refreshes : q # r => refresh'[q] = refresh[q]
<1> DEFINE x == [refresh[r] EXCEPT !.phase = p]
<1>1. x \in RefreshStates /\ x.phase = p
  BY DEF RefreshTyped, RefreshStates
<1>2. refresh' = [refresh EXCEPT ![r] = x]
  OBVIOUS
<1> HIDE DEF x
<1> QED BY <1>1, <1>2 DEF RefreshTyped

LEMMA RefreshAborts ==
  ASSUME RefreshTyped, NEW r \in Refreshes
  PROVE  /\ Refresh!AbortedRefresh(r) \in RefreshStates
         /\ Refresh!AbortedRefresh(r).phase =
              IF refresh[r].phase \in {"compiling", "presenting"}
              THEN "failed" ELSE refresh[r].phase
<1> DEFINE s == refresh[r]
           p == IF s.phase \in {"compiling", "presenting"} THEN "failed"
                ELSE s.phase
           t == [s EXCEPT !.aborted = TRUE]
<1>1. s \in RefreshStates /\ p \in Refresh!Phases
  BY DEF RefreshTyped, RefreshStates, Refresh!Phases
<1>2. Refresh!AbortedRefresh(r) = [t EXCEPT !.phase = p]
  BY DEF Refresh!AbortedRefresh
<1>3. p = IF refresh[r].phase \in {"compiling", "presenting"}
          THEN "failed" ELSE refresh[r].phase
  OBVIOUS
<1> HIDE DEF s, p
<1>4. t \in RefreshStates
  BY <1>1 DEF RefreshStates
<1> HIDE DEF t
<1> QED BY <1>1, <1>2, <1>3, <1>4 DEF RefreshStates

(* A refresh that fails and is no longer the active one.                   *)
LEMMA RefreshFails ==
  ASSUME NewestInv, NEW r \in Refreshes, refresh[r].phase # "idle",
         Refresh!Fail(r),
         \/ Refresh!NoLonger(r) /\ UNCHANGED frame
         \/ active = r /\ active' = Nobody,
         pending' \in {pending, Nobody}
  PROVE  NewestInv' /\ KeepsStarted
<1>1. /\ refresh' \in [Refreshes -> RefreshStates]
      /\ refresh'[r].phase = "failed"
      /\ \A q \in Refreshes : q # r => refresh'[q] = refresh[q]
  BY PhaseSet DEF NewestInv, Refresh!Fail, Refresh!Phases
<1>2. /\ active' \in {active, Nobody} /\ (active' = active \/ active = r)
  BY DEF Refresh!NoLonger
<1>3. RefreshTyped'
  BY <1>1, <1>2 DEF NewestInv, RefreshTyped
<1>4. \A q \in Refreshes : active' = q => frame' = frame
  BY NobodyAssumption DEF Refresh!NoLonger
<1>5. \A q \in Refreshes :
        refresh'[q].phase = "retargeting" /\ active' = q =>
          refresh[q].phase = "retargeting" /\ active = q
  BY <1>1, <1>2, NobodyAssumption
<1>6. ASSUME pending' # Nobody PROVE refresh'[pending'.refresh].phase # "idle"
  <2>1. /\ pending' = pending /\ pending.refresh \in Refreshes
        /\ refresh[pending.refresh].phase # "idle"
    BY <1>6 DEF NewestInv, RefreshTyped, PendingStarted, Presentations
  <2> QED BY <1>1, <2>1
<1> QED
  BY <1>1, <1>2, <1>3, <1>4, <1>5, <1>6, NothingStarts
  DEF NewestInv, CompilingIsActive, RetargetingInFrame

(* A step that leaves the refreshes alone.                                 *)
LEMMA RefreshesStay ==
  ASSUME NewestInv, UNCHANGED <<refresh, active, frame>>,
         pending' \in Presentations \cup {Nobody},
         pending' # Nobody => PendingStarted /\ pending # Nobody
                              /\ pending'.refresh = pending.refresh
  PROVE  NewestInv' /\ KeepsStarted
BY DEF KeepsStarted, NewestInv, StartedInOrder, ActiveIsNewest,
       CompilingIsActive,
    RetargetingInFrame, PendingStarted, RefreshTyped

(* What an open that fails leaves behind.                                  *)
LEMMA GivenUp ==
  ASSUME NEW r \in Refreshes, Refresh!GiveUp(r), NewestInv,
         refresh[r].phase = "compiling"
  PROVE  /\ \/ Refresh!NoLonger(r) /\ UNCHANGED frame
            \/ active = r /\ active' = Nobody
         /\ pending' \in {pending, Nobody}
BY DEF Refresh!GiveUp, NewestInv, CompilingIsActive

LEMMA NewestStart ==
  ASSUME NewestInv, NEW r \in Refreshes, NEW kind \in {"render", "open"},
         NEW t \in 0..MaxTicket, Refresh!Start(r, kind, t)
  PROVE  NewestInv' /\ KeepsStarted /\ refresh'[r].phase # "idle"
<1> DEFINE new == [phase |-> "compiling", kind |-> kind, ticket |-> t,
                   aborted |-> FALSE]
           closed == IF kind = "open" /\ pending # Nobody
                     THEN {pending.refresh} ELSE {}
           x(q) == CASE q = r -> new
                     [] q # r /\ q = active -> Refresh!AbortedRefresh(q)
                     [] q # r /\ q # active /\ q \in closed ->
                          [refresh[q] EXCEPT !.phase = "failed"]
                     [] OTHER -> refresh[q]
<1>0. RefreshTyped
  BY DEF NewestInv
<1>1. /\ refresh[r].phase = "idle"
      /\ \A q \in Refreshes : q < r => refresh[q].phase # "idle"
      /\ pending' \in {pending, Nobody} /\ active' = r /\ frame' = frame
  BY DEF Refresh!Start
<1>2. refresh' = [q \in Refreshes |-> x(q)]
  BY Zenon DEF Refresh!Start
<1>3. \A q \in closed : q \in Refreshes /\ refresh[q].phase # "idle"
  BY DEF NewestInv, RefreshTyped, Presentations, PendingStarted
<1>4. new \in RefreshStates /\ new.phase = "compiling"
  BY DEF RefreshStates, Refresh!Phases
<1>5. ASSUME NEW q \in Refreshes, q # r
      PROVE  /\ x(q) \in RefreshStates
             /\ x(q).phase = "idle" <=> refresh[q].phase = "idle"
             /\ x(q).phase # "compiling"
             /\ q # active => x(q).phase \in {refresh[q].phase, "failed"}
  <2>1. CASE q = active
    <3>1. x(q) = Refresh!AbortedRefresh(q)
      BY <1>5, <2>1
    <3> HIDE DEF x
    <3> QED BY <1>0, <2>1, <3>1, RefreshAborts
  <2>2. CASE q # active /\ q \in closed
    <3> DEFINE y == [refresh[q] EXCEPT !.phase = "failed"]
    <3>1. y \in RefreshStates /\ y.phase = "failed"
      BY <1>0 DEF RefreshTyped, RefreshStates, Refresh!Phases
    <3>2. x(q) = y
      BY <1>5, <2>2
    <3> HIDE DEF x, y
    <3> QED BY <1>3, <2>2, <3>1, <3>2
  <2>3. CASE q # active /\ q \notin closed
    <3>1. x(q) = refresh[q]
      BY <1>5, <2>3
    <3> HIDE DEF x
    <3> QED BY <1>0, <2>3, <3>1 DEF NewestInv, CompilingIsActive, RefreshTyped
  <2> QED BY <2>1, <2>2, <2>3
<1>6. x(r) = new
  OBVIOUS
<1> HIDE DEF x, new, closed
<1>7. /\ refresh' \in [Refreshes -> RefreshStates] /\ refresh'[r] = new
      /\ \A q \in Refreshes : q # r => refresh'[q] = x(q)
  BY <1>2, <1>4, <1>5, <1>6
<1>8. RefreshTyped'
  BY <1>0, <1>1, <1>7 DEF RefreshTyped
<1>9. \A q \in Refreshes : r < q =>
        refresh[q].phase = "idle" /\ q # r
  BY <1>1, NumbersAssumption DEF NewestInv, StartedInOrder
<1>10. StartedInOrder'
  <2>1. ASSUME NEW q \in Refreshes, refresh'[q].phase # "idle",
               NEW p \in Refreshes, p < q
        PROVE  refresh'[p].phase # "idle"
    <3>1. CASE q = r
      BY <1>1, <1>4, <1>5, <1>7, <2>1, <3>1
    <3>2. CASE q # r
      BY <1>4, <1>5, <1>7, <2>1, <3>2 DEF NewestInv, StartedInOrder
    <3> QED BY <3>1, <3>2
  <2> QED BY <2>1 DEF StartedInOrder
<1>11. ActiveIsNewest' /\ CompilingIsActive' /\ RetargetingInFrame'
  BY <1>1, <1>4, <1>5, <1>7, <1>9
  DEF ActiveIsNewest, CompilingIsActive, RetargetingInFrame
<1>12. PendingStarted'
  <2>1. ASSUME pending # Nobody
        PROVE  pending.refresh \in Refreshes
               /\ refresh[pending.refresh].phase # "idle"
    BY <2>1 DEF NewestInv, PendingStarted, RefreshTyped, Presentations
  <2> QED BY <1>1, <1>4, <1>5, <1>7, <2>1 DEF PendingStarted
<1>13. KeepsStarted
  BY <1>1, <1>5, <1>7 DEF KeepsStarted
<1> QED BY <1>4, <1>7, <1>8, <1>10, <1>11, <1>12, <1>13 DEF NewestInv

LEMMA NewestBuilt ==
  ASSUME NewestInv, NEW r \in Refreshes, Refresh!HearBuilt(r)
  PROVE  NewestInv' /\ KeepsStarted
<1>0. RefreshTyped
  BY DEF NewestInv
<1>1. CASE refresh[r].phase # "compiling"
  <2>1. UNCHANGED <<refresh, active, frame, pending>>
    BY <1>1 DEF Refresh!HearBuilt
  <2> QED BY <1>0, <2>1, RefreshesStay DEF NewestInv, RefreshTyped
<1>2. CASE refresh[r].phase = "compiling" /\ refresh[r].kind = "open"
  <2>1. /\ refresh' = [refresh EXCEPT ![r].phase = "shown"]
        /\ active' = (IF active = r THEN Nobody ELSE active)
        /\ frame' = r /\ pending' = pending
    BY <1>2 DEF Refresh!HearBuilt, Refresh!OpenFrame, Refresh!NoLonger
  <2>2. /\ refresh' \in [Refreshes -> RefreshStates]
        /\ refresh'[r].phase = "shown"
        /\ \A q \in Refreshes : q # r => refresh'[q] = refresh[q]
    BY <1>0, <2>1, PhaseSet DEF Refresh!Phases
  <2>3. active = r /\ active' = Nobody
    BY <1>2, <2>1 DEF NewestInv, CompilingIsActive
  <2>4. RefreshTyped'
    BY <1>0, <2>1, <2>2, <2>3 DEF RefreshTyped
  <2>5. ASSUME pending' # Nobody
        PROVE  refresh'[pending'.refresh].phase # "idle"
    BY <1>0, <2>1, <2>2, <2>5
    DEF NewestInv, PendingStarted, RefreshTyped, Presentations
  <2>6. \A q \in Refreshes : refresh[q].phase = "compiling" => q = r
    BY <2>3 DEF NewestInv, CompilingIsActive
  <2> QED
    BY <1>2, <2>2, <2>3, <2>4, <2>5, <2>6, NothingStarts, NobodyAssumption
<1>3. CASE refresh[r].phase = "compiling" /\ refresh[r].kind # "open"
  <2> DEFINE x(q) == CASE q = r -> [refresh[r] EXCEPT !.phase = "presenting"]
                       [] q # r /\ Refresh!PendingOf(q) ->
                            [refresh[q] EXCEPT !.phase = "failed"]
                       [] OTHER -> refresh[q]
  <2>1. /\ refresh' = [q \in Refreshes |-> x(q)]
        /\ pending' = [refresh |-> r, ready |-> FALSE]
        /\ frame' = r /\ active' = active
    BY <1>3, Zenon DEF Refresh!HearBuilt, Refresh!Present
  <2>2. ASSUME NEW q \in Refreshes
        PROVE  /\ x(q) \in RefreshStates
               /\ x(q).phase = "idle" <=> refresh[q].phase = "idle"
               /\ x(q).phase \in {refresh[q].phase, "presenting", "failed"}
               /\ q = r => x(q).phase = "presenting"
    <3>1. \A p \in Refresh!Phases :
            [refresh[q] EXCEPT !.phase = p] \in RefreshStates
      BY <1>0 DEF RefreshTyped, RefreshStates
    <3>2. CASE q = r
      BY <1>0, <1>3, <3>1, <3>2
      DEF RefreshTyped, RefreshStates, Refresh!Phases
    <3>3. CASE q # r /\ Refresh!PendingOf(q)
      BY <1>0, <3>1, <3>3
      DEF NewestInv, PendingStarted, Refresh!PendingOf, RefreshTyped,
          RefreshStates, Refresh!Phases
    <3>4. CASE q # r /\ ~Refresh!PendingOf(q)
      BY <1>0, <3>4 DEF RefreshTyped
    <3> QED BY <3>2, <3>3, <3>4
  <2> HIDE DEF x
  <2>3. /\ refresh' \in [Refreshes -> RefreshStates]
        /\ \A q \in Refreshes : refresh'[q] = x(q)
    BY <2>1, <2>2
  <2>4. pending' \in Presentations /\ pending'.refresh = r
    BY <2>1 DEF Presentations
  <2>5. RefreshTyped'
    BY <1>0, <2>1, <2>3, <2>4 DEF RefreshTyped
  <2>6. refresh'[pending'.refresh].phase # "idle"
    BY <2>2, <2>3, <2>4
  <2>7. active = r
    BY <1>3 DEF NewestInv, CompilingIsActive
  <2> QED
    BY <2>1, <2>2, <2>3, <2>5, <2>6, <2>7, NothingStarts
<1> QED BY <1>1, <1>2, <1>3

LEMMA NewestSettles ==
  ASSUME NewestInv, NEW r \in Refreshes,
         \/ Refresh!Deadline(r) \/ Refresh!HearRefused(r)
         \/ Refresh!PresentationFails(r)
  PROVE  NewestInv' /\ KeepsStarted
<1>1. CASE Refresh!Deadline(r)
  BY <1>1, GivenUp, RefreshFails DEF Refresh!Deadline
<1>2. CASE Refresh!HearRefused(r) /\ refresh[r].phase = "compiling"
  BY <1>2, GivenUp, RefreshFails DEF Refresh!HearRefused
<1>3. CASE Refresh!HearRefused(r) /\ refresh[r].phase # "compiling"
  <2>1. UNCHANGED <<refresh, active, pending, frame>>
    BY <1>3 DEF Refresh!HearRefused
  <2> QED BY <2>1, RefreshesStay DEF NewestInv, RefreshTyped
<1>4. CASE Refresh!PresentationFails(r)
  <2>1. refresh[r].phase # "idle"
    BY <1>4
    DEF Refresh!PresentationFails, Refresh!PendingOf, NewestInv, PendingStarted
  <2> QED BY <1>4, <2>1, RefreshFails DEF Refresh!PresentationFails
<1> QED BY <1>1, <1>2, <1>3, <1>4

LEMMA NewestFrames ==
  ASSUME NewestInv, NEW r \in Refreshes,
         Refresh!FrameReady(r) \/ Refresh!FrameRendered(r)
  PROVE  NewestInv' /\ KeepsStarted
<1>0. RefreshTyped
  BY DEF NewestInv
<1>1. CASE Refresh!FrameReady(r)
  <2>1. /\ pending # Nobody
        /\ pending' = [pending EXCEPT !.ready = TRUE]
        /\ UNCHANGED <<refresh, active, frame>>
    BY <1>1 DEF Refresh!FrameReady, Refresh!PendingOf
  <2>2. pending' \in Presentations /\ pending'.refresh = pending.refresh
    BY <1>0, <2>1 DEF RefreshTyped, Presentations
  <2> QED BY <2>1, <2>2, RefreshesStay DEF NewestInv
<1>2. CASE Refresh!FrameRendered(r)
  <2>1. /\ refresh[r].phase # "idle" /\ frame = r
        /\ pending' = Nobody
        /\ refresh' = [refresh EXCEPT ![r].phase = "retargeting"]
        /\ UNCHANGED <<active, frame>>
    BY <1>2
    DEF Refresh!FrameRendered, Refresh!PendingOf, NewestInv, PendingStarted
  <2>2. /\ refresh' \in [Refreshes -> RefreshStates]
        /\ refresh'[r].phase = "retargeting"
        /\ \A q \in Refreshes : q # r => refresh'[q] = refresh[q]
    BY <1>0, <2>1, PhaseSet DEF Refresh!Phases
  <2>3. RefreshTyped'
    BY <1>0, <2>1, <2>2 DEF RefreshTyped
  <2>4. \A q \in Refreshes :
          refresh'[q].phase = "retargeting" /\ active' = q => frame' = q
    BY <2>1, <2>2 DEF NewestInv, RetargetingInFrame
  <2> QED BY <2>1, <2>2, <2>3, <2>4, NothingStarts
<1> QED BY <1>1, <1>2

LEMMA NewestAccepts ==
  ASSUME NewestInv, NEW r \in Refreshes, Refresh!Accept(r)
  PROVE  /\ NewestInv' /\ KeepsStarted
         /\ shown' # shown =>
              /\ frame' = shown' /\ shown' = r
              /\ \A q \in Refreshes : q > r => refresh[q].phase = "idle"
<1>0. RefreshTyped
  BY DEF NewestInv
<1>1. /\ refresh[r].phase = "retargeting"
      /\ active' = (IF active = r THEN Nobody ELSE active)
      /\ UNCHANGED <<pending, frame>>
  BY DEF Refresh!Accept, Refresh!NoLonger
<1>2. PICK p \in {"shown", "failed"} :
        refresh' = [refresh EXCEPT ![r].phase = p]
  BY DEF Refresh!Accept, Refresh!Fail
<1>3. /\ refresh' \in [Refreshes -> RefreshStates]
      /\ refresh'[r].phase = p
      /\ \A q \in Refreshes : q # r => refresh'[q] = refresh[q]
  BY <1>0, <1>2, PhaseSet DEF Refresh!Phases
<1>4. RefreshTyped'
  BY <1>0, <1>1, <1>3 DEF RefreshTyped
<1>5. ASSUME pending' # Nobody PROVE refresh'[pending'.refresh].phase # "idle"
  BY <1>0, <1>1, <1>3, <1>5
  DEF NewestInv, PendingStarted, RefreshTyped, Presentations
<1>6. \A q \in Refreshes : refresh'[q].phase = "compiling" =>
        refresh[q].phase = "compiling" /\ active' = active
  BY <1>1, <1>3 DEF NewestInv, CompilingIsActive
<1>7. \A q \in Refreshes :
        refresh'[q].phase = "retargeting" /\ active' = q => frame' = q
  BY <1>1, <1>3, NobodyAssumption DEF NewestInv, RetargetingInFrame
<1>8. NewestInv' /\ KeepsStarted
  BY <1>1, <1>3, <1>4, <1>5, <1>6, <1>7, NothingStarts
<1>9. ASSUME shown' # shown
      PROVE  /\ frame' = shown' /\ shown' = r
             /\ \A q \in Refreshes : q > r => refresh[q].phase = "idle"
  <2>1. shown' = r /\ active = r
    BY <1>9 DEF Refresh!Accept, Refresh!StillOwns
  <2>2. \A q \in Refreshes : q > r => r < q
    BY NumbersAssumption
  <2> QED
    BY <1>1, <2>1, <2>2, NobodyAssumption
    DEF NewestInv, RetargetingInFrame, ActiveIsNewest
<1> QED BY <1>8, <1>9

LEMMA NewestAborts ==
  ASSUME NewestInv, NEW r \in Refreshes, Refresh!Abort(r)
  PROVE  NewestInv' /\ KeepsStarted
<1> DEFINE x == Refresh!AbortedRefresh(r)
<1>0. RefreshTyped
  BY DEF NewestInv
<1>1. /\ active = r /\ refresh' = [refresh EXCEPT ![r] = x]
      /\ pending' \in {pending, Nobody}
      /\ \/ /\ refresh[r].phase = "retargeting"
            /\ UNCHANGED <<active, frame>>
         \/ active' = Nobody
  BY DEF Refresh!Abort, Refresh!NoLonger
<1>2. /\ x \in RefreshStates
      /\ x.phase = IF refresh[r].phase \in {"compiling", "presenting"}
                   THEN "failed" ELSE refresh[r].phase
  BY <1>0, RefreshAborts
<1> HIDE DEF x
<1>3. /\ refresh' \in [Refreshes -> RefreshStates] /\ refresh'[r] = x
      /\ \A q \in Refreshes : q # r => refresh'[q] = refresh[q]
  BY <1>0, <1>1, <1>2 DEF RefreshTyped
<1>4. RefreshTyped'
  BY <1>0, <1>1, <1>3 DEF RefreshTyped
<1>5. ASSUME pending' # Nobody PROVE refresh'[pending'.refresh].phase # "idle"
  BY <1>0, <1>1, <1>2, <1>3, <1>5
  DEF NewestInv, PendingStarted, RefreshTyped, Presentations
<1>6. \A q \in Refreshes : refresh'[q].phase # "compiling"
  BY <1>1, <1>2, <1>3 DEF NewestInv, CompilingIsActive
<1>7. \A q \in Refreshes :
        refresh'[q].phase = "retargeting" /\ active' = q => frame' = q
  BY <1>1, <1>3, NobodyAssumption DEF NewestInv, RetargetingInFrame
<1>8. \A q \in Refreshes :
        refresh'[q].phase = "idle" <=> refresh[q].phase = "idle"
  BY <1>2, <1>3
<1> QED BY <1>1, <1>4, <1>5, <1>6, <1>7, <1>8, NothingStarts

(* Every step keeps the invariant, and only an acceptance shows a build.   *)
LEMMA NewestStep ==
  ASSUME NewestInv, [Refresh!Next]_refreshVars
  PROVE  /\ NewestInv' /\ KeepsStarted
         /\ shown' # shown =>
              /\ frame' = shown'
              /\ \A q \in Refreshes : q > shown' => refresh[q].phase = "idle"
<1> DEFINE Goal == /\ NewestInv' /\ KeepsStarted
                   /\ shown' # shown =>
                        /\ frame' = shown'
                        /\ \A q \in Refreshes :
                             q > shown' => refresh[q].phase = "idle"
<1>1. ASSUME UNCHANGED <<refresh, active, pending, frame, shown>> PROVE Goal
  BY <1>1, RefreshesStay DEF NewestInv, RefreshTyped
<1>2. ASSUME Refresh!Advance \/ Refresh!Expire PROVE Goal
  BY <1>1, <1>2 DEF Refresh!Advance, Refresh!Expire, Refresh!renderer
<1>3. ASSUME NEW r \in Refreshes,
             \/ Refresh!HandleReserve(r) \/ Refresh!HandleBuild(r)
             \/ Refresh!HandleCancel(r) \/ Refresh!Finish(r)
             \/ Refresh!HearReserved(r)
      PROVE  Goal
  BY <1>1, <1>3
  DEF Refresh!HandleReserve, Refresh!HandleBuild, Refresh!HandleCancel,
      Refresh!Finish, Refresh!HearReserved, Refresh!renderer
<1>4. ASSUME NEW r \in Refreshes, NEW kind \in {"render", "open"},
             NEW t \in 0..MaxTicket, Refresh!Start(r, kind, t)
      PROVE  Goal
  BY <1>4, NewestStart DEF Refresh!Start
<1>5. ASSUME NEW r \in Refreshes, Refresh!HearBuilt(r) PROVE Goal
  BY <1>5, NewestBuilt DEF Refresh!HearBuilt
<1>6. ASSUME NEW r \in Refreshes,
             \/ Refresh!Deadline(r) \/ Refresh!HearRefused(r)
             \/ Refresh!PresentationFails(r)
      PROVE  Goal
  BY <1>6, NewestSettles
  DEF Refresh!Deadline, Refresh!HearRefused, Refresh!PresentationFails
<1>7. ASSUME NEW r \in Refreshes,
             Refresh!FrameReady(r) \/ Refresh!FrameRendered(r)
      PROVE  Goal
  BY <1>7, NewestFrames DEF Refresh!FrameReady, Refresh!FrameRendered
<1>8. ASSUME NEW r \in Refreshes, Refresh!Accept(r) PROVE Goal
  BY <1>8, NewestAccepts
<1>9. ASSUME NEW r \in Refreshes, Refresh!Abort(r) PROVE Goal
  BY <1>9, NewestAborts DEF Refresh!Abort
<1>10. ASSUME UNCHANGED refreshVars PROVE Goal
  BY <1>1, <1>10 DEF refreshVars
<1> HIDE DEF Goal
<1>11. Goal
  BY <1>2, <1>3, <1>4, <1>5, <1>6, <1>7, <1>8, <1>9, <1>10 DEF Refresh!Next
<1> QED BY <1>11 DEF Goal

(* A build becomes the canonical one only as the newest refresh, and while *)
(* it is in the frame: whatever answered late, was aborted, or lost the    *)
(* frame to a later refresh is not shown (render() after its await).       *)
THEOREM OnlyTheNewestIsShown == Refresh!Spec => NewestIsShown
<1>1. Refresh!Init => NewestInv
  BY NewestBegin
<1>2. ASSUME NewestInv, [Refresh!Next]_(Refresh!vars)
      PROVE  [Refresh!Next]_refreshVars
  BY <1>2 DEF refreshVars, Refresh!vars, Refresh!renderer, Refresh!host
<1>3. NewestInv /\ [Refresh!Next]_(Refresh!vars) => NewestInv'
  BY <1>2, NewestStep
<1>4. NewestInv /\ [Refresh!Next]_(Refresh!vars) =>
        [shown' # shown =>
           /\ frame' = shown'
           /\ \A q \in Refreshes :
                q > shown' => refresh[q].phase = "idle"]_(Refresh!vars)
  BY <1>2, NewestStep
<1> QED BY <1>1, <1>3, <1>4, PTL DEF Refresh!Spec, NewestIsShown,
       Refresh!NewestIsShown

-----------------------------------------------------------------------------
(* Leases.                                                                 *)
Wires == [type : {"reserve", "build", "cancel"}, refresh : Refreshes]
Leases == [refresh : Refreshes, consumed : BOOLEAN]

(* Whether a reservation is on its way, and that none is there twice.      *)
AsksFor(s, r) ==
  \E i \in 1..Len(s) : s[i] = Refresh!Message("reserve", r)
AsksOnce(s) ==
  \A i, j \in 1..Len(s) : s[i] = s[j] /\ s[i].type = "reserve" => i = j

LeasesTyped ==
  /\ toHost \in Seq(Wires) /\ lease \in Leases \cup {Nobody}
  /\ revoked \subseteq Refreshes

(* The lease in force was not closed, and a refresh that has not started,  *)
(* or whose reservation is still on its way, has had none.                 *)
InForce == lease # Nobody => lease.refresh \notin revoked
NotYet ==
  \A r \in Refreshes :
    refresh[r].phase = "idle" \/ AsksFor(toHost, r) =>
      ~Refresh!Holds(r) /\ r \notin revoked
AskedAfterStart ==
  \A r \in Refreshes : AsksFor(toHost, r) => refresh[r].phase # "idle"

LeasesInv ==
  LeasesTyped /\ InForce /\ NotYet /\ AskedAfterStart /\ AsksOnce(toHost)

LEMMA LeasesBegin == Refresh!Init => LeasesInv
<1> SUFFICES ASSUME Refresh!Init PROVE LeasesInv
  OBVIOUS
<1>1. toHost = <<>> /\ lease = Nobody /\ revoked = {}
  BY DEF Refresh!Init
<1>2. \A r : ~AsksFor(toHost, r)
  BY <1>1 DEF AsksFor
<1>3. AsksOnce(toHost)
  BY <1>1 DEF AsksOnce
<1> QED BY <1>1, <1>2, <1>3 DEF LeasesInv, LeasesTyped, InForce, NotYet,
       AskedAfterStart, Refresh!Holds

(* A message that reserves nothing.                                        *)
LEMMA SaidElse ==
  ASSUME NEW s \in Seq(Wires), NEW t \in {"build", "cancel"},
         NEW r \in Refreshes, AsksOnce(s)
  PROVE  /\ Append(s, Refresh!Message(t, r)) \in Seq(Wires)
         /\ AsksOnce(Append(s, Refresh!Message(t, r)))
         /\ \A q : AsksFor(Append(s, Refresh!Message(t, r)), q) =>
                     AsksFor(s, q)
<1> DEFINE m == Refresh!Message(t, r)
<1>1. m \in Wires /\ m.type # "reserve"
  BY DEF Wires, Refresh!Message
<1>2. \A q : Refresh!Message("reserve", q).type = "reserve"
  BY DEF Refresh!Message
<1> HIDE DEF m
<1>3. /\ Append(s, m) \in Seq(Wires) /\ Len(Append(s, m)) = Len(s) + 1
      /\ \A i \in 1..Len(s) : Append(s, m)[i] = s[i]
      /\ Append(s, m)[Len(s) + 1] = m
  BY <1>1
<1>4. AsksOnce(Append(s, m))
  BY <1>1, <1>3 DEF AsksOnce
<1>5. \A q : AsksFor(Append(s, m), q) => AsksFor(s, q)
  BY <1>1, <1>2, <1>3 DEF AsksFor
<1> QED BY <1>3, <1>4, <1>5 DEF m

(* A reservation that was not on its way.                                  *)
LEMMA SaidReserve ==
  ASSUME NEW s \in Seq(Wires), NEW r \in Refreshes, AsksOnce(s),
         ~AsksFor(s, r)
  PROVE  /\ Append(s, Refresh!Message("reserve", r)) \in Seq(Wires)
         /\ AsksOnce(Append(s, Refresh!Message("reserve", r)))
         /\ \A q : AsksFor(Append(s, Refresh!Message("reserve", r)), q) =>
                     AsksFor(s, q) \/ q = r
<1> DEFINE m == Refresh!Message("reserve", r)
<1>1. m \in Wires /\ \A i \in 1..Len(s) : s[i] # m
  BY DEF Wires, Refresh!Message, AsksFor
<1>2. \A q : Refresh!Message("reserve", q) = m => q = r
  BY DEF Refresh!Message
<1> HIDE DEF m
<1>3. /\ Append(s, m) \in Seq(Wires) /\ Len(Append(s, m)) = Len(s) + 1
      /\ \A i \in 1..Len(s) : Append(s, m)[i] = s[i]
      /\ Append(s, m)[Len(s) + 1] = m
  BY <1>1
<1>4. AsksOnce(Append(s, m))
  BY <1>1, <1>3 DEF AsksOnce
<1>5. \A q : AsksFor(Append(s, m), q) => AsksFor(s, q) \/ q = r
  BY <1>2, <1>3 DEF AsksFor
<1> QED BY <1>3, <1>4, <1>5 DEF m

(* The host takes the first message.                                       *)
LEMMA Heard ==
  ASSUME NEW s \in Seq(Wires), s # <<>>, AsksOnce(s)
  PROVE  /\ Tail(s) \in Seq(Wires) /\ AsksOnce(Tail(s))
         /\ \A q : AsksFor(Tail(s), q) => AsksFor(s, q)
         /\ \A q \in Refreshes : Head(s) = Refresh!Message("reserve", q) =>
              AsksFor(s, q) /\ ~AsksFor(Tail(s), q)
<1>1. /\ Tail(s) \in Seq(Wires) /\ Len(Tail(s)) = Len(s) - 1 /\ Len(s) \in Nat
      /\ Len(s) > 0 /\ Head(s) = s[1]
      /\ \A i \in 1..Len(s) - 1 : Tail(s)[i] = s[i + 1] /\ i + 1 \in 1..Len(s)
  OBVIOUS
<1>2. AsksOnce(Tail(s))
  BY <1>1 DEF AsksOnce
<1>3. \A q : AsksFor(Tail(s), q) => AsksFor(s, q)
  BY <1>1 DEF AsksFor
<1>4. ASSUME NEW q \in Refreshes, Head(s) = Refresh!Message("reserve", q)
      PROVE  AsksFor(s, q) /\ ~AsksFor(Tail(s), q)
  <2>1. Refresh!Message("reserve", q).type = "reserve"
    BY DEF Refresh!Message
  <2>2. AsksFor(s, q)
    BY <1>1, <1>4 DEF AsksFor
  <2>3. ASSUME NEW i \in 1..Len(Tail(s)),
               Tail(s)[i] = Refresh!Message("reserve", q)
        PROVE  FALSE
    BY <1>1, <1>4, <2>1, <2>3 DEF AsksOnce
  <2> QED BY <2>2, <2>3 DEF AsksFor
<1> QED BY <1>1, <1>2, <1>3, <1>4

(* What the renderer may say that reserves nothing.                        *)
SaysNoMore(s) ==
  /\ s \in Seq(Wires) /\ AsksOnce(s)
  /\ \A q : AsksFor(s, q) => AsksFor(toHost, q)

LEMMA SaysNothing ==
  ASSUME LeasesInv, NEW r \in Refreshes
  PROVE  /\ SaysNoMore(toHost) /\ SaysNoMore(Refresh!Sent(r))
         /\ SaysNoMore(Append(toHost, Refresh!Message("build", r)))
         /\ SaysNoMore(Append(toHost, Refresh!Message("cancel", r)))
<1>1. /\ SaysNoMore(toHost)
      /\ SaysNoMore(Append(toHost, Refresh!Message("build", r)))
      /\ SaysNoMore(Append(toHost, Refresh!Message("cancel", r)))
  BY SaidElse DEF SaysNoMore, LeasesInv, LeasesTyped
<1> QED BY <1>1 DEF Refresh!Sent

(* A step of the renderer that reserves no lease.                          *)
LEMMA RendererSays ==
  ASSUME LeasesInv, KeepsStarted, SaysNoMore(toHost'),
         UNCHANGED <<lease, revoked>>
  PROVE  LeasesInv'
<1>1. \A q \in Refreshes : AsksFor(toHost', q) => AsksFor(toHost, q)
  BY DEF SaysNoMore
<1>2. \A q \in Refreshes : Refresh!Holds(q)' <=> Refresh!Holds(q)
  BY DEF Refresh!Holds
<1>3. LeasesTyped' /\ InForce' /\ AsksOnce(toHost')
  BY DEF LeasesInv, LeasesTyped, InForce, SaysNoMore
<1>4. NotYet' /\ AskedAfterStart'
  BY <1>1, <1>2 DEF LeasesInv, NotYet, AskedAfterStart, KeepsStarted
<1> QED BY <1>3, <1>4 DEF LeasesInv

LEMMA LeasesStart ==
  ASSUME NewestInv, LeasesInv, NEW r \in Refreshes,
         NEW kind \in {"render", "open"},
         NEW t \in 0..MaxTicket, Refresh!Start(r, kind, t)
  PROVE  LeasesInv'
<1> DEFINE s == IF active = Nobody THEN toHost ELSE Refresh!Sent(active)
<1>1. /\ KeepsStarted /\ refresh'[r].phase # "idle"
      /\ refresh[r].phase = "idle"
  BY NewestStart DEF Refresh!Start
<1>2. /\ toHost' = Append(s, Refresh!Message("reserve", r))
      /\ UNCHANGED <<lease, revoked>>
  BY DEF Refresh!Start, Refresh!host
<1>3. SaysNoMore(s)
  BY SaysNothing DEF NewestInv, RefreshTyped
<1> HIDE DEF s
<1>4. ~AsksFor(s, r)
  BY <1>1, <1>3 DEF SaysNoMore, LeasesInv, AskedAfterStart
<1>5. /\ toHost' \in Seq(Wires) /\ AsksOnce(toHost')
      /\ \A q : AsksFor(toHost', q) => AsksFor(s, q) \/ q = r
  BY <1>2, <1>3, <1>4, SaidReserve DEF SaysNoMore
<1>6. \A q \in Refreshes : Refresh!Holds(q)' <=> Refresh!Holds(q)
  BY <1>2 DEF Refresh!Holds
<1>7. LeasesTyped' /\ InForce'
  BY <1>2, <1>5 DEF LeasesInv, LeasesTyped, InForce
<1>8. \A q \in Refreshes : AsksFor(toHost', q) => AsksFor(toHost, q) \/ q = r
  BY <1>3, <1>5 DEF SaysNoMore
<1>9. NotYet'
  BY <1>1, <1>2, <1>6, <1>8 DEF LeasesInv, NotYet, KeepsStarted
<1>10. AskedAfterStart'
  BY <1>1, <1>8 DEF LeasesInv, AskedAfterStart, KeepsStarted
<1> QED BY <1>5, <1>7, <1>9, <1>10 DEF LeasesInv

(* The lease is closed.                                                    *)
LEMMA LeaseCloses ==
  ASSUME LeasesInv, SaysNoMore(toHost'), UNCHANGED refresh,
         lease' = Nobody, revoked' = Refresh!Revoked
  PROVE  LeasesInv'
<1>1. \A q \in Refreshes : AsksFor(toHost', q) => AsksFor(toHost, q)
  BY DEF SaysNoMore
<1>2. revoked' \subseteq Refreshes
  BY DEF LeasesInv, LeasesTyped, Leases, Refresh!Revoked
<1>3. \A q \in revoked' : q \in revoked \/ Refresh!Holds(q)
  BY DEF Refresh!Revoked, Refresh!Holds
<1>4. LeasesTyped' /\ InForce' /\ AsksOnce(toHost')
  BY <1>2 DEF LeasesInv, LeasesTyped, InForce, SaysNoMore
<1>5. AskedAfterStart'
  BY <1>1 DEF LeasesInv, AskedAfterStart
<1>6. NotYet'
  BY <1>1, <1>3 DEF LeasesInv, NotYet, Refresh!Holds
<1> QED BY <1>4, <1>5, <1>6 DEF LeasesInv

(* The lease of the same refresh, used or not.                             *)
LEMMA LeaseKept ==
  ASSUME LeasesInv, SaysNoMore(toHost'), UNCHANGED <<refresh, revoked>>,
         \/ lease' = lease
         \/ /\ lease # Nobody /\ lease' \in Leases
            /\ lease'.refresh = lease.refresh
  PROVE  LeasesInv'
<1>1. \A q \in Refreshes : AsksFor(toHost', q) => AsksFor(toHost, q)
  BY DEF SaysNoMore
<1>2. \A q \in Refreshes : Refresh!Holds(q)' => Refresh!Holds(q)
  BY DEF Refresh!Holds
<1>3. LeasesTyped' /\ InForce' /\ AsksOnce(toHost')
  BY DEF LeasesInv, LeasesTyped, InForce, SaysNoMore
<1>4. NotYet' /\ AskedAfterStart'
  BY <1>1, <1>2 DEF LeasesInv, NotYet, AskedAfterStart
<1> QED BY <1>3, <1>4 DEF LeasesInv

(* The host's half of a message.                                           *)
LEMMA HostHears ==
  ASSUME LeasesInv, NEW r \in Refreshes, NEW t, Refresh!Handle(t, r)
  PROVE  /\ SaysNoMore(toHost')
         /\ t = "reserve" => AsksFor(toHost, r) /\ ~AsksFor(toHost', r)
<1>1. /\ toHost # <<>> /\ Head(toHost) = Refresh!Message(t, r)
      /\ toHost' = Tail(toHost)
  BY DEF Refresh!Handle
<1> QED BY <1>1, Heard DEF LeasesInv, LeasesTyped, SaysNoMore

LEMMA LeasesReserve ==
  ASSUME LeasesInv, NEW r \in Refreshes, Refresh!HandleReserve(r)
  PROVE  LeasesInv'
<1>1. /\ SaysNoMore(toHost') /\ AsksFor(toHost, r) /\ ~AsksFor(toHost', r)
      /\ UNCHANGED refresh
  BY HostHears DEF Refresh!HandleReserve, Refresh!renderer
<1>2. CASE ~Refresh!Current(r)
  <2>1. UNCHANGED <<lease, revoked>>
    BY <1>2 DEF Refresh!HandleReserve
  <2> QED BY <1>1, <2>1, LeaseKept
<1>3. CASE Refresh!Current(r)
  <2>1. /\ lease' = [refresh |-> r, consumed |-> FALSE]
        /\ revoked' = Refresh!Revoked
    BY <1>3 DEF Refresh!HandleReserve
  <2>2. lease' \in Leases
    BY <2>1 DEF Leases
  <2>3. revoked' \subseteq Refreshes
    BY <2>1 DEF LeasesInv, LeasesTyped, Leases, Refresh!Revoked
  <2>4. \A q \in revoked' : q \in revoked \/ Refresh!Holds(q)
    BY <2>1 DEF Refresh!Revoked, Refresh!Holds
  <2>5. ~Refresh!Holds(r) /\ r \notin revoked /\ refresh[r].phase # "idle"
    BY <1>1 DEF LeasesInv, NotYet, AskedAfterStart
  <2>6. r \notin revoked' /\ lease'.refresh = r
    BY <2>1, <2>4, <2>5
  <2>7. \A q \in Refreshes : AsksFor(toHost', q) =>
          AsksFor(toHost, q) /\ q # r
    BY <1>1 DEF SaysNoMore
  <2>8. NotYet'
    <3>1. ASSUME NEW q \in Refreshes,
                 refresh'[q].phase = "idle" \/ AsksFor(toHost', q)
          PROVE  q # r /\ ~Refresh!Holds(q) /\ q \notin revoked
      BY <1>1, <2>5, <2>7, <3>1 DEF LeasesInv, NotYet
    <3> QED BY <2>4, <2>6, <3>1 DEF NotYet, Refresh!Holds
  <2>9. AskedAfterStart'
    BY <1>1, <2>7 DEF LeasesInv, AskedAfterStart
  <2> QED
    BY <1>1, <2>2, <2>3, <2>6, <2>8, <2>9
    DEF LeasesInv, LeasesTyped, InForce, SaysNoMore
<1> QED BY <1>2, <1>3

LEMMA LeasesHandled ==
  ASSUME LeasesInv, NEW r \in Refreshes,
         \/ Refresh!HandleBuild(r) \/ Refresh!HandleCancel(r)
         \/ Refresh!Finish(r)
  PROVE  /\ LeasesInv'
         /\ \A q \in revoked : /\ q \in building' => q \in building
                               /\ q \in published' => q \in published
<1>1. CASE Refresh!HandleBuild(r)
  <2>1. SaysNoMore(toHost') /\ UNCHANGED <<refresh, revoked, published>>
    BY <1>1, HostHears DEF Refresh!HandleBuild, Refresh!renderer
  <2>2. CASE Refresh!Current(r) /\ Refresh!Claimable(r)
    <3>1. /\ lease # Nobody /\ lease.refresh = r
          /\ lease' = [refresh |-> r, consumed |-> TRUE]
          /\ building' = building \cup {r}
      BY <1>1, <2>2 DEF Refresh!HandleBuild, Refresh!Claimable, Refresh!Holds
    <3>2. lease' \in Leases /\ lease'.refresh = r
      BY <3>1 DEF Leases
    <3>3. r \notin revoked
      BY <3>1 DEF LeasesInv, InForce
    <3> QED BY <2>1, <3>1, <3>2, <3>3, LeaseKept
  <2>3. CASE ~(Refresh!Current(r) /\ Refresh!Claimable(r))
    <3>1. UNCHANGED <<lease, building>>
      BY <1>1, <2>3 DEF Refresh!HandleBuild
    <3> QED BY <2>1, <3>1, LeaseKept
  <2> QED BY <2>2, <2>3
<1>2. CASE Refresh!HandleCancel(r)
  <2>1. SaysNoMore(toHost') /\ UNCHANGED <<refresh, building, published>>
    BY <1>2, HostHears DEF Refresh!HandleCancel, Refresh!renderer
  <2>2. \/ lease' = Nobody /\ revoked' = Refresh!Revoked
        \/ UNCHANGED <<lease, revoked>>
    BY <1>2 DEF Refresh!HandleCancel
  <2> QED BY <2>1, <2>2, LeaseCloses, LeaseKept
<1>3. CASE Refresh!Finish(r)
  <2>1. /\ SaysNoMore(toHost') /\ UNCHANGED refresh
        /\ building' = building \ {r}
        /\ \/ r \notin revoked /\ published' = published \cup {r}
           \/ UNCHANGED published
    BY <1>3, SaysNothing DEF Refresh!Finish, Refresh!renderer
  <2>2. \/ lease' = Nobody /\ revoked' = Refresh!Revoked
        \/ UNCHANGED <<lease, revoked>>
    BY <1>3 DEF Refresh!Finish
  <2> QED BY <2>1, <2>2, LeaseCloses, LeaseKept
<1> QED BY <1>1, <1>2, <1>3

LEMMA LeasesStep ==
  ASSUME NewestInv, LeasesInv, [Refresh!Next]_refreshVars
  PROVE  /\ LeasesInv'
         /\ \A q \in revoked : /\ q \in building' => q \in building
                               /\ q \in published' => q \in published
<1> DEFINE Goal == /\ LeasesInv'
                   /\ \A q \in revoked :
                        /\ q \in building' => q \in building
                        /\ q \in published' => q \in published
<1>0. KeepsStarted
  BY NewestStep
<1>1. ASSUME SaysNoMore(toHost'),
             UNCHANGED <<lease, revoked, building, published>>
      PROVE  Goal
  BY <1>0, <1>1, RendererSays
<1>2. ASSUME UNCHANGED <<toHost, lease, revoked, building, published>>
      PROVE  Goal
  BY <1>1, <1>2 DEF SaysNoMore, LeasesInv, LeasesTyped
<1>3. ASSUME Refresh!Advance PROVE Goal
  BY <1>2, <1>3 DEF Refresh!Advance
<1>4. ASSUME Refresh!Expire PROVE Goal
  BY <1>4, LeaseCloses
  DEF Refresh!Expire, Refresh!renderer, SaysNoMore, LeasesInv, LeasesTyped
<1>5. ASSUME NEW r \in Refreshes, NEW kind \in {"render", "open"},
             NEW t \in 0..MaxTicket, Refresh!Start(r, kind, t)
      PROVE  Goal
  BY <1>5, LeasesStart DEF Refresh!Start, Refresh!host
<1>6. ASSUME NEW r \in Refreshes,
             \/ Refresh!Deadline(r) \/ Refresh!Abort(r)
             \/ Refresh!HearReserved(r) \/ Refresh!HearRefused(r)
             \/ Refresh!HearBuilt(r)
      PROVE  Goal
  <2>1. UNCHANGED <<lease, revoked, building, published>>
    BY <1>6
    DEF Refresh!Deadline, Refresh!Abort, Refresh!HearReserved,
        Refresh!HearRefused, Refresh!HearBuilt, Refresh!host
  <2>2. \/ toHost' = Refresh!Sent(r)
        \/ toHost' = Append(toHost, Refresh!Message("build", r))
        \/ toHost' = Append(toHost, Refresh!Message("cancel", r))
    BY <1>6
    DEF Refresh!Deadline, Refresh!Abort, Refresh!HearReserved,
        Refresh!HearRefused, Refresh!HearBuilt, Refresh!Reserved
  <2> HIDE DEF Goal
  <2> QED BY <1>1, <2>1, <2>2, SaysNothing
<1>7. ASSUME NEW r \in Refreshes,
             \/ Refresh!FrameReady(r) \/ Refresh!FrameRendered(r)
             \/ Refresh!PresentationFails(r) \/ Refresh!Accept(r)
      PROVE  Goal
  BY <1>2, <1>7
  DEF Refresh!FrameReady, Refresh!FrameRendered, Refresh!PresentationFails,
      Refresh!Accept, Refresh!host
<1>8. ASSUME NEW r \in Refreshes, Refresh!HandleReserve(r) PROVE Goal
  BY <1>8, LeasesReserve DEF Refresh!HandleReserve
<1>9. ASSUME NEW r \in Refreshes,
             \/ Refresh!HandleBuild(r) \/ Refresh!HandleCancel(r)
             \/ Refresh!Finish(r)
      PROVE  Goal
  BY <1>9, LeasesHandled
<1>10. ASSUME UNCHANGED refreshVars PROVE Goal
  BY <1>2, <1>10 DEF refreshVars
<1> HIDE DEF Goal
<1>11. Goal
  BY <1>3, <1>4, <1>5, <1>6, <1>7, <1>8, <1>9, <1>10 DEF Refresh!Next
<1> QED BY <1>11 DEF Goal

(* Once the host has closed a lease, a build held up on its way neither    *)
(* starts under it nor is published: a refresh asks for one lease, so the  *)
(* one in force is never one that was closed (PreviewBuildLeaseAuthority). *)
THEOREM NothingIsBuiltAfterClose == Refresh!Spec => NoBuildAfterClose
<1>1. Refresh!Init => NewestInv /\ LeasesInv
  BY NewestBegin, LeasesBegin
<1>2. ASSUME [Refresh!Next]_(Refresh!vars)
      PROVE  [Refresh!Next]_refreshVars
  BY <1>2 DEF refreshVars, Refresh!vars, Refresh!renderer, Refresh!host
<1>3. NewestInv /\ LeasesInv /\ [Refresh!Next]_(Refresh!vars) =>
        (NewestInv /\ LeasesInv)'
  BY <1>2, NewestStep, LeasesStep
<1>4. NewestInv /\ LeasesInv /\ [Refresh!Next]_(Refresh!vars) =>
        [\A r \in revoked : /\ r \in building' => r \in building
                            /\ r \in published' => r \in published
        ]_(Refresh!vars)
  BY <1>2, LeasesStep
<1> QED BY <1>1, <1>3, <1>4, PTL DEF Refresh!Spec, NoBuildAfterClose,
       Refresh!NoBuildAfterClose

-----------------------------------------------------------------------------
(* Who waits for a refresh.                                                *)

(* The refresh that presents is the pending one, and nothing is pending    *)
(* while an open compiles.                                                 *)
PresentingIsPending ==
  \A q \in Refreshes :
    refresh[q].phase = "presenting" => Refresh!PendingOf(q)
OpenAlone ==
  \A q \in Refreshes :
    refresh[q].phase = "compiling" /\ refresh[q].kind = "open" =>
      pending = Nobody
PresentingInv == PresentingIsPending /\ OpenAlone

LEMMA PresentingBegins == Refresh!Init => PresentingInv
BY DEF Refresh!Init, PresentingInv, PresentingIsPending, OpenAlone

(* A refresh that neither compiles nor presents any more.                  *)
LEMMA PresentingSettles ==
  ASSUME PresentingInv, NEW r \in Refreshes,
         refresh'[r].phase \notin {"compiling", "presenting"},
         \A q \in Refreshes : q # r => refresh'[q] = refresh[q],
         \/ pending' = pending
         \/ pending' = Nobody /\ (pending = Nobody \/ Refresh!PendingOf(r))
  PROVE  PresentingInv'
<1>1. \A q \in Refreshes :
        refresh'[q].phase = "presenting" => Refresh!PendingOf(q)'
  BY DEF PresentingInv, PresentingIsPending, Refresh!PendingOf
<1>2. \A q \in Refreshes :
        refresh'[q].phase = "compiling" /\ refresh'[q].kind = "open" =>
          pending' = Nobody
  BY DEF PresentingInv, OpenAlone
<1> QED BY <1>1, <1>2 DEF PresentingInv, PresentingIsPending, OpenAlone

LEMMA PresentingStays ==
  ASSUME PresentingInv, UNCHANGED <<refresh, pending>>
  PROVE  PresentingInv'
BY DEF PresentingInv, PresentingIsPending, OpenAlone, Refresh!PendingOf

LEMMA PresentingStart ==
  ASSUME NewestInv, PresentingInv, NEW r \in Refreshes,
         NEW kind \in {"render", "open"},
         NEW t \in 0..MaxTicket, Refresh!Start(r, kind, t)
  PROVE  PresentingInv'
<1> DEFINE new == [phase |-> "compiling", kind |-> kind, ticket |-> t,
                   aborted |-> FALSE]
           closed == IF kind = "open" /\ pending # Nobody
                     THEN {pending.refresh} ELSE {}
           x(q) == CASE q = r -> new
                     [] q # r /\ q = active -> Refresh!AbortedRefresh(q)
                     [] q # r /\ q # active /\ q \in closed ->
                          [refresh[q] EXCEPT !.phase = "failed"]
                     [] OTHER -> refresh[q]
<1>0. RefreshTyped
  BY DEF NewestInv
<1>1. refresh' = [q \in Refreshes |-> x(q)]
  BY Zenon DEF Refresh!Start
<1>2. /\ active' = r
      /\ pending' = IF (active # Nobody /\ Refresh!PendingOf(active))
                       \/ kind = "open"
                    THEN Nobody ELSE pending
  BY DEF Refresh!Start
<1>3. refresh'[r] = new
  BY <1>1
<1>4. ASSUME NEW q \in Refreshes, refresh'[q].phase = "presenting"
      PROVE  /\ q # active /\ q \notin closed
             /\ refresh[q].phase = "presenting"
  <2>1. q # r /\ refresh'[q] = x(q)
    BY <1>1, <1>3, <1>4
  <2>2. ASSUME q = active PROVE FALSE
    <3>1. x(q) = Refresh!AbortedRefresh(q)
      BY <2>1, <2>2
    <3> HIDE DEF x
    <3> QED BY <1>0, <1>4, <2>1, <3>1, RefreshAborts
  <2>3. ASSUME q # active, q \in closed PROVE FALSE
    <3> DEFINE y == [refresh[q] EXCEPT !.phase = "failed"]
    <3>1. y.phase = "failed"
      BY <1>0 DEF RefreshTyped, RefreshStates
    <3>2. x(q) = y
      BY <2>1, <2>3
    <3> HIDE DEF x, y
    <3> QED BY <1>4, <2>1, <3>1, <3>2
  <2>4. x(q) = refresh[q]
    BY <2>1, <2>2, <2>3
  <2> HIDE DEF x, closed
  <2> QED BY <1>4, <2>1, <2>2, <2>3, <2>4
<1>5. ASSUME NEW q \in Refreshes, refresh'[q].phase = "presenting"
      PROVE  Refresh!PendingOf(q)'
  <2>1. pending # Nobody /\ pending.refresh = q
    BY <1>4, <1>5
    DEF PresentingInv, PresentingIsPending, Refresh!PendingOf
  <2>2. kind # "open" /\ q # active
    BY <1>4, <1>5, <2>1
  <2>3. pending' = pending
    BY <1>2, <2>1, <2>2 DEF Refresh!PendingOf
  <2> QED BY <2>1, <2>3 DEF Refresh!PendingOf
<1> HIDE DEF x, closed
<1>6. \A q \in Refreshes : refresh'[q].phase = "compiling" => q = r
  BY <1>2, NewestStart DEF NewestInv, CompilingIsActive
<1>7. kind = "open" => pending' = Nobody
  BY <1>2
<1>8. refresh'[r].kind = kind
  BY <1>3
<1> QED
  BY <1>5, <1>6, <1>7, <1>8 DEF PresentingInv, PresentingIsPending, OpenAlone

LEMMA PresentingBuilt ==
  ASSUME NewestInv, PresentingInv, NEW r \in Refreshes, Refresh!HearBuilt(r)
  PROVE  PresentingInv'
<1>0. RefreshTyped
  BY DEF NewestInv
<1>1. CASE refresh[r].phase # "compiling"
  BY <1>1, PresentingStays DEF Refresh!HearBuilt
<1>2. CASE refresh[r].phase = "compiling" /\ refresh[r].kind = "open"
  <2>1. refresh' = [refresh EXCEPT ![r].phase = "shown"] /\ pending' = pending
    BY <1>2 DEF Refresh!HearBuilt, Refresh!OpenFrame
  <2> QED BY <1>0, <2>1, PhaseSet, PresentingSettles DEF Refresh!Phases
<1>3. CASE refresh[r].phase = "compiling" /\ refresh[r].kind # "open"
  <2> DEFINE x(q) == CASE q = r -> [refresh[r] EXCEPT !.phase = "presenting"]
                       [] q # r /\ Refresh!PendingOf(q) ->
                            [refresh[q] EXCEPT !.phase = "failed"]
                       [] OTHER -> refresh[q]
  <2>1. /\ refresh' = [q \in Refreshes |-> x(q)]
        /\ pending' = [refresh |-> r, ready |-> FALSE]
    BY <1>3, Zenon DEF Refresh!HearBuilt, Refresh!Present
  <2>2. pending' # Nobody /\ pending'.refresh = r
    <3>1. [refresh |-> r, ready |-> FALSE] \in
            [refresh : Refreshes, ready : BOOLEAN]
      OBVIOUS
    <3> QED BY <2>1, <3>1, PresentationsAssumption
  <2>3. ASSUME NEW q \in Refreshes, q # r, refresh'[q].phase = "presenting"
        PROVE  FALSE
    <3>1. CASE Refresh!PendingOf(q)
      <4> DEFINE y == [refresh[q] EXCEPT !.phase = "failed"]
      <4>1. y.phase = "failed"
        BY <1>0 DEF RefreshTyped, RefreshStates
      <4>2. refresh'[q] = y
        BY <2>1, <2>3, <3>1
      <4> HIDE DEF x, y
      <4> QED BY <2>3, <4>1, <4>2
    <3>2. CASE ~Refresh!PendingOf(q)
      <4>1. refresh'[q] = refresh[q]
        BY <2>1, <2>3, <3>2
      <4> QED BY <2>3, <3>2, <4>1 DEF PresentingInv, PresentingIsPending
    <3> QED BY <3>1, <3>2
  <2> HIDE DEF x
  <2>4. active = r /\ active' = active
    BY <1>3
    DEF NewestInv, CompilingIsActive, Refresh!HearBuilt, Refresh!Present
  <2>5. ASSUME NEW q \in Refreshes, refresh'[q].phase = "compiling"
        PROVE  FALSE
    <3>1. q = r
      BY <2>4, <2>5, NewestBuilt DEF NewestInv, CompilingIsActive
    <3>2. refresh'[r].phase = "presenting"
      BY <1>0, <2>1 DEF RefreshTyped, RefreshStates, x
    <3> QED BY <2>5, <3>1, <3>2
  <2> QED
    BY <2>2, <2>3, <2>5
    DEF PresentingInv, PresentingIsPending, OpenAlone, Refresh!PendingOf
<1> QED BY <1>1, <1>2, <1>3

LEMMA PresentingStep ==
  ASSUME NewestInv, PresentingInv, [Refresh!Next]_refreshVars
  PROVE  PresentingInv'
<1>0. RefreshTyped
  BY DEF NewestInv
<1>1. ASSUME UNCHANGED <<refresh, pending>> PROVE PresentingInv'
  BY <1>1, PresentingStays
<1>2. ASSUME Refresh!Advance \/ Refresh!Expire PROVE PresentingInv'
  BY <1>1, <1>2 DEF Refresh!Advance, Refresh!Expire, Refresh!renderer
<1>3. ASSUME NEW r \in Refreshes,
             \/ Refresh!HandleReserve(r) \/ Refresh!HandleBuild(r)
             \/ Refresh!HandleCancel(r) \/ Refresh!Finish(r)
             \/ Refresh!HearReserved(r)
      PROVE  PresentingInv'
  BY <1>1, <1>3
  DEF Refresh!HandleReserve, Refresh!HandleBuild, Refresh!HandleCancel,
      Refresh!Finish, Refresh!HearReserved, Refresh!renderer
<1>4. ASSUME NEW r \in Refreshes, refresh[r].phase = "compiling",
             Refresh!Fail(r), Refresh!GiveUp(r)
      PROVE  PresentingInv'
  <2>1. \/ pending' = pending
        \/ pending' = Nobody /\ pending = Nobody
    BY <1>4 DEF Refresh!GiveUp, PresentingInv, OpenAlone
  <2> QED
    BY <1>0, <1>4, <2>1, PhaseSet, PresentingSettles
    DEF Refresh!Fail, Refresh!Phases
<1>5. ASSUME NEW r \in Refreshes, Refresh!Deadline(r) PROVE PresentingInv'
  BY <1>4, <1>5 DEF Refresh!Deadline
<1>6. ASSUME NEW r \in Refreshes, Refresh!HearRefused(r) PROVE PresentingInv'
  BY <1>1, <1>4, <1>6 DEF Refresh!HearRefused
<1>7. ASSUME NEW r \in Refreshes, NEW p \in {"retargeting", "shown", "failed"},
             refresh' = [refresh EXCEPT ![r].phase = p],
             \/ pending' = pending
             \/ pending' = Nobody /\ Refresh!PendingOf(r)
      PROVE  PresentingInv'
  BY <1>0, <1>7, PhaseSet, PresentingSettles DEF Refresh!Phases
<1>8. ASSUME NEW r \in Refreshes,
             \/ Refresh!FrameRendered(r) \/ Refresh!PresentationFails(r)
             \/ Refresh!Accept(r)
      PROVE  PresentingInv'
  <2>1. CASE Refresh!FrameRendered(r)
    BY <1>7, <2>1 DEF Refresh!FrameRendered
  <2>2. CASE Refresh!PresentationFails(r)
    BY <1>7, <2>2 DEF Refresh!PresentationFails, Refresh!Fail
  <2>3. CASE Refresh!Accept(r)
    BY <1>7, <2>3 DEF Refresh!Accept, Refresh!Fail
  <2> QED BY <1>8, <2>1, <2>2, <2>3
<1>9. ASSUME NEW r \in Refreshes, Refresh!FrameReady(r) PROVE PresentingInv'
  <2>1. /\ pending # Nobody /\ pending.refresh = r
        /\ pending' = [pending EXCEPT !.ready = TRUE]
        /\ UNCHANGED refresh
    BY <1>9 DEF Refresh!FrameReady, Refresh!PendingOf
  <2>2. pending' \in Presentations /\ pending'.refresh = r
    BY <1>0, <2>1 DEF RefreshTyped, Presentations
  <2>3. pending' # Nobody
    BY <2>2, PresentationsAssumption DEF Presentations
  <2> QED
    BY <2>1, <2>2, <2>3
    DEF PresentingInv, PresentingIsPending, OpenAlone, Refresh!PendingOf
<1>10. ASSUME NEW r \in Refreshes, Refresh!Abort(r) PROVE PresentingInv'
  <2> DEFINE x == Refresh!AbortedRefresh(r)
  <2>1. /\ refresh' = [refresh EXCEPT ![r] = x]
        /\ \/ pending' = pending
           \/ pending' = Nobody /\ Refresh!PendingOf(r)
    BY <1>10 DEF Refresh!Abort
  <2>2. x.phase \notin {"compiling", "presenting"}
    BY <1>0, RefreshAborts
  <2> HIDE DEF x
  <2>3. /\ refresh'[r] = x
        /\ \A q \in Refreshes : q # r => refresh'[q] = refresh[q]
    BY <1>0, <2>1 DEF RefreshTyped
  <2> QED BY <2>1, <2>2, <2>3, PresentingSettles
<1>11. ASSUME NEW r \in Refreshes, NEW kind \in {"render", "open"},
              NEW t \in 0..MaxTicket, Refresh!Start(r, kind, t)
       PROVE  PresentingInv'
  BY <1>11, PresentingStart
<1>12. ASSUME NEW r \in Refreshes, Refresh!HearBuilt(r) PROVE PresentingInv'
  BY <1>12, PresentingBuilt
<1>13. ASSUME UNCHANGED refreshVars PROVE PresentingInv'
  BY <1>1, <1>13 DEF refreshVars
<1> QED
  BY <1>2, <1>3, <1>5, <1>6, <1>8, <1>9, <1>10, <1>11, <1>12, <1>13
  DEF Refresh!Next

(* What is on its way, and the lease of a call that still has to hear.     *)
Said(s, m) == \E i \in 1..Len(s) : s[i] = m
ToHost(t, r) == Said(toHost, Refresh!Message(t, r))
ToRenderer(t, r) == Said(toRenderer, Refresh!Message(t, r))
Replies == {"reserved", "refused", "built"}
ReplyWires == [type : Replies, refresh : Refreshes]

WiresTyped ==
  /\ toRenderer \in Seq(ReplyWires)
  /\ wire \in [Refreshes -> {"none", "reserving", "building"}]

(* Nothing was said of a refresh: no reply, and no request for its build.  *)
NoReply(r) == \A t \in Replies : ~ToRenderer(t, r)
NoBuild(r) == r \notin building /\ ~ToHost("build", r)

(* Nothing is said of a refresh before it starts; one that waits for its   *)
(* reservation has asked for no build, and if it was refused it holds no   *)
(* lease; while its request is on its way it waits, and has no reply.      *)
SilentWhileIdle ==
  \A q \in Refreshes : refresh[q].phase = "idle" => NoReply(q) /\ NoBuild(q)
ReservingFirst ==
  \A q \in Refreshes : wire[q] = "reserving" =>
    NoBuild(q) /\ (ToRenderer("refused", q) => ~Refresh!Holds(q))
AskedWaits ==
  \A q \in Refreshes : ToHost("reserve", q) =>
    wire[q] = "reserving" /\ NoReply(q)
LeaseIsMissed ==
  \A q \in Refreshes : Refresh!Holds(q) =>
    wire[q] # "none" \/ ToHost("cancel", q)

WaitingInv ==
  WiresTyped /\ SilentWhileIdle /\ ReservingFirst /\ AskedWaits
    /\ LeaseIsMissed

LEMMA WaitingBegins == Refresh!Init => WaitingInv
<1> SUFFICES ASSUME Refresh!Init PROVE WaitingInv
  OBVIOUS
<1>1. /\ toHost = <<>> /\ toRenderer = <<>> /\ lease = Nobody /\ building = {}
      /\ wire = [r \in Refreshes |-> "none"]
  BY DEF Refresh!Init
<1>2. \A m : ~Said(toHost, m) /\ ~Said(toRenderer, m)
  BY <1>1 DEF Said
<1> QED
  BY <1>1, <1>2
  DEF WaitingInv, WiresTyped, SilentWhileIdle, ReservingFirst, AskedWaits,
      LeaseIsMissed, NoReply, NoBuild, ToHost, ToRenderer, Refresh!Holds

LEMMA SaidMore ==
  ASSUME NEW S, NEW s \in Seq(S), NEW m \in S
  PROVE  /\ Append(s, m) \in Seq(S)
         /\ \A x : Said(Append(s, m), x) <=> Said(s, x) \/ x = m
<1>1. /\ Append(s, m) \in Seq(S) /\ Len(Append(s, m)) = Len(s) + 1
      /\ \A i \in 1..Len(s) : Append(s, m)[i] = s[i]
      /\ Append(s, m)[Len(s) + 1] = m /\ Len(s) \in Nat
  OBVIOUS
<1>2. \A i \in 1..Len(s) + 1 : i \in 1..Len(s) \/ i = Len(s) + 1
  BY <1>1
<1>3. ASSUME NEW x, Said(Append(s, m), x) PROVE Said(s, x) \/ x = m
  BY <1>1, <1>2, <1>3 DEF Said
<1>4. ASSUME NEW x, Said(s, x) \/ x = m PROVE Said(Append(s, m), x)
  BY <1>1, <1>4 DEF Said
<1> QED BY <1>1, <1>3, <1>4

LEMMA SaidLess ==
  ASSUME NEW S, NEW s \in Seq(S), s # <<>>
  PROVE  /\ Tail(s) \in Seq(S) /\ Head(s) \in S /\ Said(s, Head(s))
         /\ \A x : Said(Tail(s), x) => Said(s, x)
         /\ \A x : Said(s, x) => x = Head(s) \/ Said(Tail(s), x)
<1>1. /\ Tail(s) \in Seq(S) /\ Len(Tail(s)) = Len(s) - 1 /\ Len(s) \in Nat
      /\ Len(s) > 0 /\ Head(s) = s[1] /\ Head(s) \in S
      /\ \A i \in 1..Len(s) - 1 : Tail(s)[i] = s[i + 1] /\ i + 1 \in 1..Len(s)
  OBVIOUS
<1>2. \A i \in 1..Len(s) : i = 1 \/ (i - 1 \in 1..Len(s) - 1 /\ i - 1 + 1 = i)
  BY <1>1
<1>3. ASSUME NEW x, Said(Tail(s), x) PROVE Said(s, x)
  BY <1>1, <1>3 DEF Said
<1>4. ASSUME NEW x, Said(s, x) PROVE x = Head(s) \/ Said(Tail(s), x)
  <2>1. PICK i \in 1..Len(s) : s[i] = x
    BY <1>4 DEF Said
  <2>2. CASE i = 1
    BY <1>1, <2>1, <2>2
  <2>3. CASE i # 1
    BY <1>1, <1>2, <2>1, <2>3 DEF Said
  <2> QED BY <2>2, <2>3
<1>5. Said(s, Head(s))
  BY <1>1 DEF Said
<1> QED BY <1>1, <1>3, <1>4, <1>5

(* Two messages are one if they say the same of the same refresh.          *)
LEMMA OneMessage ==
  ASSUME NEW t, NEW u, NEW q, NEW r
  PROVE  Refresh!Message(t, q) = Refresh!Message(u, r) <=> t = u /\ q = r
BY DEF Refresh!Message

(* The renderer says one thing more to the host.                           *)
LEMMA HostIsTold ==
  ASSUME LeasesInv, NEW t \in {"reserve", "build", "cancel"},
         NEW r \in Refreshes, toHost' = Append(toHost, Refresh!Message(t, r))
  PROVE  \A u, q : ToHost(u, q)' <=> ToHost(u, q) \/ (u = t /\ q = r)
<1>1. Refresh!Message(t, r) \in Wires /\ toHost \in Seq(Wires)
  BY DEF Refresh!Message, Wires, LeasesInv, LeasesTyped
<1>2. \A x : Said(toHost', x) <=> Said(toHost, x) \/ x = Refresh!Message(t, r)
  BY <1>1, SaidMore
<1> QED BY <1>2, OneMessage DEF ToHost

(* It cancels the lease if it knows of one.                                *)
LEMMA HostIsToldOff ==
  ASSUME LeasesInv, NEW r \in Refreshes, toHost' = Refresh!Sent(r)
  PROVE  /\ \A u, q : ToHost(u, q)' <=>
              \/ ToHost(u, q)
              \/ u = "cancel" /\ q = r /\ wire[r] = "building"
<1>1. CASE wire[r] = "building"
  BY <1>1, HostIsTold DEF Refresh!Sent, Refresh!CancelsLease
<1>2. CASE wire[r] # "building"
  BY <1>2 DEF Refresh!Sent, Refresh!CancelsLease, ToHost
<1> QED BY <1>1, <1>2

(* The host takes a message.                                               *)
LEMMA HostTakes ==
  ASSUME LeasesInv, NEW t, NEW r, Refresh!Handle(t, r)
  PROVE  /\ ToHost(t, r)
         /\ \A u, q : ToHost(u, q)' => ToHost(u, q)
         /\ \A u, q : ToHost(u, q) => ToHost(u, q)' \/ (u = t /\ q = r)
<1>1. /\ toHost # <<>> /\ toHost \in Seq(Wires)
      /\ Head(toHost) = Refresh!Message(t, r) /\ toHost' = Tail(toHost)
  BY DEF Refresh!Handle, LeasesInv, LeasesTyped
<1>2. /\ Said(toHost, Refresh!Message(t, r))
      /\ \A x : Said(toHost', x) => Said(toHost, x)
      /\ \A x : Said(toHost, x) => x = Refresh!Message(t, r) \/ Said(toHost', x)
  BY <1>1, SaidLess
<1> QED BY <1>2, OneMessage DEF ToHost

(* The host replies.                                                       *)
LEMMA RendererIsTold ==
  ASSUME WiresTyped, NEW t \in Replies, NEW r \in Refreshes,
         Refresh!Reply(t, r)
  PROVE  /\ toRenderer' \in Seq(ReplyWires)
         /\ \A u, q : ToRenderer(u, q)' <=>
              ToRenderer(u, q) \/ (u = t /\ q = r)
<1>1. /\ Refresh!Message(t, r) \in ReplyWires /\ toRenderer \in Seq(ReplyWires)
      /\ toRenderer' = Append(toRenderer, Refresh!Message(t, r))
  BY DEF Refresh!Message, ReplyWires, WiresTyped, Refresh!Reply
<1>2. /\ toRenderer' \in Seq(ReplyWires)
      /\ \A x : Said(toRenderer', x) <=>
           Said(toRenderer, x) \/ x = Refresh!Message(t, r)
  BY <1>1, SaidMore
<1> QED BY <1>2, OneMessage DEF ToRenderer

(* The renderer takes a reply: the refresh has started, and its            *)
(* reservation is not on its way any more.                                 *)
LEMMA RendererTakes ==
  ASSUME WaitingInv, NEW t \in Replies, NEW r \in Refreshes,
         toRenderer # <<>>, Head(toRenderer) = Refresh!Message(t, r),
         toRenderer' = Tail(toRenderer)
  PROVE  /\ toRenderer' \in Seq(ReplyWires)
         /\ ToRenderer(t, r)
         /\ \A u, q : ToRenderer(u, q)' => ToRenderer(u, q)
         /\ refresh[r].phase # "idle" /\ ~ToHost("reserve", r)
<1>1. toRenderer \in Seq(ReplyWires)
  BY DEF WaitingInv, WiresTyped
<1>2. /\ toRenderer' \in Seq(ReplyWires)
      /\ Said(toRenderer, Refresh!Message(t, r))
      /\ \A x : Said(toRenderer', x) => Said(toRenderer, x)
  BY <1>1, SaidLess
<1>3. ToRenderer(t, r) /\ \A u, q : ToRenderer(u, q)' => ToRenderer(u, q)
  BY <1>2 DEF ToRenderer
<1>4. refresh[r].phase # "idle" /\ ~ToHost("reserve", r)
  BY <1>3 DEF WaitingInv, SilentWhileIdle, AskedWaits, NoReply
<1> QED BY <1>2, <1>3, <1>4

(* A step that says nothing new to either side, but for a cancellation.    *)
LEMMA WaitingStays ==
  ASSUME WaitingInv, KeepsStarted, UNCHANGED <<wire, toRenderer, building>>,
         \A u, q : ToHost(u, q) => ToHost(u, q)',
         \A u, q : ToHost(u, q)' => ToHost(u, q) \/ u = "cancel",
         \A q \in Refreshes : Refresh!Holds(q)' => Refresh!Holds(q)
  PROVE  WaitingInv'
<1>1. \A u, q : ToRenderer(u, q)' <=> ToRenderer(u, q)
  BY DEF ToRenderer
<1>2. \A q : NoReply(q) => NoReply(q)'
  BY <1>1 DEF NoReply
<1>3. \A q : NoBuild(q) => NoBuild(q)'
  BY DEF NoBuild
<1>4. WiresTyped' /\ SilentWhileIdle'
  BY <1>2, <1>3 DEF WaitingInv, WiresTyped, SilentWhileIdle, KeepsStarted
<1>5. ReservingFirst'
  BY <1>1, <1>3 DEF WaitingInv, ReservingFirst
<1>6. AskedWaits' /\ LeaseIsMissed'
  BY <1>2 DEF WaitingInv, AskedWaits, LeaseIsMissed
<1> QED BY <1>4, <1>5, <1>6 DEF WaitingInv

LEMMA WaitingStart ==
  ASSUME NewestInv, LeasesInv, WaitingInv, NEW r \in Refreshes,
         NEW kind \in {"render", "open"},
         NEW t \in 0..MaxTicket, Refresh!Start(r, kind, t)
  PROVE  WaitingInv'
<1> DEFINE s == IF active = Nobody THEN toHost ELSE Refresh!Sent(active)
<1>1. /\ KeepsStarted /\ refresh'[r].phase # "idle"
      /\ refresh[r].phase = "idle"
  BY NewestStart DEF Refresh!Start
<1>2. /\ toHost' = Append(s, Refresh!Message("reserve", r))
      /\ wire' = [wire EXCEPT ![r] = "reserving"]
      /\ UNCHANGED <<toRenderer, lease, building>>
  BY DEF Refresh!Start, Refresh!host
<1>3. /\ s \in Seq(Wires)
      /\ \A x : Said(toHost, x) => Said(s, x)
      /\ \A x : Said(s, x) => Said(toHost, x)
                  \/ \E q : x = Refresh!Message("cancel", q)
  <2>1. CASE s = toHost
    BY <2>1 DEF LeasesInv, LeasesTyped
  <2>2. CASE s # toHost
    <3>1. /\ active \in Refreshes
          /\ s = Append(toHost, Refresh!Message("cancel", active))
      BY <2>2 DEF Refresh!Sent, NewestInv, RefreshTyped
    <3>2. toHost \in Seq(Wires) /\ Refresh!Message("cancel", active) \in Wires
      BY <3>1 DEF LeasesInv, LeasesTyped, Wires, Refresh!Message
    <3> HIDE DEF s
    <3> QED BY <3>1, <3>2, SaidMore
  <2> QED BY <2>1, <2>2
<1> HIDE DEF s
<1>4. \A x :
        Said(toHost', x) <=> Said(s, x) \/ x = Refresh!Message("reserve", r)
  <2>1. Refresh!Message("reserve", r) \in Wires
    BY DEF Refresh!Message, Wires
  <2> QED BY <1>2, <1>3, <2>1, SaidMore
<1>5. /\ \A u, q : ToHost(u, q) => ToHost(u, q)'
      /\ \A u, q : ToHost(u, q)' =>
           ToHost(u, q) \/ u = "cancel" \/ (u = "reserve" /\ q = r)
  BY <1>3, <1>4, OneMessage DEF ToHost
<1>6. /\ \A u, q : ToRenderer(u, q)' <=> ToRenderer(u, q)
      /\ \A q : Refresh!Holds(q)' <=> Refresh!Holds(q)
  BY <1>2 DEF ToRenderer, Refresh!Holds
<1>7. /\ \A q : NoReply(q) => NoReply(q)'
      /\ \A q : NoBuild(q) => NoBuild(q)'
  BY <1>2, <1>5, <1>6 DEF NoReply, NoBuild
<1>8. /\ wire' \in [Refreshes -> {"none", "reserving", "building"}]
      /\ wire'[r] = "reserving"
      /\ \A q \in Refreshes : q # r => wire'[q] = wire[q]
  BY <1>2 DEF WaitingInv, WiresTyped
<1>9. NoReply(r) /\ NoBuild(r)
  BY <1>1 DEF WaitingInv, SilentWhileIdle
<1>10. WiresTyped' /\ SilentWhileIdle'
  BY <1>1, <1>2, <1>7, <1>8
  DEF WaitingInv, WiresTyped, SilentWhileIdle, KeepsStarted
<1>11. ReservingFirst'
  <2>1. ~ToRenderer("refused", r)
    BY <1>9 DEF NoReply, Replies
  <2> QED BY <1>6, <1>7, <1>8, <1>9, <2>1 DEF WaitingInv, ReservingFirst
<1>12. AskedWaits'
  BY <1>5, <1>7, <1>8, <1>9 DEF WaitingInv, AskedWaits
<1>13. LeaseIsMissed'
  BY <1>5, <1>6, <1>8 DEF WaitingInv, LeaseIsMissed
<1> QED BY <1>10, <1>11, <1>12, <1>13 DEF WaitingInv

(* The renderer hears a reply: its call goes on, or ends.                  *)
LEMMA WaitingHears ==
  ASSUME WaitingInv, KeepsStarted, NEW t \in Replies, NEW r \in Refreshes,
         toRenderer # <<>>, Head(toRenderer) = Refresh!Message(t, r),
         toRenderer' = Tail(toRenderer),
         NEW w \in {"none", "building"}, wire' = [wire EXCEPT ![r] = w],
         UNCHANGED <<lease, building>>,
         \A u, q : ToHost(u, q) => ToHost(u, q)',
         \A u, q : ToHost(u, q)' => \/ ToHost(u, q) \/ u = "cancel"
                                    \/ (u = "build" /\ q = r),
         w = "none" => ToHost("cancel", r)' \/ ~Refresh!Holds(r)
  PROVE  WaitingInv'
<1>1. /\ toRenderer' \in Seq(ReplyWires)
      /\ \A u, q : ToRenderer(u, q)' => ToRenderer(u, q)
      /\ refresh[r].phase # "idle" /\ ~ToHost("reserve", r)
  BY RendererTakes
<1>2. \A q : Refresh!Holds(q)' <=> Refresh!Holds(q)
  BY DEF Refresh!Holds
<1>3. /\ wire' \in [Refreshes -> {"none", "reserving", "building"}]
      /\ wire'[r] = w
      /\ \A q \in Refreshes : q # r => wire'[q] = wire[q]
  BY DEF WaitingInv, WiresTyped
<1>4. /\ \A q : NoReply(q) => NoReply(q)'
      /\ \A q : q # r /\ NoBuild(q) => NoBuild(q)'
  BY <1>1 DEF NoReply, NoBuild
<1>5. refresh'[r].phase # "idle"
  BY <1>1 DEF KeepsStarted
<1>6. WiresTyped' /\ SilentWhileIdle'
  BY <1>1, <1>3, <1>4, <1>5
  DEF WaitingInv, WiresTyped, SilentWhileIdle, KeepsStarted
<1>7. ReservingFirst'
  BY <1>1, <1>2, <1>3, <1>4 DEF WaitingInv, ReservingFirst
<1>8. AskedWaits'
  BY <1>1, <1>3, <1>4 DEF WaitingInv, AskedWaits
<1>9. LeaseIsMissed'
  BY <1>2, <1>3 DEF WaitingInv, LeaseIsMissed
<1> QED BY <1>6, <1>7, <1>8, <1>9 DEF WaitingInv

LEMMA WaitingRenderer ==
  ASSUME NewestInv, LeasesInv, WaitingInv, KeepsStarted, NEW r \in Refreshes,
         \/ Refresh!HearReserved(r) \/ Refresh!HearRefused(r)
         \/ Refresh!HearBuilt(r) \/ Refresh!Deadline(r) \/ Refresh!Abort(r)
  PROVE  WaitingInv'
<1>1. CASE Refresh!HearReserved(r)
  <2>1. /\ toRenderer # <<>>
        /\ Head(toRenderer) = Refresh!Message("reserved", r)
        /\ toRenderer' = Tail(toRenderer) /\ UNCHANGED <<lease, building>>
        /\ Refresh!Reserved(r)
    BY <1>1 DEF Refresh!HearReserved, Refresh!host
  <2>2. CASE refresh[r].phase = "compiling"
    <3>1. /\ wire' = [wire EXCEPT ![r] = "building"]
          /\ toHost' = Append(toHost, Refresh!Message("build", r))
      BY <2>1, <2>2 DEF Refresh!Reserved
    <3>2. \A u, q : ToHost(u, q)' <=> ToHost(u, q) \/ (u = "build" /\ q = r)
      BY <3>1, HostIsTold
    <3> QED BY <2>1, <3>1, <3>2, WaitingHears DEF Replies
  <2>3. CASE refresh[r].phase # "compiling"
    <3>1. /\ wire' = [wire EXCEPT ![r] = "none"]
          /\ toHost' = Append(toHost, Refresh!Message("cancel", r))
      BY <2>1, <2>3 DEF Refresh!Reserved
    <3>2. \A u, q : ToHost(u, q)' <=> ToHost(u, q) \/ (u = "cancel" /\ q = r)
      BY <3>1, HostIsTold
    <3> QED BY <2>1, <3>1, <3>2, WaitingHears DEF Replies
  <2> QED BY <2>2, <2>3
<1>2. CASE Refresh!HearRefused(r)
  <2>1. /\ toRenderer # <<>>
        /\ Head(toRenderer) = Refresh!Message("refused", r)
        /\ toRenderer' = Tail(toRenderer) /\ UNCHANGED <<lease, building>>
        /\ wire' = [wire EXCEPT ![r] = "none"] /\ toHost' = Refresh!Sent(r)
    BY <1>2 DEF Refresh!HearRefused, Refresh!host
  <2>2. \A u, q : ToHost(u, q)' <=>
          \/ ToHost(u, q)
          \/ u = "cancel" /\ q = r /\ wire[r] = "building"
    BY <2>1, HostIsToldOff
  <2>3. ToHost("cancel", r)' \/ ~Refresh!Holds(r)
    <3>1. CASE wire[r] = "building"
      BY <2>2, <3>1
    <3>2. CASE wire[r] = "reserving"
      <4>1. ToRenderer("refused", r)
        BY <2>1, RendererTakes DEF Replies
      <4> QED BY <3>2, <4>1 DEF WaitingInv, ReservingFirst
    <3>3. CASE wire[r] = "none"
      BY <2>2, <3>3 DEF WaitingInv, LeaseIsMissed
    <3> QED BY <3>1, <3>2, <3>3 DEF WaitingInv, WiresTyped
  <2> QED BY <2>1, <2>2, <2>3, WaitingHears DEF Replies
<1>3. CASE Refresh!HearBuilt(r)
  <2>1. /\ toRenderer # <<>>
        /\ Head(toRenderer) = Refresh!Message("built", r)
        /\ toRenderer' = Tail(toRenderer) /\ UNCHANGED <<lease, building>>
        /\ wire' = [wire EXCEPT ![r] = "none"]
        /\ toHost' = Append(toHost, Refresh!Message("cancel", r))
    BY <1>3 DEF Refresh!HearBuilt, Refresh!host
  <2>2. \A u, q : ToHost(u, q)' <=> ToHost(u, q) \/ (u = "cancel" /\ q = r)
    BY <2>1, HostIsTold
  <2> QED BY <2>1, <2>2, WaitingHears DEF Replies
<1>4. CASE Refresh!Deadline(r) \/ Refresh!Abort(r)
  <2>1. /\ toHost' = Refresh!Sent(r)
        /\ UNCHANGED <<wire, toRenderer, lease, building>>
    BY <1>4 DEF Refresh!Deadline, Refresh!Abort, Refresh!host
  <2>2. \A u, q : ToHost(u, q)' <=>
          \/ ToHost(u, q)
          \/ u = "cancel" /\ q = r /\ wire[r] = "building"
    BY <2>1, HostIsToldOff
  <2>3. \A q \in Refreshes : Refresh!Holds(q)' => Refresh!Holds(q)
    BY <2>1 DEF Refresh!Holds
  <2> QED BY <2>1, <2>2, <2>3, WaitingStays
<1> QED BY <1>1, <1>2, <1>3, <1>4

(* What the host does for a refresh that started.                          *)
LEMMA WaitingHost ==
  ASSUME WaitingInv, UNCHANGED <<refresh, wire>>, NEW r \in Refreshes,
         refresh[r].phase # "idle", ~ToHost("reserve", r)',
         toRenderer' \in Seq(ReplyWires),
         \A u, q : ToHost(u, q)' => ToHost(u, q),
         \A u, q : ToRenderer(u, q)' => ToRenderer(u, q) \/ q = r,
         building' \subseteq building \cup {r},
         wire[r] = "reserving" =>
           r \notin building' /\ (ToRenderer("refused", r)' =>
                                    ~Refresh!Holds(r)'),
         \A q \in Refreshes : Refresh!Holds(q)' =>
           /\ q = r \/ Refresh!Holds(q)
           /\ wire[q] # "none" \/ ToHost("cancel", q)'
  PROVE  WaitingInv'
<1>1. /\ \A q : q # r /\ NoReply(q) => NoReply(q)'
      /\ \A q : q # r /\ NoBuild(q) => NoBuild(q)'
  BY DEF NoReply, NoBuild
<1>2. WiresTyped' /\ SilentWhileIdle'
  BY <1>1 DEF WaitingInv, WiresTyped, SilentWhileIdle
<1>3. ReservingFirst'
  <2>1. wire[r] = "reserving" => NoBuild(r)'
    BY DEF WaitingInv, ReservingFirst, NoBuild
  <2> QED BY <1>1, <2>1 DEF WaitingInv, ReservingFirst
<1>4. AskedWaits'
  BY <1>1 DEF WaitingInv, AskedWaits
<1>5. LeaseIsMissed'
  BY DEF LeaseIsMissed
<1> QED BY <1>2, <1>3, <1>4, <1>5 DEF WaitingInv

LEMMA WaitingReserve ==
  ASSUME LeasesInv, WaitingInv, NEW r \in Refreshes, Refresh!HandleReserve(r)
  PROVE  WaitingInv'
<1>1. /\ Refresh!Handle("reserve", r) /\ UNCHANGED <<refresh, wire, building>>
  BY DEF Refresh!HandleReserve, Refresh!renderer
<1>2. /\ ToHost("reserve", r)
      /\ \A u, q : ToHost(u, q)' => ToHost(u, q)
      /\ \A u, q : ToHost(u, q) => ToHost(u, q)' \/ (u = "reserve" /\ q = r)
  BY <1>1, HostTakes
<1>3. ~ToHost("reserve", r)' /\ AsksFor(toHost, r)
  BY <1>1, HostHears DEF AsksFor, ToHost, Said
<1>4. ~Refresh!Holds(r) /\ refresh[r].phase # "idle"
  BY <1>3 DEF LeasesInv, NotYet, AskedAfterStart
<1>5. wire[r] = "reserving" /\ NoReply(r) /\ NoBuild(r)
  BY <1>2 DEF WaitingInv, AskedWaits, ReservingFirst
<1>6. PICK t \in {"reserved", "refused"} :
        /\ Refresh!Reply(t, r)
        /\ t = "reserved" => \A q : Refresh!Holds(q)' => q = r
        /\ t = "refused" => lease' = lease
  BY DEF Refresh!HandleReserve, Refresh!Holds
<1>7. /\ toRenderer' \in Seq(ReplyWires)
      /\ \A u, q : ToRenderer(u, q)' <=> ToRenderer(u, q) \/ (u = t /\ q = r)
  BY <1>6, RendererIsTold DEF Replies, WaitingInv
<1>8. r \notin building'
  BY <1>1, <1>5 DEF NoBuild
<1>9. ToRenderer("refused", r)' => ~Refresh!Holds(r)'
  <2>1. ~ToRenderer("refused", r)
    BY <1>5 DEF NoReply, Replies
  <2>2. t = "refused" => ~Refresh!Holds(r)'
    BY <1>4, <1>6 DEF Refresh!Holds
  <2> QED BY <1>7, <2>1, <2>2
<1>10. ASSUME NEW q \in Refreshes, Refresh!Holds(q)'
       PROVE  /\ q = r \/ Refresh!Holds(q)
              /\ wire[q] # "none" \/ ToHost("cancel", q)'
  <2>1. CASE q = r
    BY <1>5, <2>1
  <2>2. CASE q # r
    <3>1. Refresh!Holds(q)
      BY <1>6, <1>10, <2>2 DEF Refresh!Holds
    <3> QED BY <1>2, <3>1 DEF WaitingInv, LeaseIsMissed
  <2> QED BY <2>1, <2>2
<1> QED
  BY <1>1, <1>2, <1>3, <1>4, <1>7, <1>8, <1>9, <1>10, WaitingHost

LEMMA WaitingBuild ==
  ASSUME LeasesInv, WaitingInv, NEW r \in Refreshes, Refresh!HandleBuild(r)
  PROVE  WaitingInv'
<1>1. /\ Refresh!Handle("build", r) /\ UNCHANGED <<refresh, wire>>
      /\ building' \subseteq building \cup {r}
  BY DEF Refresh!HandleBuild, Refresh!renderer
<1>2. /\ ToHost("build", r)
      /\ \A u, q : ToHost(u, q)' => ToHost(u, q)
      /\ \A u, q : ToHost(u, q) => ToHost(u, q)' \/ (u = "build" /\ q = r)
  BY <1>1, HostTakes
<1>3. wire[r] # "reserving" /\ refresh[r].phase # "idle"
  BY <1>2 DEF WaitingInv, ReservingFirst, SilentWhileIdle, NoBuild
<1>4. ~ToHost("reserve", r)'
  BY <1>2, <1>3 DEF WaitingInv, AskedWaits
<1>5. \A q : Refresh!Holds(q)' => Refresh!Holds(q)
  BY DEF Refresh!HandleBuild, Refresh!Claimable, Refresh!Holds
<1>6. \/ toRenderer' = toRenderer \/ Refresh!Reply("refused", r)
  BY DEF Refresh!HandleBuild
<1>7. /\ toRenderer' \in Seq(ReplyWires)
      /\ \A u, q : ToRenderer(u, q)' => ToRenderer(u, q) \/ q = r
  <2>1. CASE toRenderer' = toRenderer
    BY <2>1 DEF ToRenderer, WaitingInv, WiresTyped
  <2>2. CASE Refresh!Reply("refused", r)
    BY <2>2, RendererIsTold DEF Replies, WaitingInv
  <2> QED BY <1>6, <2>1, <2>2
<1>8. \A q \in Refreshes : Refresh!Holds(q)' =>
        wire[q] # "none" \/ ToHost("cancel", q)'
  BY <1>2, <1>5 DEF WaitingInv, LeaseIsMissed
<1> QED BY <1>1, <1>2, <1>3, <1>4, <1>5, <1>7, <1>8, WaitingHost

LEMMA WaitingCancel ==
  ASSUME LeasesInv, WaitingInv, NEW r \in Refreshes, Refresh!HandleCancel(r)
  PROVE  WaitingInv'
<1>1. /\ Refresh!Handle("cancel", r)
      /\ UNCHANGED <<refresh, wire, building, toRenderer>>
  BY DEF Refresh!HandleCancel, Refresh!renderer
<1>2. /\ \A u, q : ToHost(u, q)' => ToHost(u, q)
      /\ \A u, q : ToHost(u, q) => ToHost(u, q)' \/ (u = "cancel" /\ q = r)
  BY <1>1, HostTakes
<1>3. \A q : Refresh!Holds(q)' => Refresh!Holds(q) /\ q # r
  BY DEF Refresh!HandleCancel, Refresh!Holds
<1>4. \A u, q : ToRenderer(u, q)' <=> ToRenderer(u, q)
  BY <1>1 DEF ToRenderer
<1>5. /\ \A q : NoReply(q) => NoReply(q)'
      /\ \A q : NoBuild(q) => NoBuild(q)'
  BY <1>1, <1>2, <1>4 DEF NoReply, NoBuild
<1>6. WiresTyped' /\ SilentWhileIdle' /\ AskedWaits'
  BY <1>1, <1>2, <1>5
  DEF WaitingInv, WiresTyped, SilentWhileIdle, AskedWaits
<1>7. ReservingFirst'
  BY <1>1, <1>3, <1>4, <1>5 DEF WaitingInv, ReservingFirst
<1>8. LeaseIsMissed'
  BY <1>1, <1>2, <1>3 DEF WaitingInv, LeaseIsMissed
<1> QED BY <1>6, <1>7, <1>8 DEF WaitingInv

LEMMA WaitingFinish ==
  ASSUME WaitingInv, NEW r \in Refreshes, Refresh!Finish(r)
  PROVE  WaitingInv'
<1>1. /\ r \in building /\ UNCHANGED <<refresh, wire, toHost>>
      /\ building' = building \ {r}
      /\ Refresh!Reply("built", r) \/ Refresh!Reply("refused", r)
  BY DEF Refresh!Finish, Refresh!renderer
<1>2. wire[r] # "reserving" /\ refresh[r].phase # "idle"
  BY <1>1 DEF WaitingInv, ReservingFirst, SilentWhileIdle, NoBuild
<1>3. \A u, q : ToHost(u, q)' <=> ToHost(u, q)
  BY <1>1 DEF ToHost
<1>4. ~ToHost("reserve", r)'
  BY <1>2, <1>3 DEF WaitingInv, AskedWaits
<1>5. /\ toRenderer' \in Seq(ReplyWires)
      /\ \A u, q : ToRenderer(u, q)' => ToRenderer(u, q) \/ q = r
  BY <1>1, RendererIsTold DEF Replies, WaitingInv
<1>6. \A q : Refresh!Holds(q)' => Refresh!Holds(q)
  BY DEF Refresh!Finish, Refresh!Holds
<1>7. \A q \in Refreshes : Refresh!Holds(q)' =>
        wire[q] # "none" \/ ToHost("cancel", q)'
  BY <1>3, <1>6 DEF WaitingInv, LeaseIsMissed
<1> QED BY <1>1, <1>2, <1>3, <1>4, <1>5, <1>6, <1>7, WaitingHost

LEMMA WaitingStep ==
  ASSUME NewestInv, LeasesInv, WaitingInv, [Refresh!Next]_refreshVars
  PROVE  WaitingInv'
<1>0. KeepsStarted
  BY NewestStep
<1>1. ASSUME UNCHANGED <<wire, toHost, toRenderer, building>>,
             \A q \in Refreshes : Refresh!Holds(q)' => Refresh!Holds(q)
      PROVE  WaitingInv'
  BY <1>0, <1>1, WaitingStays DEF ToHost
<1>2. ASSUME UNCHANGED <<wire, toHost, toRenderer, building, lease>>
      PROVE  WaitingInv'
  BY <1>1, <1>2 DEF Refresh!Holds
<1>3. ASSUME Refresh!Advance PROVE WaitingInv'
  BY <1>2, <1>3 DEF Refresh!Advance, Refresh!renderer
<1>4. ASSUME Refresh!Expire PROVE WaitingInv'
  BY <1>1, <1>4 DEF Refresh!Expire, Refresh!renderer, Refresh!Holds
<1>5. ASSUME NEW r \in Refreshes, NEW kind \in {"render", "open"},
             NEW t \in 0..MaxTicket, Refresh!Start(r, kind, t)
      PROVE  WaitingInv'
  BY <1>5, WaitingStart
<1>6. ASSUME NEW r \in Refreshes,
             \/ Refresh!Deadline(r) \/ Refresh!Abort(r)
             \/ Refresh!HearReserved(r) \/ Refresh!HearRefused(r)
             \/ Refresh!HearBuilt(r)
      PROVE  WaitingInv'
  BY <1>0, <1>6, WaitingRenderer
<1>7. ASSUME NEW r \in Refreshes,
             \/ Refresh!FrameReady(r) \/ Refresh!FrameRendered(r)
             \/ Refresh!PresentationFails(r) \/ Refresh!Accept(r)
      PROVE  WaitingInv'
  BY <1>2, <1>7
  DEF Refresh!FrameReady, Refresh!FrameRendered, Refresh!PresentationFails,
      Refresh!Accept, Refresh!host
<1>8. ASSUME NEW r \in Refreshes,
             \/ Refresh!HandleReserve(r) \/ Refresh!HandleBuild(r)
             \/ Refresh!HandleCancel(r) \/ Refresh!Finish(r)
      PROVE  WaitingInv'
  BY <1>8, WaitingReserve, WaitingBuild, WaitingCancel, WaitingFinish
<1>9. ASSUME UNCHANGED refreshVars PROVE WaitingInv'
  BY <1>2, <1>9 DEF refreshVars
<1> QED
  BY <1>3, <1>4, <1>5, <1>6, <1>7, <1>8, <1>9 DEF Refresh!Next

(* Nobody is left behind: the presentation that a refresh waits for is the *)
(* pending one, whose timer is set, and the lease the host holds is that   *)
(* of a call that still has to hear of it, or whose cancellation is on its *)
(* way; a call that was refused its reservation has no lease, and one that *)
(* hears of a reservation nobody waits for cancels it                      *)
(* (compileReservedPreview, PreviewPresentationCoordinator).               *)
THEOREM NobodyIsLeftBehind == Refresh!Spec => []NobodyLeftBehind
<1> DEFINE Inv == NewestInv /\ LeasesInv /\ PresentingInv /\ WaitingInv
<1>1. Refresh!Init => Inv
  BY NewestBegin, LeasesBegin, PresentingBegins, WaitingBegins
<1>2. ASSUME [Refresh!Next]_(Refresh!vars)
      PROVE  [Refresh!Next]_refreshVars
  BY <1>2 DEF refreshVars, Refresh!vars, Refresh!renderer, Refresh!host
<1>3. Inv /\ [Refresh!Next]_(Refresh!vars) => Inv'
  BY <1>2, NewestStep, LeasesStep, PresentingStep, WaitingStep
<1>4. Inv => NobodyLeftBehind
  <2> SUFFICES ASSUME Inv PROVE NobodyLeftBehind
    OBVIOUS
  <2>1. \A q \in Refreshes :
          refresh[q].phase = "presenting" => Refresh!PendingOf(q)
    BY DEF PresentingInv, PresentingIsPending
  <2>2. ASSUME lease # Nobody, wire[lease.refresh] = "none"
        PROVE  \E i \in DOMAIN toHost :
                 toHost[i] = Refresh!Message("cancel", lease.refresh)
    <3>1. lease.refresh \in Refreshes /\ toHost \in Seq(Wires)
      BY <2>2 DEF LeasesInv, LeasesTyped, Leases
    <3>2. ToHost("cancel", lease.refresh)
      BY <2>2, <3>1 DEF WaitingInv, LeaseIsMissed, Refresh!Holds
    <3>3. DOMAIN toHost = 1..Len(toHost)
      BY <3>1
    <3> QED BY <3>2, <3>3 DEF ToHost, Said
  <2> HIDE DEF Inv
  <2> QED BY <2>1, <2>2 DEF NobodyLeftBehind, Refresh!NobodyLeftBehind
<1> HIDE DEF Inv
<1> QED BY <1>1, <1>3, <1>4, PTL DEF Refresh!Spec

-----------------------------------------------------------------------------
(* The designer service.                                                   *)

Histories == Seq(Designer!Entries) \ {<<>>}
Saves ==
  [revs : Histories, requests : [Requests -> Designer!Lifecycles],
   pending : Designer!Proposals \cup {Nobody}, graph : 0..MaxGraph]
Memories ==
  [revs : Histories, requests : [Requests -> Designer!Lifecycles],
   pending : Designer!Proposals \cup {Nobody}, graph : 0..MaxGraph,
   recovering : BOOLEAN, active : Requests \cup {Nobody},
   same : BOOLEAN, open : BOOLEAN]
Queued ==
  [kind : Designer!Kinds, request : Requests \cup {Nobody}, base : Nat]
Running ==
  [kind : Designer!Kinds, request : Requests \cup {Nobody},
   phase : {"compiling", "writing"}, before : Memories,
   payload : Saves \cup {Nobody}]

LEMMA RunningIsOne == Nobody \notin Running
<1>1. Running \subseteq Designer!Operations
  BY DEF Running, Designer!Operations, Memories, Saves, Histories,
         Designer!Memories, Designer!Parts
<1> QED BY <1>1, RecordsAssumption

DesignerTyped ==
  /\ stored \in Saves /\ memory \in Memories
  /\ queue \in Seq(Queued)
  /\ op \in Running \cup {Nobody}
  /\ op # Nobody /\ op.phase = "writing" => op.payload \in Saves
  /\ call \in [Requests -> Designer!Calls]
  /\ asked \in [Requests -> Designer!RevisionIds]
  /\ aborted \subseteq Requests /\ doubt \in BOOLEAN

-----------------------------------------------------------------------------
(* Histories.                                                              *)

\* Two histories begin alike, and are the same up to a revision they share.
Agree(g, h) ==
  /\ g[1] = h[1]
  /\ \A i \in 1..Len(g), j \in 1..Len(h) :
       g[i].id = h[j].id => i = j /\ \A k \in 1..i : g[k] = h[k]

Sound(L) == L \subseteq Histories /\ \A g, h \in L : Agree(g, h)

(* A new revision may be appended to one of several histories.             *)
LEMMA Extended ==
  ASSUME NEW L, Sound(L), NEW h \in L, NEW e \in Designer!Entries,
         \A g \in L : \A i \in 1..Len(g) : g[i].id # e.id
  PROVE  Sound(L \cup {Append(h, e)})
<1> DEFINE a == Append(h, e)
<1>1. h \in Histories
  BY DEF Sound
<1>2. /\ a \in Histories /\ Len(a) = Len(h) + 1 /\ a[Len(h) + 1] = e
      /\ \A i \in 1..Len(h) : a[i] = h[i]
      /\ Len(h) \in Nat \ {0} /\ a[1] = h[1]
  BY <1>1 DEF Histories
<1> HIDE DEF a
<1>3. \A g \in L : Len(g) \in Nat
  BY DEF Sound, Histories
<1>4. ASSUME NEW g \in L
      PROVE  Agree(g, a) /\ Agree(a, g)
  <2>1. Agree(g, h) /\ Agree(h, g)
    BY DEF Sound
  <2>2. Agree(g, a)
    BY <1>2, <1>3, <1>4, <2>1 DEF Agree
  <2>3. Agree(a, g)
    BY <1>2, <1>3, <1>4, <2>1 DEF Agree
  <2> QED BY <2>2, <2>3
<1>5. Agree(a, a)
  <2>1. Agree(h, h)
    BY DEF Sound
  <2> QED BY <1>2, <2>1 DEF Agree
<1> QED BY <1>2, <1>4, <1>5 DEF Sound, a

(* What succeeds a history extends it.                                     *)
LEMMA SuccessorExtends ==
  ASSUME NEW g \in Histories, NEW h \in Histories, Agree(g, h),
         \/ g[Len(g)].id = h[Len(h)].id
         \/ Len(h) > 1 /\ h[Len(h) - 1].id = g[Len(g)].id
  PROVE  /\ Len(g) <= Len(h) /\ \A i \in 1..Len(g) : g[i] = h[i]
         /\ g[Len(g)].id = h[Len(h)].id => g = h
<1>1. Len(g) \in Nat \ {0} /\ Len(h) \in Nat \ {0}
  BY DEF Histories
<1>2. CASE g[Len(g)].id = h[Len(h)].id
  <2>1. Len(g) = Len(h) /\ \A k \in 1..Len(g) : g[k] = h[k]
    BY <1>1, <1>2 DEF Agree
  <2>2. g = h
    BY <1>1, <2>1 DEF Histories
  <2> QED BY <2>1, <2>2, <1>1
<1>3. CASE Len(h) > 1 /\ h[Len(h) - 1].id = g[Len(g)].id
  <2>1. Len(g) \in 1..Len(g) /\ Len(h) - 1 \in 1..Len(h)
    BY <1>1, <1>3
  <2>2. Len(g) = Len(h) - 1 /\ \A k \in 1..Len(g) : g[k] = h[k]
    BY <1>3, <2>1 DEF Agree
  <2>3. g[Len(g)].id # h[Len(h)].id
    BY <1>1, <2>2 DEF Agree
  <2> QED BY <1>1, <2>2, <2>3
<1> QED BY <1>2, <1>3

-----------------------------------------------------------------------------
(* The inductive invariant.                                                *)

Cand(p) == [id |-> p.candidate, by |-> p.request]

\* The histories something may make current: the one a part of the state
\* has, and the one its proposal would make of it.
Lines(s) ==
  {s.revs} \cup (IF s.pending = Nobody THEN {}
                    ELSE {Append(s.revs, Cand(s.pending))})

Known ==
  {Designer!Created.revs} \cup Lines(stored) \cup Lines(memory)
    \cup (IF op = Nobody THEN {}
          ELSE Lines(op.before) \cup (IF op.phase = "writing"
                                      THEN Lines(op.payload) ELSE {}))

\* What a running operation has captured and is about to write.
OperationFits ==
  op # Nobody =>
    /\ op.phase = "compiling" => /\ op.kind \in {"edit", "undo", "stage"}
                                 /\ op.before.revs = memory.revs
                                 /\ op.before.pending = memory.pending
    /\ op.kind \in {"edit", "undo", "graph", "recover"} =>
         /\ memory.pending = Nobody
         /\ op.phase = "writing" => op.payload.pending = Nobody
    /\ op.kind = "start" => /\ memory.active = op.request
                            /\ memory.pending = Nobody
                            /\ memory.requests[op.request] = "running"
                            /\ op.before.active = Nobody
                            /\ op.before.pending = Nobody
    /\ op.kind # "start" => op.before.active = memory.active
    /\ op.kind = "stage" =>
         /\ op.before.pending = Nobody
         /\ op.phase = "compiling" =>
              Designer!Source(memory) = asked[op.request]

HistoriesKept == Sound(Known)

\* What is written of a memory.
SameAs(p, m) ==
  p.revs = m.revs /\ p.pending = m.pending /\ p.graph = m.graph

\* What the session shows is stored, but for a graph it could not read.
Shows(m, s) ==
  /\ m.revs = s.revs /\ m.pending = s.pending
  /\ ~m.recovering => m.graph = s.graph

\* The file, when no save has failed after its rename.
Synchronised ==
  /\ memory.open /\ op = Nobody /\ ~doubt => Shows(memory, stored)
  /\ op # Nobody /\ ~doubt =>
       /\ op.before.open => Shows(op.before, stored)
       /\ memory.open /\ (\/ op.phase = "compiling"
                          \/ op.kind \in {"edit", "undo", "graph", "recover",
                                          "record"})
            => Shows(memory, stored)
  /\ op # Nobody /\ op.phase = "writing" =>
       /\ op.payload.pending = memory.pending
       /\ IF op.kind \in {"graph", "recover"}
          THEN op.payload.revs = memory.revs
          ELSE op.payload.graph = memory.graph
       /\ op.kind \notin {"edit", "undo", "graph", "recover"} =>
            SameAs(op.payload, memory)

\* Each call waits for at most one operation, whose turn finds it waiting.
Own == {"start", "stage", "record"}
Expects(kind) == CASE kind = "start" -> "starting"
                   [] kind = "stage" -> "answered"
                   [] kind = "record" -> "recording"
                   [] OTHER -> "idle"
Awaited(entry) ==
  entry.kind \in Own =>
    entry.request \in Requests /\ call[entry.request] = Expects(entry.kind)

QueueFits ==
  /\ \A i \in 1..Len(queue) : Awaited(queue[i])
  /\ \A i, j \in 1..Len(queue) :
       queue[i].kind \in Own /\ queue[j].kind \in Own
         /\ queue[i].request = queue[j].request => i = j
  /\ op # Nobody => Awaited(op)
  /\ op # Nobody /\ op.kind \in Own =>
       \A i \in 1..Len(queue) :
         queue[i].kind \in Own => queue[i].request # op.request

\* A call that is under way is the active one, and its request is running
\* until it fails.
CallsActive ==
  \A q \in Requests :
    /\ call[q] \in {"answering", "answered", "failing", "recording"} =>
         memory.active = q
    /\ call[q] \in {"answering", "answered"} =>
         /\ memory.requests[q] = "running"
         /\ op # Nobody => op.before.requests[q] = "running"

\* A proposal belongs to its request and revision.
Pends(s) ==
  s.pending # Nobody =>
    /\ s.requests[s.pending.request] = "running"
    /\ s.pending.base = Designer!Source(s)
    /\ s.pending.base = s.pending.asked

NotAborted(m) ==
  m.pending # Nobody /\ m.same => m.pending.request \notin aborted

ProposalsFit ==
  /\ Pends(stored) /\ Pends(memory) /\ NotAborted(memory)
  /\ memory.pending # Nobody =>
       \/ memory.active = Nobody
       \/ /\ op # Nobody /\ op.kind = "stage" /\ op.phase = "writing"
          /\ memory.pending.request = op.request
  /\ op # Nobody =>
       /\ Pends(op.before) /\ NotAborted(op.before)
       /\ op.before.pending # Nobody => op.before.active = Nobody
       /\ op.phase = "writing" => Pends(op.payload)

DesignerInv ==
  /\ DesignerTyped /\ HistoriesKept /\ OperationFits /\ Synchronised
  /\ QueueFits /\ CallsActive /\ ProposalsFit

\* What a step keeps: the invariant, and what was stored.
Grown ==
  /\ Len(stored.revs) <= Len(stored'.revs)
  /\ \A i \in DOMAIN stored.revs : stored.revs[i] = stored'.revs[i]
  /\ stored.graph <= stored'.graph

DesignerKept == DesignerInv' /\ Grown

LEMMA CreatedTyped ==
  /\ Designer!Created \in Saves /\ Designer!Closed \in Memories
  /\ Designer!Created.revs = <<[id |-> 1, by |-> Nobody]>>
  /\ Designer!Closed.revs = Designer!Created.revs
  /\ Designer!Created.pending = Nobody /\ Designer!Closed.pending = Nobody
  /\ Designer!Closed.active = Nobody /\ ~Designer!Closed.open
<1>1. [id |-> 1, by |-> Nobody] \in Designer!Entries
  BY NumbersAssumption DEF Designer!Entries, Designer!RevisionIds
<1>2. <<[id |-> 1, by |-> Nobody]>> \in Histories
  BY <1>1 DEF Histories
<1>3. [q \in Requests |-> "none"] \in [Requests -> Designer!Lifecycles]
  BY DEF Designer!Lifecycles
<1>4. 0 \in 0..MaxGraph
  BY NumbersAssumption
<1> QED
  BY <1>2, <1>3, <1>4 DEF Designer!Created, Designer!Closed, Saves, Memories

(* The graph is read, or is not: nothing else in the memory moves.         *)
LEMMA HydrationsFit ==
  ASSUME stored \in Saves, NEW m \in Memories,
         NEW next \in Designer!Hydrations(m)
  PROVE  /\ next \in Memories
         /\ next.revs = m.revs /\ next.pending = m.pending
         /\ next.requests = m.requests /\ next.active = m.active
         /\ next.open = m.open /\ next.same = m.same
         /\ next.open /\ ~next.recovering => next.graph = stored.graph
<1> DEFINE g == IF m.open THEN stored.graph ELSE 0
<1>1. g \in 0..MaxGraph /\ 0 \in 0..MaxGraph
  BY NumbersAssumption DEF Saves
<1>2. CASE next = [m EXCEPT !.graph = g, !.recovering = FALSE]
  <2>1. g = stored.graph \/ ~m.open
    OBVIOUS
  <2> HIDE DEF g
  <2> QED BY <1>1, <1>2, <2>1 DEF Memories
<1>3. CASE next = [m EXCEPT !.graph = 0, !.recovering = TRUE]
  BY <1>1, <1>3 DEF Memories
<1> QED BY <1>2, <1>3, Zenon DEF Designer!Hydrations

(* Another project in the service.                                         *)
LEMMA ElsewhereFits ==
  ASSUME stored \in Saves, NEW next \in Designer!Hydrations(Designer!Closed)
  PROVE  /\ next \in Memories /\ next.revs = Designer!Created.revs
         /\ next.pending = Nobody /\ next.active = Nobody /\ ~next.open
BY CreatedTyped, HydrationsFit

(* A smaller set of histories is sound, too.                               *)
LEMMA SoundSubset ==
  ASSUME NEW L, Sound(L), NEW M \in SUBSET L
  PROVE  Sound(M)
BY DEF Sound

LEMMA DesignerStart ==
  ASSUME Designer!Init
  PROVE  DesignerInv
<1>1. /\ stored = Designer!Created /\ memory \in Memories
      /\ memory.revs = Designer!Created.revs /\ memory.pending = Nobody
      /\ memory.active = Nobody /\ ~memory.open
      /\ queue = <<>> /\ op = Nobody
      /\ call = [q \in Requests |-> "idle"]
      /\ asked = [q \in Requests |-> 1]
      /\ aborted = {} /\ doubt = FALSE
  BY CreatedTyped, ElsewhereFits DEF Designer!Init
<1>2. DesignerTyped
  <2>1. 1 \in Designer!RevisionIds /\ "idle" \in Designer!Calls
    BY NumbersAssumption DEF Designer!RevisionIds, Designer!Calls
  <2>2. <<>> \in Seq(Queued)
    OBVIOUS
  <2> QED BY <1>1, <2>1, <2>2, CreatedTyped DEF DesignerTyped
<1>3. HistoriesKept
  <2> DEFINE h == Designer!Created.revs
  <2>1. Known = {h}
    BY <1>1, CreatedTyped DEF Known, Lines
  <2>2. h \in Histories /\ Len(h) = 1 /\ h[1].id = 1
    BY CreatedTyped DEF Saves
  <2>3. Agree(h, h)
    BY <2>2 DEF Agree
  <2> QED BY <2>1, <2>2, <2>3 DEF HistoriesKept, Sound
<1>4. OperationFits /\ Synchronised
  BY <1>1, CreatedTyped DEF OperationFits, Synchronised
<1>5. QueueFits /\ CallsActive
  BY <1>1 DEF QueueFits, CallsActive
<1>6. ProposalsFit
  BY <1>1, CreatedTyped DEF ProposalsFit, Pends, NotAborted
<1> QED BY <1>2, <1>3, <1>4, <1>5, <1>6 DEF DesignerInv

-----------------------------------------------------------------------------
(* The calls and what happens outside the queue.                           *)

LEMMA StoredStays ==
  ASSUME DesignerTyped, stored' = stored
  PROVE  Grown
BY NumbersAssumption DEF Grown, DesignerTyped, Saves, Histories

\* The agents' side of a step: the file, the operation and what was asked
\* stay, and so does the history in memory.
OutsideOnly ==
  /\ UNCHANGED <<stored, op, asked, doubt>>
  /\ memory'.revs = memory.revs /\ memory'.pending = memory.pending
  /\ memory'.graph = memory.graph /\ memory'.active = memory.active
  /\ memory'.open = memory.open /\ memory'.same = memory.same
  /\ memory'.recovering = memory.recovering

LEMMA OutsideKeeps ==
  ASSUME DesignerInv, DesignerTyped', OutsideOnly,
         memory'.requests = memory.requests \/ memory.pending = Nobody,
         op # Nobody /\ op.kind = "start" =>
           memory'.requests[op.request] = memory.requests[op.request],
         QueueFits', CallsActive',
         \A q \in aborted' \ aborted :
           /\ memory.pending # Nobody => memory.pending.request # q
           /\ op # Nobody /\ op.before.pending # Nobody =>
                op.before.pending.request # q
  PROVE  DesignerKept
<1>1. /\ stored' = stored /\ op' = op /\ asked' = asked /\ doubt' = doubt
      /\ memory'.revs = memory.revs /\ memory'.pending = memory.pending
      /\ memory'.graph = memory.graph /\ memory'.active = memory.active
      /\ memory'.open = memory.open /\ memory'.same = memory.same
      /\ memory'.recovering = memory.recovering
  BY DEF OutsideOnly
<1>2. Lines(memory)' = Lines(memory)
  BY <1>1 DEF Lines
<1>3. Known' = Known
  <2>1. Lines(stored)' = Lines(stored)
    BY <1>1 DEF Lines
  <2>2. Lines(op.before)' = Lines(op.before)
        /\ Lines(op.payload)' = Lines(op.payload)
    BY <1>1 DEF Lines
  <2> QED BY <1>1, <1>2, <2>1, <2>2 DEF Known
<1>4. HistoriesKept'
  BY <1>3 DEF DesignerInv, HistoriesKept
<1>5. OperationFits'
  BY <1>1 DEF DesignerInv, OperationFits, Designer!Source, Designer!Head1
<1>6. Synchronised'
  BY <1>1 DEF DesignerInv, Synchronised, Shows, SameAs
<1>7. ProposalsFit'
  BY <1>1 DEF DesignerInv, ProposalsFit, Pends, NotAborted, Designer!Source,
              Designer!Head1
<1>8. Grown
  BY <1>1, StoredStays DEF DesignerInv
<1> QED
  BY <1>4, <1>5, <1>6, <1>7, <1>8 DEF DesignerInv, DesignerKept

(* A call that nothing waits for moves on.                                 *)
LEMMA CallMovesOn ==
  ASSUME DesignerTyped, QueueFits, NEW q \in Requests, NEW state,
         call' = [call EXCEPT ![q] = state],
         call[q] \notin {"starting", "answered", "recording"},
         UNCHANGED <<queue, op>>
  PROVE  QueueFits'
<1>1. \A r \in Requests : r # q => call'[r] = call[r]
  BY DEF DesignerTyped
<1>2. \A e : Awaited(e) => Awaited(e)'
  BY <1>1 DEF Awaited, Own, Expects
<1> QED BY <1>2 DEF QueueFits

LEMMA CallEnqueued ==
  ASSUME DesignerTyped, QueueFits, NEW e \in Queued,
         e.kind \in Own => e.request \in Requests,
         e.kind \in Own =>
           /\ call' = [call EXCEPT ![e.request] = Expects(e.kind)]
           /\ call[e.request] \notin {"starting", "answered", "recording"},
         e.kind \notin Own => call' = call,
         queue' = Append(queue, e), op' = op
  PROVE  QueueFits' /\ queue' \in Seq(Queued)
<1>1. /\ queue' \in Seq(Queued) /\ Len(queue') = Len(queue) + 1
      /\ queue'[Len(queue) + 1] = e
      /\ \A i \in 1..Len(queue) : queue'[i] = queue[i]
      /\ Len(queue) \in Nat
  BY DEF DesignerTyped
<1>2. \A d : Awaited(d) =>
        Awaited(d)' /\ (d.kind \in Own /\ e.kind \in Own =>
                          d.request # e.request)
  BY DEF DesignerTyped, Awaited, Own, Expects
<1>3. Awaited(e)'
  BY DEF DesignerTyped, Awaited, Own, Expects
<1>4. (\A i \in 1..Len(queue) : Awaited(queue[i]))'
  BY <1>1, <1>2, <1>3 DEF QueueFits
<1>5. \A i, j \in 1..Len(queue') :
        queue'[i].kind \in Own /\ queue'[j].kind \in Own
          /\ queue'[i].request = queue'[j].request => i = j
  BY <1>1, <1>2 DEF QueueFits
<1>6. /\ op' # Nobody => Awaited(op)'
      /\ op' # Nobody /\ op'.kind \in Own =>
           \A i \in 1..Len(queue') :
             queue'[i].kind \in Own => queue'[i].request # op'.request
  BY <1>1, <1>2 DEF QueueFits
<1> QED BY <1>1, <1>4, <1>5, <1>6 DEF QueueFits

(* An entry leaves the queue, for the operation that runs or for good.     *)
LEMMA QueueHead ==
  ASSUME DesignerTyped, queue # <<>>
  PROVE  /\ Head(queue) = queue[1] /\ Head(queue) \in Queued
         /\ Tail(queue) \in Seq(Queued)
         /\ Len(queue) \in Nat \ {0} /\ Len(Tail(queue)) = Len(queue) - 1
         /\ \A i \in 1..Len(Tail(queue)) : Tail(queue)[i] = queue[i + 1]
BY DEF DesignerTyped

LEMMA EntryRuns ==
  ASSUME DesignerTyped, QueueFits, op = Nobody, queue # <<>>,
         queue' = Tail(queue), call' = call,
         \/ op' = Nobody
         \/ op'.kind = Head(queue).kind /\ op'.request = Head(queue).request
  PROVE  QueueFits'
<1>1. /\ \A e : Awaited(e)' = Awaited(e)
      /\ Awaited(queue[1])
      /\ op' # Nobody /\ op'.kind = queue[1].kind
           /\ op'.request = queue[1].request => Awaited(op)'
  BY QueueHead DEF QueueFits, Awaited
<1> QED BY <1>1, QueueHead DEF QueueFits

LEMMA EntryRefused ==
  ASSUME DesignerTyped, QueueFits, op = Nobody, queue # <<>>,
         queue' = Tail(queue), op' = Nobody, NEW state,
         Head(queue).kind \in Own,
         call' = [call EXCEPT ![Head(queue).request] = state]
  PROVE  QueueFits'
<1> DEFINE q == queue[1].request
<1>1. /\ Head(queue) = queue[1] /\ Len(queue) \in Nat \ {0}
      /\ \A i \in 1..Len(Tail(queue)) :
           /\ Tail(queue)[i] = queue[i + 1]
           /\ i + 1 \in 1..Len(queue)
           /\ queue[i + 1].kind \in Own => queue[i + 1].request # q
      /\ Len(Tail(queue)) = Len(queue) - 1
  BY QueueHead DEF QueueFits
<1>2. \A r \in Requests : r # q => call'[r] = call[r]
  BY <1>1 DEF DesignerTyped
<1>3. \A e : Awaited(e) /\ (e.kind \in Own => e.request # q) => Awaited(e)'
  BY <1>2 DEF Awaited
<1>4. (\A i \in 1..Len(queue) : Awaited(queue[i]))'
  BY <1>1, <1>3 DEF QueueFits
<1>5. (\A i, j \in 1..Len(queue) :
         queue[i].kind \in Own /\ queue[j].kind \in Own
           /\ queue[i].request = queue[j].request => i = j)'
  BY <1>1 DEF QueueFits
<1> QED BY <1>4, <1>5 DEF QueueFits

(* An operation ends.                                                      *)
LEMMA OperationEnds ==
  ASSUME DesignerTyped, QueueFits, op # Nobody, op' = Nobody, queue' = queue,
         NEW state,
         \/ call' = call
         \/ op.kind \in Own /\ call' = [call EXCEPT ![op.request] = state]
  PROVE  QueueFits'
<1>1. CASE call' = call
  BY <1>1 DEF QueueFits, Awaited
<1>2. CASE op.kind \in Own /\ call' = [call EXCEPT ![op.request] = state]
  <2>1. \A r \in Requests : r # op.request => call'[r] = call[r]
    BY <1>2 DEF DesignerTyped
  <2> QED BY <1>2, <2>1 DEF QueueFits, Awaited
<1> QED BY <1>1, <1>2

LEMMA SourceTyped ==
  ASSUME NEW s, s.revs \in Histories
  PROVE  Designer!Source(s) \in Designer!RevisionIds
<1>1. /\ s.revs \in Seq(Designer!Entries)
      /\ Len(s.revs) \in 1..Len(s.revs)
  BY DEF Histories
<1>2. s.revs[Len(s.revs)] \in Designer!Entries
  BY <1>1
<1> QED BY <1>2 DEF Designer!Source, Designer!Head1, Designer!Entries

LEMMA RevisionsAreNumbers == Designer!RevisionIds \subseteq Nat
<1>1. MaxRevisions \in Nat
  BY NumbersAssumption
<1> QED BY <1>1 DEF Designer!RevisionIds

LEMMA AskKeeps ==
  ASSUME DesignerInv, Designer!Ask
  PROVE  DesignerKept
<1>1. DesignerTyped /\ QueueFits /\ CallsActive
  BY DEF DesignerInv
<1>2. PICK e \in Designer!UserEntries : queue' = Append(queue, e)
  BY DEF Designer!Ask, Designer!Enqueue
<1>3. UNCHANGED <<stored, memory, op, call, asked, aborted, doubt>>
  BY DEF Designer!Ask
<1>4. e \in Queued /\ e.kind \notin Own
  <2>1. /\ Designer!Source(memory) \in Nat /\ Designer!Source(stored) \in Nat
    BY <1>1, SourceTyped, RevisionsAreNumbers
       DEF DesignerTyped, Saves, Memories
  <2>2. memory.pending # Nobody =>
          /\ memory.pending.request \in Requests
          /\ memory.pending.candidate \in Nat
    BY <1>1, RevisionsAreNumbers
       DEF DesignerTyped, Memories, Designer!Proposals
  <2> QED
    BY <2>1, <2>2
       DEF Designer!UserEntries, Designer!Entry, Queued, Own, Designer!Kinds
<1>5. QueueFits' /\ queue' \in Seq(Queued)
  BY <1>1, <1>2, <1>3, <1>4, CallEnqueued
<1>6. DesignerTyped' /\ CallsActive'
  BY <1>1, <1>3, <1>5 DEF DesignerTyped, CallsActive
<1> QED BY <1>3, <1>5, <1>6, OutsideKeeps DEF OutsideOnly

LEMMA RequestKeeps ==
  ASSUME DesignerInv, NEW q \in Requests, Designer!RequestAIChange(q)
  PROVE  DesignerKept
<1>1. DesignerTyped /\ QueueFits /\ CallsActive
  BY DEF DesignerInv
<1>2. /\ queue' = Append(queue, Designer!Entry("start", q, 0))
      /\ call[q] = "idle" /\ call' = [call EXCEPT ![q] = "starting"]
      /\ UNCHANGED <<stored, memory, op, asked, aborted, doubt>>
  BY DEF Designer!RequestAIChange, Designer!Enqueue
<1> DEFINE e == Designer!Entry("start", q, 0)
<1>3. e \in Queued /\ e.kind = "start" /\ e.request = q
  BY DEF Designer!Entry, Queued, Designer!Kinds
<1> HIDE DEF e
<1>4. QueueFits' /\ queue' \in Seq(Queued)
  BY <1>1, <1>2, <1>3, CallEnqueued DEF e, Own, Expects
<1>5. DesignerTyped'
  BY <1>1, <1>2, <1>4 DEF DesignerTyped, Designer!Calls
<1>6. CallsActive'
  BY <1>1, <1>2 DEF CallsActive, DesignerTyped
<1> QED BY <1>2, <1>4, <1>5, <1>6, OutsideKeeps DEF OutsideOnly

LEMMA AgentKeeps ==
  ASSUME DesignerInv, NEW q \in Requests,
         Designer!AgentAnswers(q) \/ Designer!AgentFails(q)
  PROVE  DesignerKept
<1>1. DesignerTyped /\ QueueFits /\ CallsActive
  BY DEF DesignerInv
<1>2. CASE Designer!AgentAnswers(q)
  <2>1. /\ queue' = Append(queue, Designer!Entry("stage", q, 0))
        /\ call[q] = "answering" /\ call' = [call EXCEPT ![q] = "answered"]
        /\ UNCHANGED <<stored, memory, op, asked, aborted, doubt>>
    BY <1>2 DEF Designer!AgentAnswers, Designer!Enqueue
  <2> DEFINE e == Designer!Entry("stage", q, 0)
  <2>2. e \in Queued /\ e.kind = "stage" /\ e.request = q
    BY DEF Designer!Entry, Queued, Designer!Kinds
  <2> HIDE DEF e
  <2>3. QueueFits' /\ queue' \in Seq(Queued)
    BY <1>1, <2>1, <2>2, CallEnqueued DEF e, Own, Expects
  <2>4. DesignerTyped'
    BY <1>1, <2>1, <2>3 DEF DesignerTyped, Designer!Calls
  <2>5. CallsActive'
    BY <1>1, <2>1 DEF CallsActive, DesignerTyped
  <2> QED BY <2>1, <2>3, <2>4, <2>5, OutsideKeeps DEF OutsideOnly
<1>3. CASE Designer!AgentFails(q)
  <2>1. /\ call[q] = "answering" /\ call' = [call EXCEPT ![q] = "failing"]
        /\ UNCHANGED <<stored, memory, queue, op, asked, aborted, doubt>>
    BY <1>3 DEF Designer!AgentFails
  <2>2. QueueFits'
    BY <1>1, <2>1, CallMovesOn
  <2>3. DesignerTyped'
    BY <1>1, <2>1 DEF DesignerTyped, Designer!Calls
  <2>4. CallsActive'
    BY <1>1, <2>1 DEF CallsActive, DesignerTyped
  <2> QED BY <2>1, <2>2, <2>3, <2>4, OutsideKeeps DEF OutsideOnly
<1> QED BY <1>2, <1>3

(* While a request fails there is no proposal it could take the running    *)
(* state from.                                                             *)
LEMMA RecordFailureKeeps ==
  ASSUME DesignerInv, NEW q \in Requests, Designer!RecordFailure(q)
  PROVE  DesignerKept
<1>1. DesignerTyped /\ QueueFits /\ CallsActive
  BY DEF DesignerInv
<1>2. /\ queue' = Append(queue, Designer!Entry("record", q, 0))
      /\ call[q] = "failing" /\ call' = [call EXCEPT ![q] = "recording"]
      /\ UNCHANGED <<stored, op, asked, aborted, doubt>>
      /\ \E s \in {"cancelled", "failed"} :
           memory' = [memory EXCEPT !.requests[q] = s]
  BY DEF Designer!RecordFailure, Designer!Enqueue
<1>3. PICK s \in {"cancelled", "failed"} :
        memory' = [memory EXCEPT !.requests[q] = s]
  BY <1>2
<1>4. /\ memory' \in Memories
      /\ memory'.revs = memory.revs /\ memory'.pending = memory.pending
      /\ memory'.graph = memory.graph /\ memory'.active = memory.active
      /\ memory'.open = memory.open /\ memory'.same = memory.same
      /\ memory'.recovering = memory.recovering
      /\ \A r \in Requests : r # q =>
           memory'.requests[r] = memory.requests[r]
  BY <1>1, <1>3 DEF DesignerTyped, Memories, Designer!Lifecycles
<1> DEFINE e == Designer!Entry("record", q, 0)
<1>5. e \in Queued /\ e.kind = "record" /\ e.request = q
  BY DEF Designer!Entry, Queued, Designer!Kinds
<1> HIDE DEF e
<1>6. QueueFits' /\ queue' \in Seq(Queued)
  BY <1>1, <1>2, <1>5, CallEnqueued DEF e, Own, Expects
<1>7. DesignerTyped'
  BY <1>1, <1>2, <1>4, <1>6 DEF DesignerTyped, Designer!Calls
<1>8. CallsActive'
  BY <1>1, <1>2, <1>4 DEF CallsActive, DesignerTyped
<1>9. memory.active = q /\ (op # Nobody /\ op.kind \in Own => op.request # q)
  BY <1>1, <1>2 DEF CallsActive, QueueFits, Awaited, Own, Expects
<1>10. memory.pending = Nobody
  <2>1. q # Nobody
    BY NobodyAssumption
  <2>2. op # Nobody /\ op.kind = "stage" => memory.active = op.request
    BY <1>1 DEF QueueFits, Awaited, CallsActive, Own, Expects
  <2> QED BY <1>9, <2>1, <2>2 DEF DesignerInv, ProposalsFit, Own
<1>11. op # Nobody /\ op.kind = "start" =>
         op.request \in Requests /\ op.request # q
  BY <1>1, <1>9 DEF QueueFits, Awaited, Own
<1> QED
  BY <1>2, <1>4, <1>6, <1>7, <1>8, <1>10, <1>11, OutsideKeeps
     DEF OutsideOnly

(* A cancelled request has no proposal on screen or in a rollback.         *)
LEMMA CancelKeeps ==
  ASSUME DesignerInv, NEW q \in Requests, Designer!Cancel(q)
  PROVE  DesignerKept
<1>1. DesignerTyped /\ QueueFits /\ CallsActive
  BY DEF DesignerInv
<1>2. /\ memory.active = q /\ aborted' = aborted \cup {q}
      /\ memory.pending # Nobody => memory.pending.request # q
      /\ UNCHANGED <<stored, memory, queue, op, call, asked, doubt>>
  BY DEF Designer!Cancel
<1>3. op # Nobody /\ op.before.pending # Nobody =>
        op.before.pending.request # q
  <2>1. q # Nobody
    BY NobodyAssumption
  <2>2. op # Nobody /\ op.kind = "start" => op.before.pending = Nobody
    BY DEF DesignerInv, OperationFits
  <2>3. op # Nobody /\ op.kind # "start" => op.before.active = q
    BY <1>2 DEF DesignerInv, OperationFits
  <2>4. op # Nobody /\ op.before.pending # Nobody => op.before.active = Nobody
    BY DEF DesignerInv, ProposalsFit
  <2> QED BY <2>1, <2>2, <2>3, <2>4
<1>4. DesignerTyped' /\ QueueFits' /\ CallsActive'
  BY <1>1, <1>2 DEF DesignerTyped, QueueFits, CallsActive, Awaited
<1> QED BY <1>2, <1>3, <1>4, OutsideKeeps DEF OutsideOnly

-----------------------------------------------------------------------------
(* The operations' turns.                                                  *)

\* A process's step to another state of the memory, when no operation runs.
Allowed(kind, request, next) ==
  /\ Sound(Known \cup Lines(next))
  /\ Pends(next) /\ NotAborted(next)
  /\ next.pending # Nobody => next.active = Nobody
  /\ kind = "start" => /\ next.active = request
                       /\ next.pending = Nobody
                       /\ next.requests[request] = "running"
                       /\ memory.active = Nobody
                       /\ memory.pending = Nobody
  /\ kind # "start" => next.active = memory.active
  /\ kind = "record" => next = memory
  /\ \A q \in Requests :
       /\ call[q] \in {"answering", "answered", "failing", "recording"} =>
            next.active = q
       /\ call[q] \in {"answering", "answered"} =>
            next.requests[q] = "running"

(* A change in memory that an operation then saves.                        *)
LEMMA ChangeKeeps ==
  ASSUME DesignerInv, op = Nobody, queue # <<>>, NEW next \in Memories,
         Designer!Change(Head(queue), next),
         asked' \in [Requests -> Designer!RevisionIds],
         Head(queue).kind \notin {"edit", "undo", "graph", "recover", "stage"},
         Allowed(Head(queue).kind, Head(queue).request, next)
  PROVE  DesignerKept
<1> DEFINE e == Head(queue)
           o == Designer!Running(e, "writing", Designer!Part(next))
<1>1. /\ DesignerTyped /\ QueueFits /\ CallsActive
      /\ e \in Queued /\ Tail(queue) \in Seq(Queued)
  BY QueueHead DEF DesignerInv
<1>2. /\ queue' = Tail(queue) /\ memory' = next /\ op' = o
      /\ UNCHANGED <<stored, call, aborted, doubt>>
  BY DEF Designer!Change
<1>3. /\ Designer!Part(next) \in Saves
      /\ Designer!Part(next).revs = next.revs
      /\ Designer!Part(next).pending = next.pending
      /\ Designer!Part(next).graph = next.graph
      /\ Designer!Part(next).requests = next.requests
  BY DEF Designer!Part, Saves, Memories
<1>4. /\ o \in Running /\ o.kind = e.kind /\ o.request = e.request
      /\ o.phase = "writing" /\ o.before = memory
      /\ o.payload = Designer!Part(next) /\ o # Nobody
  <2>1. o \in Running
    BY <1>1, <1>3 DEF DesignerTyped, Running, Queued, Designer!Running
  <2> QED BY <2>1, RunningIsOne DEF Designer!Running
<1> HIDE DEF o
<1>5. DesignerTyped'
  BY <1>1, <1>2, <1>3, <1>4 DEF DesignerTyped
<1>6. HistoriesKept'
  <2>1. Lines(Designer!Part(next)) = Lines(next)
    BY <1>3 DEF Lines
  <2>2. /\ Lines(stored)' = Lines(stored) /\ Lines(memory)' = Lines(next)
        /\ Lines(op.before)' = Lines(memory)
        /\ Lines(op.payload)' = Lines(next)
    BY <1>2, <1>4, <2>1 DEF Lines
  <2>3. Known' \subseteq Known \cup Lines(next)
    BY <2>2 DEF Known
  <2> QED BY <2>3, SoundSubset DEF HistoriesKept, Allowed
<1>7. OperationFits'
  BY <1>2, <1>4 DEF OperationFits, Allowed
<1>8. Synchronised'
  BY <1>2, <1>3, <1>4 DEF DesignerInv, Synchronised, Shows, SameAs, Allowed
<1>9. QueueFits'
  <2>1. op'.kind = Head(queue).kind /\ op'.request = Head(queue).request
    BY <1>2, <1>4
  <2> QED BY <1>1, <1>2, <2>1, EntryRuns
<1>10. CallsActive'
  BY <1>1, <1>2, <1>4 DEF CallsActive, Allowed
<1>11. ProposalsFit'
  <2>1. Pends(memory)' /\ Pends(stored)' /\ NotAborted(memory)'
    BY <1>2
       DEF Allowed, DesignerInv, ProposalsFit, Pends, NotAborted,
           Designer!Source, Designer!Head1
  <2>2. Pends(op.before)' /\ NotAborted(op.before)' /\ Pends(op.payload)'
    BY <1>2, <1>3, <1>4
       DEF Allowed, DesignerInv, ProposalsFit, Pends, NotAborted,
           Designer!Source, Designer!Head1
  <2>3. memory.pending # Nobody => memory.active = Nobody
    BY DEF DesignerInv, ProposalsFit
  <2> QED BY <1>2, <1>4, <2>1, <2>2, <2>3 DEF ProposalsFit, Allowed
<1> QED
  BY <1>1, <1>2, <1>5, <1>6, <1>7, <1>8, <1>9, <1>10, <1>11, StoredStays
     DEF DesignerKept, DesignerInv

LEMMA TurnPermits ==
  ASSUME NEW k, Designer!Turn(k)
  PROVE  /\ op = Nobody /\ queue # <<>> /\ Head(queue).kind = k
         /\ k \notin {"open", "leave", "hydrate"} => memory.open
         /\ k \in {"start", "accept", "reject", "undo", "undoAI", "graph",
                   "recover", "open", "leave"} => memory.active = Nobody
         /\ k \in {"start", "undo", "undoAI", "graph", "recover", "open",
                   "leave", "edit", "ready"} => memory.pending = Nobody
         /\ k \in {"accept", "reject"} => memory.pending # Nobody
         /\ k = "stage" => Designer!Fitting(Head(queue).request)
         /\ k = "undoAI" =>
              /\ memory.revs[Len(memory.revs)].by # Nobody
              /\ memory.requests[memory.revs[Len(memory.revs)].by] = "applied"
         /\ k = "graph" => memory.graph < MaxGraph
         /\ k = "recover" => stored.graph < MaxGraph
BY DEF Designer!Turn, Designer!Permitted, Designer!NoAgent,
       Designer!NoProposal, Designer!Decides, Designer!Head1

(* Without an agent no call is under way.                                  *)
LEMMA NoAgentNoCall ==
  ASSUME DesignerInv, memory.active = Nobody, NEW q \in Requests
  PROVE  call[q] \notin {"answering", "answered", "failing", "recording"}
BY NobodyAssumption DEF DesignerInv, CallsActive

LEMMA StartKeeps ==
  ASSUME DesignerInv, Designer!Start
  PROVE  DesignerKept
<1> DEFINE q == Head(queue).request
           next == [memory EXCEPT !.requests[q] = "running",
                                  !.active = q, !.same = TRUE]
<1>1. /\ op = Nobody /\ queue # <<>> /\ Head(queue).kind = "start"
      /\ memory.active = Nobody /\ memory.pending = Nobody
  BY TurnPermits DEF Designer!Start
<1>2. /\ Designer!Change(Head(queue), next)
      /\ asked' = [asked EXCEPT ![q] = Designer!Source(memory)]
  BY Zenon DEF Designer!Start
<1>3. DesignerTyped
  BY DEF DesignerInv
<1>4. q \in Requests
  BY <1>1, <1>3, QueueHead DEF DesignerInv, QueueFits, Awaited, Own
<1> HIDE DEF q
<1>5. /\ next \in Memories /\ next.revs = memory.revs
      /\ next.pending = Nobody /\ next.active = q
      /\ next.requests[q] = "running"
  BY <1>1, <1>3, <1>4 DEF DesignerTyped, Memories, Designer!Lifecycles
<1> HIDE DEF next
<1>6. asked' \in [Requests -> Designer!RevisionIds]
  BY <1>2, <1>3, <1>4, SourceTyped DEF DesignerTyped, Memories
<1>7. Sound(Known \cup Lines(next))
  <2>1. Lines(next) \subseteq Known
    BY <1>1, <1>5 DEF Lines, Known
  <2> QED BY <2>1, SoundSubset DEF DesignerInv, HistoriesKept
<1>8. Allowed(Head(queue).kind, Head(queue).request, next)
  BY <1>1, <1>5, <1>7, NoAgentNoCall DEF Allowed, Pends, NotAborted, q
<1> QED BY <1>1, <1>2, <1>5, <1>6, <1>8, ChangeKeeps

\* A step that ends without a proposal and without an agent.
LEMMA AllowedAtRest ==
  ASSUME DesignerInv, memory.active = Nobody, NEW next \in Memories,
         next.pending = Nobody, next.active = Nobody,
         Sound(Known \cup {next.revs}),
         NEW kind, kind \notin {"start", "record"}, NEW request
  PROVE  Allowed(kind, request, next)
<1>1. Lines(next) = {next.revs}
  BY DEF Lines
<1> QED BY <1>1, NoAgentNoCall DEF Allowed, Pends, NotAborted

LEMMA AcceptKeeps ==
  ASSUME DesignerInv, Designer!Accept
  PROVE  DesignerKept
<1> DEFINE p == memory.pending
           r == Append(memory.revs, Cand(p))
           m == [memory EXCEPT !.revs = r]
           next == [m EXCEPT !.pending = Nobody,
                             !.requests[p.request] = "applied"]
<1>1. /\ op = Nobody /\ queue # <<>> /\ Head(queue).kind = "accept"
      /\ memory.active = Nobody /\ memory.pending # Nobody
      /\ asked' = asked
  BY TurnPermits DEF Designer!Accept
<1>2. DesignerTyped
  BY DEF DesignerInv
<1>3. Designer!Change(Head(queue), next)
  <2>1. Designer!Appended(memory, p.candidate, p.request) = m
    BY Zenon DEF Designer!Appended, Cand
  <2> QED BY <2>1, Zenon DEF Designer!Accept
<1>4. /\ p \in Designer!Proposals /\ p.request \in Requests
      /\ memory.revs \in Seq(Designer!Entries)
  BY <1>1, <1>2 DEF DesignerTyped, Memories, Designer!Proposals, Histories
<1>5. r \in Histories
  <2>1. Cand(p) \in Designer!Entries
    BY <1>4 DEF Cand, Designer!Entries, Designer!Proposals
  <2> QED BY <1>4, <2>1 DEF Histories
<1>6. r \in Known
  BY <1>1 DEF Known, Lines
<1> HIDE DEF p, r
<1>7. m \in Memories /\ m.revs = r /\ m.active = Nobody
  BY <1>1, <1>2, <1>5 DEF DesignerTyped, Memories
<1> HIDE DEF m
<1>8. /\ next \in Memories /\ next.revs = r
      /\ next.pending = Nobody /\ next.active = Nobody
  BY <1>4, <1>7 DEF Memories, Designer!Lifecycles
<1> HIDE DEF next
<1>9. Sound(Known \cup {next.revs})
  <2>1. Known \cup {next.revs} = Known
    BY <1>6, <1>8
  <2> QED BY <2>1 DEF DesignerInv, HistoriesKept
<1>10. Allowed(Head(queue).kind, Head(queue).request, next)
  BY <1>1, <1>8, <1>9, AllowedAtRest
<1> QED BY <1>1, <1>2, <1>3, <1>8, <1>10, ChangeKeeps DEF DesignerTyped

LEMMA RejectKeeps ==
  ASSUME DesignerInv, Designer!Reject
  PROVE  DesignerKept
<1> DEFINE p == memory.pending
           next == [memory EXCEPT !.pending = Nobody,
                                  !.requests[p.request] = "cancelled"]
<1>1. /\ op = Nobody /\ queue # <<>> /\ Head(queue).kind = "reject"
      /\ memory.active = Nobody /\ memory.pending # Nobody
      /\ asked' = asked /\ Designer!Change(Head(queue), next)
  BY TurnPermits DEF Designer!Reject
<1>2. DesignerTyped
  BY DEF DesignerInv
<1>3. p.request \in Requests
  BY <1>1, <1>2 DEF DesignerTyped, Memories, Designer!Proposals
<1> HIDE DEF p
<1>4. /\ next \in Memories /\ next.revs = memory.revs
      /\ next.pending = Nobody /\ next.active = Nobody
  BY <1>1, <1>2, <1>3 DEF DesignerTyped, Memories, Designer!Lifecycles
<1> HIDE DEF next
<1>5. Sound(Known \cup {next.revs})
  <2>1. Known \cup {next.revs} = Known
    BY <1>4 DEF Known, Lines
  <2> QED BY <2>1 DEF DesignerInv, HistoriesKept
<1>6. Allowed(Head(queue).kind, Head(queue).request, next)
  BY <1>1, <1>4, <1>5, AllowedAtRest
<1> QED BY <1>1, <1>2, <1>4, <1>6, ChangeKeeps DEF DesignerTyped

(* A revision that nobody has used is new to every history.                *)
LEMMA FreshIsNew ==
  ASSUME DesignerInv, op = Nobody \/ op.phase = "compiling",
         NEW id \in Designer!Fresh
  PROVE  /\ id \in Designer!RevisionIds
         /\ \A g \in Known : \A i \in 1..Len(g) : g[i].id # id
<1>1. /\ DesignerTyped
      /\ stored.revs \in Histories /\ memory.revs \in Histories
      /\ Designer!Created.revs \in Histories
      /\ Sound(Known)
  BY CreatedTyped
     DEF DesignerInv, DesignerTyped, Saves, Memories, HistoriesKept
<1>2. /\ id \in Designer!RevisionIds
      /\ \A i \in DOMAIN stored.revs : stored.revs[i].id # id
      /\ \A i \in DOMAIN memory.revs : memory.revs[i].id # id
      /\ stored.pending # Nobody => stored.pending.candidate # id
      /\ memory.pending # Nobody => memory.pending.candidate # id
  BY DEF Designer!Fresh
<1>3. \A i \in 1..Len(Designer!Created.revs) :
        Designer!Created.revs[i].id # id
  <2>1. Agree(stored.revs, Designer!Created.revs)
    BY <1>1 DEF Sound, Known, Lines
  <2>2. Designer!Created.revs[1].id # id
    BY <1>1, <1>2, <2>1 DEF Agree, Histories
  <2>3. Len(Designer!Created.revs) = 1
    BY CreatedTyped
  <2> QED BY <2>2, <2>3
<1>4. ASSUME NEW s, s.revs \in Histories,
             \A i \in DOMAIN s.revs : s.revs[i].id # id,
             s.pending # Nobody => s.pending.candidate # id,
             NEW g \in Lines(s), NEW i \in 1..Len(g)
      PROVE  g[i].id # id
  <2>1. s.revs \in Seq(Designer!Entries) /\ DOMAIN s.revs = 1..Len(s.revs)
    BY <1>4 DEF Histories
  <2>2. CASE g = s.revs
    BY <1>4, <2>1, <2>2
  <2>3. CASE s.pending # Nobody /\ g = Append(s.revs, Cand(s.pending))
    <3>1. Cand(s.pending).id # id
      BY <1>4, <2>3 DEF Cand
    <3>2. i \in 1..Len(s.revs) => g[i] = s.revs[i]
      BY <2>1, <2>3
    <3>3. i \notin 1..Len(s.revs) => g[i] = Cand(s.pending)
      BY <2>1, <2>3
    <3> QED BY <1>4, <2>1, <3>1, <3>2, <3>3
  <2> QED BY <1>4, <2>2, <2>3 DEF Lines
<1>5. \A g \in Lines(stored) \cup Lines(memory) :
        \A i \in 1..Len(g) : g[i].id # id
  BY <1>1, <1>2, <1>4
<1>6. op # Nobody => Lines(op.before) = Lines(memory)
  BY DEF DesignerInv, OperationFits, Lines
<1>7. \A g \in Known : g = Designer!Created.revs
                        \/ g \in Lines(stored) \cup Lines(memory)
  BY <1>6 DEF Known
<1> QED BY <1>2, <1>3, <1>5, <1>7

(* A new revision after the one in memory.                                 *)
LEMMA FreshExtends ==
  ASSUME DesignerInv, op = Nobody \/ op.phase = "compiling",
         NEW id \in Designer!Fresh, NEW by \in Requests \cup {Nobody}
  PROVE  /\ Append(memory.revs, [id |-> id, by |-> by]) \in Histories
         /\ Sound(Known \cup {Append(memory.revs, [id |-> id, by |-> by])})
<1> DEFINE e == [id |-> id, by |-> by]
<1>1. e \in Designer!Entries /\ e.id = id
  BY FreshIsNew DEF Designer!Entries
<1> HIDE DEF e
<1>2. memory.revs \in Known /\ Sound(Known)
  BY DEF DesignerInv, HistoriesKept, Known, Lines
<1>3. Sound(Known \cup {Append(memory.revs, e)})
  BY <1>1, <1>2, FreshIsNew, Extended
<1> QED BY <1>3 DEF e, Sound

LEMMA UndoAIKeeps ==
  ASSUME DesignerInv, Designer!UndoAI
  PROVE  DesignerKept
<1>1. /\ op = Nobody /\ queue # <<>> /\ Head(queue).kind = "undoAI"
      /\ memory.active = Nobody /\ memory.pending = Nobody
      /\ memory.revs[Len(memory.revs)].by # Nobody
      /\ asked' = asked
  BY TurnPermits DEF Designer!UndoAI
<1>2. DesignerTyped
  BY DEF DesignerInv
<1> DEFINE q == Designer!Head1(memory.revs).by
<1>3. PICK id \in Designer!Fresh :
        Designer!Change(Head(queue),
          [Designer!Appended(memory, id, Nobody) EXCEPT
             !.requests[q] = "undone"])
  BY DEF Designer!UndoAI
<1> DEFINE r == Append(memory.revs, [id |-> id, by |-> Nobody])
           m == [memory EXCEPT !.revs = r]
           next == [m EXCEPT !.requests[q] = "undone"]
<1>4. Designer!Change(Head(queue), next)
  <2>1. Designer!Appended(memory, id, Nobody) = m
    BY Zenon DEF Designer!Appended
  <2> QED BY <1>3, <2>1, Zenon
<1>5. q \in Requests
  <2>1. memory.revs[Len(memory.revs)] \in Designer!Entries
    BY <1>2 DEF DesignerTyped, Memories, Histories
  <2> QED BY <1>1, <2>1 DEF Designer!Head1, Designer!Entries
<1>6. r \in Histories /\ Sound(Known \cup {r})
  BY <1>1, FreshExtends
<1> HIDE DEF q, r
<1>7. /\ m \in Memories /\ m.revs = r /\ m.active = Nobody
      /\ m.pending = Nobody
  BY <1>1, <1>2, <1>6 DEF DesignerTyped, Memories
<1> HIDE DEF m
<1>8. /\ next \in Memories /\ next.revs = r
      /\ next.pending = Nobody /\ next.active = Nobody
  BY <1>5, <1>7 DEF Memories, Designer!Lifecycles
<1> HIDE DEF next
<1>9. Allowed(Head(queue).kind, Head(queue).request, next)
  BY <1>1, <1>6, <1>8, AllowedAtRest
<1> QED BY <1>1, <1>2, <1>4, <1>8, <1>9, ChangeKeeps DEF DesignerTyped

LEMMA SaveKeeps ==
  ASSUME DesignerInv, Designer!Save
  PROVE  DesignerKept
<1>1. /\ op = Nobody /\ queue # <<>>
      /\ Head(queue).kind \in {"review", "ready", "record"}
      /\ asked' = asked /\ Designer!Change(Head(queue), memory)
  BY TurnPermits DEF Designer!Save
<1>2. DesignerTyped
  BY DEF DesignerInv
<1>3. Sound(Known \cup Lines(memory))
  <2>1. Known \cup Lines(memory) = Known
    BY DEF Known
  <2> QED BY <2>1 DEF DesignerInv, HistoriesKept
<1>4. Allowed(Head(queue).kind, Head(queue).request, memory)
  BY <1>1, <1>3 DEF Allowed, DesignerInv, ProposalsFit, CallsActive
<1> QED BY <1>1, <1>2, <1>4, ChangeKeeps DEF DesignerTyped

-----------------------------------------------------------------------------
(* Operations that leave the memory alone at first.                        *)

LEMMA BeginKeeps ==
  ASSUME DesignerInv, op = Nobody, queue # <<>>, queue' = Tail(queue),
         NEW o \in Running, op' = o, o.before = memory,
         o.kind = Head(queue).kind, o.request = Head(queue).request,
         UNCHANGED <<stored, memory, call, asked, aborted, doubt>>,
         o.kind \in {"edit", "undo", "stage", "graph", "recover"},
         memory.pending = Nobody,
         o.kind = "stage" => Designer!Source(memory) = asked[o.request],
         o.phase = "compiling" => o.kind \notin {"graph", "recover"},
         o.phase = "writing" =>
           o.kind \in {"graph", "recover"} /\ o.payload \in Saves
             /\ o.payload.pending = Nobody /\ o.payload.revs = memory.revs
  PROVE  DesignerKept
<1>1. /\ DesignerTyped /\ QueueFits /\ CallsActive
      /\ Tail(queue) \in Seq(Queued) /\ o # Nobody
  BY QueueHead, RunningIsOne DEF DesignerInv
<1>2. DesignerTyped'
  BY <1>1 DEF DesignerTyped
<1>3. HistoriesKept'
  <2>1. /\ Lines(stored)' = Lines(stored) /\ Lines(memory)' = Lines(memory)
        /\ Lines(op.before)' = Lines(memory)
        /\ o.phase = "writing" => Lines(op.payload)' = Lines(memory)
    BY DEF Lines
  <2>2. Known' \subseteq Known
    BY <2>1 DEF Known
  <2> QED BY <2>2, SoundSubset DEF DesignerInv, HistoriesKept
<1>4. OperationFits'
  BY DEF OperationFits, Designer!Source, Designer!Head1
<1>5. Synchronised'
  BY <1>1 DEF DesignerInv, Synchronised, Shows, SameAs
<1>6. QueueFits'
  BY <1>1, EntryRuns
<1>7. CallsActive'
  BY <1>1 DEF CallsActive
<1>8. ProposalsFit'
  BY DEF DesignerInv, ProposalsFit, Pends, NotAborted, Designer!Source,
         Designer!Head1
<1> QED
  BY <1>1, <1>2, <1>3, <1>4, <1>5, <1>6, <1>7, <1>8, StoredStays
     DEF DesignerKept, DesignerInv

LEMMA SaveGraphKeeps ==
  ASSUME DesignerInv, Designer!SaveGraph
  PROVE  DesignerKept
<1> DEFINE s == [Designer!Part(memory) EXCEPT !.graph = @ + 1]
           o == Designer!Running(Head(queue), "writing", s)
<1>1. /\ op = Nobody /\ queue # <<>> /\ Head(queue).kind = "graph"
      /\ memory.pending = Nobody /\ memory.graph < MaxGraph
      /\ queue' = Tail(queue)
      /\ UNCHANGED <<stored, memory, call, asked, aborted, doubt>>
  BY TurnPermits DEF Designer!SaveGraph
<1>2. op' = o
  BY Zenon DEF Designer!SaveGraph
<1>3. DesignerTyped /\ Head(queue) \in Queued
  BY <1>1, QueueHead DEF DesignerInv
<1>4. s \in Saves /\ s.pending = Nobody /\ s.revs = memory.revs
  <2>1. memory.graph + 1 \in 0..MaxGraph
    BY <1>1, <1>3, NumbersAssumption DEF DesignerTyped, Memories
  <2> QED
    BY <1>1, <1>3, <2>1 DEF DesignerTyped, Memories, Saves, Designer!Part
<1> HIDE DEF s
<1>5. /\ o \in Running /\ o.kind = "graph" /\ o.before = memory
      /\ o.kind = Head(queue).kind /\ o.request = Head(queue).request
      /\ o.phase = "writing" /\ o.payload = s
  BY <1>1, <1>3, <1>4 DEF DesignerTyped, Running, Queued, Designer!Running
<1> HIDE DEF o
<1> QED BY <1>1, <1>2, <1>4, <1>5, BeginKeeps

LEMMA RecoverKeeps ==
  ASSUME DesignerInv, Designer!Recover
  PROVE  DesignerKept
<1> DEFINE s == [Designer!Part(memory) EXCEPT !.graph = stored.graph + 1]
           o == Designer!Running(Head(queue), "writing", s)
<1>1. /\ op = Nobody /\ queue # <<>> /\ Head(queue).kind = "recover"
      /\ memory.pending = Nobody /\ stored.graph < MaxGraph
      /\ queue' = Tail(queue)
      /\ UNCHANGED <<stored, memory, call, asked, aborted, doubt>>
  BY TurnPermits DEF Designer!Recover
<1>2. op' = o
  BY Zenon DEF Designer!Recover
<1>3. DesignerTyped /\ Head(queue) \in Queued
  BY <1>1, QueueHead DEF DesignerInv
<1>4. s \in Saves /\ s.pending = Nobody /\ s.revs = memory.revs
  <2>1. stored.graph + 1 \in 0..MaxGraph
    BY <1>1, <1>3, NumbersAssumption DEF DesignerTyped, Saves
  <2> QED
    BY <1>1, <1>3, <2>1 DEF DesignerTyped, Memories, Saves, Designer!Part
<1> HIDE DEF s
<1>5. /\ o \in Running /\ o.kind = "recover" /\ o.before = memory
      /\ o.kind = Head(queue).kind /\ o.request = Head(queue).request
      /\ o.phase = "writing" /\ o.payload = s
  BY <1>1, <1>3, <1>4 DEF DesignerTyped, Running, Queued, Designer!Running
<1> HIDE DEF o
<1> QED BY <1>1, <1>2, <1>4, <1>5, BeginKeeps

LEMMA CompileKeeps ==
  ASSUME DesignerInv, Designer!Compile
  PROVE  DesignerKept
<1> DEFINE o == Designer!Running(Head(queue), "compiling", Nobody)
<1>1. /\ op = Nobody /\ queue # <<>>
      /\ Head(queue).kind \in {"edit", "undo", "stage"}
      /\ Head(queue).kind # "stage" => memory.pending = Nobody
      /\ Head(queue).kind = "stage" =>
           Designer!Fitting(Head(queue).request)
      /\ queue' = Tail(queue) /\ op' = o
      /\ UNCHANGED <<stored, memory, call, asked, aborted, doubt>>
  BY TurnPermits DEF Designer!Compile
<1>2. DesignerTyped /\ Head(queue) \in Queued /\ Head(queue) = queue[1]
      /\ 1 \in 1..Len(queue)
  BY <1>1, QueueHead DEF DesignerInv
<1>3. memory.pending = Nobody
  <2>1. Awaited(queue[1])
    BY <1>2 DEF DesignerInv, QueueFits
  <2>2. Head(queue).kind = "stage" =>
          memory.active = Head(queue).request /\ memory.active # Nobody
    BY <1>2, <2>1, NobodyAssumption
       DEF DesignerInv, CallsActive, Awaited, Own, Expects
  <2> QED BY <1>1, <2>2 DEF DesignerInv, ProposalsFit
<1>4. /\ o \in Running /\ o.before = memory
      /\ o.kind = Head(queue).kind /\ o.request = Head(queue).request
      /\ o.phase = "compiling"
  BY <1>2 DEF DesignerTyped, Running, Queued, Designer!Running
<1> HIDE DEF o
<1>5. o.kind = "stage" => Designer!Source(memory) = asked[o.request]
  BY <1>1, <1>4 DEF Designer!Fitting
<1> QED BY <1>1, <1>3, <1>4, <1>5, BeginKeeps

-----------------------------------------------------------------------------
(* Operations that end at once.                                            *)

LEMMA AtRestKeeps ==
  ASSUME DesignerInv, op = Nobody, op' = Nobody, queue # <<>>,
         queue' = Tail(queue), NEW next \in Memories, memory' = next,
         UNCHANGED <<stored, call, asked, aborted>>, doubt' \in BOOLEAN,
         Allowed("leave", Nobody, next),
         next.open /\ ~doubt' => Shows(next, stored)
  PROVE  DesignerKept
<1>1. /\ DesignerTyped /\ QueueFits /\ CallsActive
      /\ Tail(queue) \in Seq(Queued)
  BY QueueHead DEF DesignerInv
<1>2. DesignerTyped'
  BY <1>1 DEF DesignerTyped
<1>3. HistoriesKept'
  <2>1. Lines(stored)' = Lines(stored) /\ Lines(memory)' = Lines(next)
    BY DEF Lines
  <2>2. Known' \subseteq Known \cup Lines(next)
    BY <2>1 DEF Known
  <2> QED BY <2>2, SoundSubset DEF Allowed, HistoriesKept
<1>4. OperationFits' /\ Synchronised'
  BY DEF OperationFits, Synchronised, Shows
<1>5. QueueFits'
  BY <1>1, EntryRuns
<1>6. CallsActive'
  BY DEF CallsActive, Allowed
<1>7. ProposalsFit'
  BY DEF DesignerInv, ProposalsFit, Allowed, Pends, NotAborted,
         Designer!Source, Designer!Head1
<1> QED
  BY <1>1, <1>2, <1>3, <1>4, <1>5, <1>6, <1>7, StoredStays
     DEF DesignerKept, DesignerInv

LEMMA HydrateKeeps ==
  ASSUME DesignerInv, Designer!Hydrate
  PROVE  DesignerKept
<1>1. /\ op = Nobody /\ queue # <<>> /\ queue' = Tail(queue)
      /\ UNCHANGED <<stored, op, call, asked, aborted, doubt>>
  BY TurnPermits DEF Designer!Hydrate
<1>2. PICK next \in Designer!Hydrations(memory) : memory' = next
  BY DEF Designer!Hydrate
<1>3. DesignerTyped
  BY DEF DesignerInv
<1>4. /\ next \in Memories /\ next.revs = memory.revs
      /\ next.pending = memory.pending /\ next.requests = memory.requests
      /\ next.active = memory.active
      /\ next.open = memory.open /\ next.same = memory.same
      /\ next.open /\ ~next.recovering => next.graph = stored.graph
  BY <1>3, HydrationsFit DEF DesignerTyped
<1>5. Sound(Known \cup Lines(next))
  <2>1. Lines(next) \subseteq Known
    BY <1>4 DEF Known, Lines
  <2> QED BY <2>1, SoundSubset DEF DesignerInv, HistoriesKept
<1>6. Allowed("leave", Nobody, next)
  BY <1>1, <1>4, <1>5
     DEF Allowed, DesignerInv, ProposalsFit, CallsActive, Pends, NotAborted,
         Designer!Source, Designer!Head1
<1>7. next.open /\ ~doubt' => Shows(next, stored)
  BY <1>1, <1>4 DEF DesignerInv, Synchronised, Shows
<1> QED
  BY <1>1, <1>2, <1>3, <1>4, <1>6, <1>7, AtRestKeeps DEF DesignerTyped

(* A project that does not open leaves what was open.                      *)
LEMMA NotOpenedKeeps ==
  ASSUME DesignerInv, Designer!NotOpened, op = Nobody, queue # <<>>,
         memory.active = Nobody, memory.pending = Nobody,
         queue' = Tail(queue), UNCHANGED <<stored, call, asked, aborted>>
  PROVE  DesignerKept
<1>1. DesignerTyped
  BY DEF DesignerInv
<1>2. UNCHANGED <<memory, op, doubt>>
  BY DEF Designer!NotOpened
<1>3. Sound(Known \cup {memory.revs})
  <2>1. Known \cup {memory.revs} = Known
    BY DEF Known, Lines
  <2> QED BY <2>1 DEF DesignerInv, HistoriesKept
<1>4. memory \in Memories
  BY <1>1 DEF DesignerTyped
<1>5. Allowed("leave", Nobody, memory)
  BY <1>3, <1>4, AllowedAtRest
<1>6. memory.open /\ ~doubt' => Shows(memory, stored)
  BY <1>2 DEF DesignerInv, Synchronised
<1> QED BY <1>1, <1>2, <1>4, <1>5, <1>6, AtRestKeeps DEF DesignerTyped

LEMMA LeaveKeeps ==
  ASSUME DesignerInv, Designer!Leave
  PROVE  DesignerKept
<1>0. /\ op = Nobody /\ queue # <<>>
      /\ memory.active = Nobody /\ memory.pending = Nobody
      /\ queue' = Tail(queue) /\ UNCHANGED <<stored, call, asked, aborted>>
      /\ Designer!Leaves \/ Designer!NotOpened
  BY TurnPermits DEF Designer!Leave
<1> SUFFICES ASSUME Designer!Leaves PROVE DesignerKept
  BY <1>0, NotOpenedKeeps
<1>1. op' = op /\ doubt' = FALSE
  BY DEF Designer!Leaves
<1>2. PICK next \in Designer!Hydrations(Designer!Closed) : memory' = next
  BY DEF Designer!Leaves
<1>3. /\ next \in Memories /\ next.pending = Nobody
      /\ next.active = Nobody /\ ~next.open /\ next.revs \in Known
  BY ElsewhereFits DEF DesignerInv, DesignerTyped, Known
<1>4. Sound(Known \cup {next.revs})
  <2>1. Known \cup {next.revs} = Known
    BY <1>3
  <2> QED BY <2>1 DEF DesignerInv, HistoriesKept
<1>5. Allowed("leave", Nobody, next)
  BY <1>0, <1>3, <1>4, AllowedAtRest
<1> QED BY <1>0, <1>1, <1>2, <1>3, <1>5, AtRestKeeps

(* What the file holds can be opened: a proposal keeps its request.        *)
LEMMA HydratedFits ==
  ASSUME DesignerInv, memory.active = Nobody,
         NEW next \in Designer!Hydrations(Designer!Hydrated)
  PROVE  /\ next \in Memories /\ Shows(next, stored)
         /\ next.active = Nobody
         /\ \A request : Allowed("open", request, next)
         /\ Allowed("leave", Nobody, next)
<1> DEFINE h == Designer!Hydrated
           saved == [q \in Requests |->
                       IF q \in Designer!Interrupted THEN "failed"
                       ELSE stored.requests[q]]
<1>1. DesignerTyped
  BY DEF DesignerInv
<1>2. saved \in [Requests -> Designer!Lifecycles]
  BY <1>1 DEF DesignerTyped, Saves, Designer!Lifecycles
<1>3. /\ h.revs = stored.revs /\ h.pending = stored.pending
      /\ h.requests = saved /\ h.open
      /\ h.active = Nobody /\ ~h.same
  BY DEF Designer!Hydrated
<1>4. h \in Memories
  BY <1>1, <1>2 DEF DesignerTyped, Saves, Memories, Designer!Hydrated
<1> HIDE DEF h
<1>5. next \in Designer!Hydrations(h)
  BY DEF h
<1>6. /\ next \in Memories /\ next.revs = stored.revs
      /\ next.pending = stored.pending /\ next.requests = saved
      /\ next.active = Nobody /\ ~next.same
      /\ ~next.recovering => next.graph = stored.graph
  BY <1>1, <1>3, <1>4, <1>5, HydrationsFit DEF DesignerTyped
<1>7. Pends(next)
  <2>1. stored.pending # Nobody =>
          stored.pending.request \in Requests
            /\ stored.pending.request \notin Designer!Interrupted
    BY <1>1
       DEF DesignerTyped, Saves, Designer!Proposals, Designer!Interrupted
  <2> QED
    BY <1>6, <2>1
       DEF DesignerInv, ProposalsFit, Pends, Designer!Source, Designer!Head1
<1>8. Sound(Known \cup Lines(next))
  <2>1. Lines(next) \subseteq Known
    BY <1>6 DEF Known, Lines
  <2> QED BY <2>1, SoundSubset DEF DesignerInv, HistoriesKept
<1>9. \A request, kind :
        kind \notin {"start", "record"} => Allowed(kind, request, next)
  BY <1>6, <1>7, <1>8, NoAgentNoCall DEF Allowed, NotAborted
<1> QED BY <1>6, <1>9 DEF Shows

LEMMA OpenKeeps ==
  ASSUME DesignerInv, Designer!Open
  PROVE  DesignerKept
<1>1. /\ op = Nobody /\ queue # <<>> /\ Head(queue).kind = "open"
      /\ memory.active = Nobody /\ memory.pending = Nobody
      /\ queue' = Tail(queue)
      /\ UNCHANGED <<stored, call, asked, aborted>>
  BY TurnPermits DEF Designer!Open
<1>2. DesignerTyped
  BY DEF DesignerInv
<1>3. CASE Designer!NotOpened
  BY <1>1, <1>3, NotOpenedKeeps
<1>4. CASE Designer!Opens
  <2>1. PICK next \in Designer!Hydrations(Designer!Hydrated) : memory' = next
    BY <1>4 DEF Designer!Opens
  <2>2. /\ next \in Memories /\ Shows(next, stored)
        /\ Allowed("open", Head(queue).request, next)
        /\ Allowed("leave", Nobody, next)
    BY <1>1, HydratedFits
  <2>3. CASE op' = op /\ doubt' = FALSE
    BY <1>1, <2>1, <2>2, <2>3, AtRestKeeps
  <2>4. CASE /\ op' = Designer!Running(Head(queue), "writing",
                                       Designer!Part(next))
             /\ UNCHANGED doubt
    <3>1. Designer!Change(Head(queue), next)
      BY <1>1, <2>1, <2>4 DEF Designer!Change
    <3>2. asked' \in [Requests -> Designer!RevisionIds]
      BY <1>1, <1>2 DEF DesignerTyped
    <3> QED BY <1>1, <2>2, <3>1, <3>2, ChangeKeeps
  <2>5. \/ op' = op /\ doubt' = FALSE
        \/ /\ op' = Designer!Running(Head(queue), "writing",
                                     Designer!Part(next))
           /\ UNCHANGED doubt
    BY <1>4, <2>1 DEF Designer!Opens
  <2> QED BY <2>3, <2>4, <2>5
<1> QED BY <1>3, <1>4 DEF Designer!Open

LEMMA RefuseKeeps ==
  ASSUME DesignerInv, Designer!Refuse
  PROVE  DesignerKept
<1> DEFINE e == Head(queue)
<1>1. /\ op = Nobody /\ queue # <<>> /\ queue' = Tail(queue)
      /\ UNCHANGED <<stored, memory, op, asked, aborted, doubt>>
  BY DEF Designer!Refuse
<1>2. call' = CASE e.kind = "start" -> [call EXCEPT ![e.request] = "ended"]
                [] e.kind = "stage" -> [call EXCEPT ![e.request] = "failing"]
                [] OTHER -> call
  BY DEF Designer!Refuse, Designer!Rejected
<1>3. /\ DesignerTyped /\ QueueFits /\ CallsActive
      /\ Tail(queue) \in Seq(Queued) /\ e = queue[1] /\ 1 \in 1..Len(queue)
  BY <1>1, QueueHead DEF DesignerInv
<1>4. e.kind \in Own => e.request \in Requests
                          /\ call[e.request] = Expects(e.kind)
  BY <1>3 DEF QueueFits, Awaited
<1> HIDE DEF e
<1>5. CASE e.kind \in {"start", "stage"}
  <2>1. PICK state \in {"ended", "failing"} :
          /\ call' = [call EXCEPT ![e.request] = state]
          /\ e.kind = "start" => state = "ended"
          /\ e.kind = "stage" => state = "failing"
    BY <1>2, <1>5
  <2>2. QueueFits'
    <3>1. /\ op' = Nobody /\ Head(queue).kind \in Own
          /\ call' = [call EXCEPT ![Head(queue).request] = state]
      BY <1>1, <1>5, <2>1 DEF Own, e
    <3> QED BY <1>1, <1>3, <3>1, EntryRefused
  <2>3. DesignerTyped'
    BY <1>1, <1>3, <2>1 DEF DesignerTyped, Designer!Calls
  <2>4. CallsActive'
    BY <1>1, <1>3, <1>4, <1>5, <2>1
       DEF CallsActive, DesignerTyped, Own, Expects
  <2> QED BY <1>1, <2>2, <2>3, <2>4, OutsideKeeps DEF OutsideOnly
<1>6. CASE e.kind \notin {"start", "stage"}
  <2>1. call' = call
    BY <1>2, <1>6
  <2>2. QueueFits'
    BY <1>1, <1>3, <2>1, EntryRuns
  <2>3. DesignerTyped' /\ CallsActive'
    BY <1>1, <1>3, <2>1 DEF DesignerTyped, CallsActive
  <2> QED BY <1>1, <2>2, <2>3, OutsideKeeps DEF OutsideOnly
<1> QED BY <1>5, <1>6

-----------------------------------------------------------------------------
(* A candidate that compiled.                                              *)

LEMMA StageKeeps ==
  ASSUME DesignerInv, Designer!StageProposal
  PROVE  DesignerKept
<1> DEFINE q == op.request
<1>1. /\ op # Nobody /\ op.phase = "compiling" /\ op.kind = "stage"
      /\ q \notin aborted
      /\ UNCHANGED <<stored, queue, call, asked, aborted, doubt>>
  BY DEF Designer!StageProposal, Designer!Uncancelled
<1>2. /\ DesignerTyped /\ QueueFits /\ CallsActive
      /\ op \in Running /\ memory \in Memories
  BY <1>1 DEF DesignerInv, DesignerTyped
<1>3. /\ q \in Requests /\ call[q] = "answered" /\ memory.active = q
      /\ memory.requests[q] = "running"
  BY <1>1, <1>2 DEF QueueFits, Awaited, CallsActive, Own, Expects
<1>4. /\ memory.pending = Nobody /\ op.before.pending = Nobody
      /\ Designer!Source(memory) = asked[q]
  BY <1>1 DEF DesignerInv, OperationFits
<1>5. PICK id \in Designer!Fresh :
        LET next == [memory EXCEPT !.pending =
                       [request |-> q, base |-> Designer!Source(memory),
                        candidate |-> id, asked |-> asked[q]]]
        IN  /\ memory' = next
            /\ op' = [op EXCEPT !.phase = "writing",
                                !.payload = Designer!Part(next)]
  BY Zenon DEF Designer!StageProposal
<1> DEFINE p == [request |-> q, base |-> Designer!Source(memory),
                 candidate |-> id, asked |-> asked[q]]
           next == [memory EXCEPT !.pending = p]
           s == Designer!Part(next)
           w == [op EXCEPT !.phase = "writing"]
           o == [w EXCEPT !.payload = s]
<1>6. memory' = next /\ op' = o
  BY <1>5, Zenon
<1>7. p \in Designer!Proposals
  <2>1. Designer!Source(memory) \in Designer!RevisionIds
    BY <1>2, SourceTyped DEF Memories
  <2>2. id \in Designer!RevisionIds
    BY <1>1, FreshIsNew
  <2> QED BY <1>3, <1>4, <2>1, <2>2 DEF Designer!Proposals
<1>8. p # Nobody
  BY <1>7, RecordsAssumption
<1>9. /\ p.request = q /\ p.base = asked[q] /\ p.asked = asked[q]
      /\ Cand(p) = [id |-> id, by |-> q]
  BY <1>4 DEF Cand
<1> HIDE DEF p
<1>10. /\ next \in Memories /\ next.pending = p /\ next.revs = memory.revs
       /\ next.graph = memory.graph /\ next.requests = memory.requests
       /\ next.active = memory.active /\ next.open = memory.open
       /\ next.same = memory.same
  BY <1>2, <1>7 DEF Memories
<1> HIDE DEF next
<1>11. /\ s \in Saves /\ s.pending = p /\ s.revs = memory.revs
       /\ s.graph = memory.graph /\ s.requests = memory.requests
  BY <1>10 DEF Designer!Part, Saves, Memories
<1> HIDE DEF s
<1>12. /\ w \in Running /\ w.phase = "writing" /\ w.kind = op.kind
       /\ w.request = q /\ w.before = op.before
  BY <1>2 DEF Running
<1> HIDE DEF w
<1>13. /\ o \in Running /\ o.phase = "writing" /\ o.kind = "stage"
       /\ o.request = q /\ o.before = op.before /\ o.payload = s
       /\ o # Nobody
  <2>1. /\ o \in Running /\ o.phase = "writing" /\ o.kind = "stage"
        /\ o.request = q /\ o.before = op.before /\ o.payload = s
    BY <1>1, <1>11, <1>12 DEF Running
  <2> QED BY <2>1, RunningIsOne
<1> HIDE DEF o
<1>14. DesignerTyped'
  BY <1>1, <1>2, <1>6, <1>10, <1>11, <1>13 DEF DesignerTyped
<1>15. HistoriesKept'
  <2> DEFINE a == Append(memory.revs, Cand(p))
  <2>1. Lines(next) = {memory.revs, a} /\ Lines(s) = {memory.revs, a}
    BY <1>8, <1>10, <1>11 DEF Lines
  <2>2. /\ Lines(stored)' = Lines(stored) /\ Lines(memory)' = Lines(next)
        /\ Lines(op.before)' = Lines(op.before)
        /\ Lines(op.payload)' = Lines(s)
    BY <1>1, <1>6, <1>13 DEF Lines
  <2> HIDE DEF a
  <2>3. Known' \subseteq Known \cup {a}
    BY <1>1, <2>1, <2>2 DEF Known, Lines
  <2>4. Sound(Known \cup {a})
    BY <1>1, <1>3, <1>9, FreshExtends DEF a
  <2> QED BY <2>3, <2>4, SoundSubset DEF HistoriesKept
<1>16. OperationFits'
  BY <1>1, <1>4, <1>6, <1>10, <1>13 DEF DesignerInv, OperationFits
<1>17. Synchronised'
  BY <1>1, <1>6, <1>10, <1>11, <1>13
     DEF DesignerInv, Synchronised, Shows, SameAs
<1>18. QueueFits' /\ CallsActive'
  BY <1>1, <1>2, <1>6, <1>10, <1>13 DEF QueueFits, CallsActive, Awaited
<1>19. ProposalsFit'
  <2>1. Pends(next) /\ Pends(s)
    BY <1>3, <1>4, <1>9, <1>10, <1>11
       DEF Pends, Designer!Source, Designer!Head1
  <2>2. Pends(op.before)' /\ NotAborted(op.before)' /\ Pends(stored)'
    BY <1>1, <1>6, <1>13
       DEF DesignerInv, ProposalsFit, Pends, NotAborted, Designer!Source,
           Designer!Head1
  <2>3. Pends(memory)' /\ Pends(op.payload)' /\ NotAborted(memory)'
    BY <1>1, <1>6, <1>9, <1>10, <1>13, <2>1
       DEF Pends, NotAborted, Designer!Source, Designer!Head1
  <2> QED
    BY <1>4, <1>6, <1>9, <1>10, <1>13, <2>2, <2>3 DEF ProposalsFit
<1> QED
  BY <1>1, <1>2, <1>14, <1>15, <1>16, <1>17, <1>18, <1>19, StoredStays
     DEF DesignerKept, DesignerInv

LEMMA CommitKeeps ==
  ASSUME DesignerInv, Designer!CommitCandidate
  PROVE  DesignerKept
<1>1. /\ op # Nobody /\ op.phase = "compiling" /\ op.kind \in {"edit", "undo"}
      /\ UNCHANGED <<stored, memory, queue, call, asked, aborted, doubt>>
  BY DEF Designer!CommitCandidate
<1>2. /\ DesignerTyped /\ QueueFits /\ CallsActive
      /\ op \in Running /\ memory \in Memories
  BY <1>1 DEF DesignerInv, DesignerTyped
<1>3. memory.pending = Nobody
  BY <1>1 DEF DesignerInv, OperationFits
<1>4. PICK id \in Designer!Fresh :
        op' = [op EXCEPT !.phase = "writing",
                 !.payload = Designer!Appended(Designer!Part(memory), id,
                                               Nobody)]
  BY Zenon DEF Designer!CommitCandidate
<1> DEFINE r == Append(memory.revs, [id |-> id, by |-> Nobody])
           s == Designer!Appended(Designer!Part(memory), id, Nobody)
           w == [op EXCEPT !.phase = "writing"]
           o == [w EXCEPT !.payload = s]
<1>5. op' = o
  BY <1>4, Zenon
<1>6. r \in Histories /\ Sound(Known \cup {r})
  BY <1>1, FreshExtends
<1>7. /\ s \in Saves /\ s.pending = Nobody /\ s.revs = r
      /\ s.graph = memory.graph
  BY <1>2, <1>3, <1>6
     DEF Designer!Appended, Designer!Part, Saves, Memories
<1> HIDE DEF r, s
<1>8. /\ w \in Running /\ w.phase = "writing" /\ w.kind = op.kind
      /\ w.request = op.request /\ w.before = op.before
  BY <1>2 DEF Running
<1> HIDE DEF w
<1>9. /\ o \in Running /\ o.phase = "writing" /\ o.kind = op.kind
      /\ o.request = op.request /\ o.before = op.before /\ o.payload = s
      /\ o # Nobody
  <2>1. /\ o \in Running /\ o.phase = "writing" /\ o.kind = op.kind
        /\ o.request = op.request /\ o.before = op.before /\ o.payload = s
    BY <1>7, <1>8 DEF Running
  <2> QED BY <2>1, RunningIsOne
<1> HIDE DEF o
<1>10. DesignerTyped'
  BY <1>1, <1>2, <1>5, <1>7, <1>9 DEF DesignerTyped
<1>11. HistoriesKept'
  <2>1. Lines(s) = {r}
    BY <1>7 DEF Lines
  <2>2. /\ Lines(stored)' = Lines(stored) /\ Lines(memory)' = Lines(memory)
        /\ Lines(op.before)' = Lines(op.before)
        /\ Lines(op.payload)' = Lines(s)
    BY <1>1, <1>5, <1>9 DEF Lines
  <2>3. Known' \subseteq Known \cup {r}
    BY <1>1, <2>1, <2>2 DEF Known
  <2> QED BY <1>6, <2>3, SoundSubset DEF HistoriesKept
<1>12. OperationFits'
  BY <1>1, <1>3, <1>5, <1>7, <1>9 DEF DesignerInv, OperationFits
<1>13. Synchronised'
  BY <1>1, <1>3, <1>5, <1>7, <1>9 DEF DesignerInv, Synchronised, Shows, SameAs
<1>14. QueueFits' /\ CallsActive'
  BY <1>1, <1>2, <1>5, <1>9 DEF QueueFits, CallsActive, Awaited
<1>15. ProposalsFit'
  <2>1. Pends(op.before)' /\ NotAborted(op.before)' /\ Pends(stored)'
    BY <1>1, <1>5, <1>9
       DEF DesignerInv, ProposalsFit, Pends, NotAborted, Designer!Source,
           Designer!Head1
  <2> QED
    BY <1>1, <1>3, <1>5, <1>7, <1>9, <2>1
       DEF DesignerInv, ProposalsFit, Pends, NotAborted
<1> QED
  BY <1>1, <1>2, <1>10, <1>11, <1>12, <1>13, <1>14, <1>15, StoredStays
     DEF DesignerKept, DesignerInv

-----------------------------------------------------------------------------
(* An operation ends, and leaves the memory and the file as one of the     *)
(* states it knew.                                                         *)

LEMMA RestFits ==
  ASSUME DesignerInv, DesignerTyped', op' = Nobody,
         NEW s, NEW next, stored' = s, memory' = next,
         Lines(s) \cup Lines(next) \subseteq Known,
         next.open /\ ~doubt' => Shows(next, s),
         QueueFits', CallsActive', Pends(s), Pends(next),
         NotAborted(memory)',
         next.pending # Nobody => next.active = Nobody
  PROVE  DesignerInv'
<1>1. HistoriesKept'
  <2>1. Lines(stored)' = Lines(s) /\ Lines(memory)' = Lines(next)
    BY DEF Lines
  <2>2. Known' \subseteq Known
    BY <2>1 DEF Known
  <2> QED BY <2>2, SoundSubset DEF DesignerInv, HistoriesKept
<1>2. OperationFits' /\ Synchronised'
  BY DEF OperationFits, Synchronised, Shows
<1>3. ProposalsFit'
  BY DEF ProposalsFit, Pends, Designer!Source, Designer!Head1
<1> QED BY <1>1, <1>2, <1>3 DEF DesignerInv

LEMMA CompileFailsKeeps ==
  ASSUME DesignerInv, Designer!CompileFails
  PROVE  DesignerKept
<1> DEFINE next == IF op.kind = "edit" THEN memory ELSE op.before
<1>1. /\ op # Nobody /\ op.phase = "compiling" /\ op' = Nobody
      /\ memory' = next
      /\ UNCHANGED <<stored, queue, asked, aborted, doubt>>
  BY DEF Designer!CompileFails
<1>2. call' = IF op.kind = "stage"
              THEN [call EXCEPT ![op.request] = "failing"] ELSE call
  BY DEF Designer!CompileFails
<1>3. /\ DesignerTyped /\ QueueFits /\ CallsActive
      /\ op.before \in Memories
  BY <1>1 DEF DesignerInv, DesignerTyped, Running
<1>4. /\ op.kind \in {"edit", "undo", "stage"}
      /\ op.before.revs = memory.revs /\ op.before.pending = memory.pending
      /\ op.before.active = memory.active
      /\ op.kind = "edit" => memory.pending = Nobody
  BY <1>1 DEF DesignerInv, OperationFits
<1>5. op.kind = "stage" =>
        op.request \in Requests /\ call[op.request] = "answered"
  BY <1>1, <1>3 DEF QueueFits, Awaited, Own, Expects
<1>6. /\ next \in Memories /\ next.revs = memory.revs
      /\ next.pending = memory.pending /\ next.active = memory.active
      /\ \A q \in Requests : call[q] \in {"answering", "answered"} =>
           next.requests[q] = "running"
  BY <1>1, <1>3, <1>4 DEF DesignerTyped, CallsActive
<1>7. DesignerTyped'
  BY <1>1, <1>2, <1>3, <1>6 DEF DesignerTyped, Designer!Calls
<1>8. Lines(stored) \cup Lines(next) \subseteq Known
  BY <1>6 DEF Lines, Known
<1>9. next.open /\ ~doubt' => Shows(next, stored)
  BY <1>1 DEF DesignerInv, Synchronised
<1>10. QueueFits'
  BY <1>1, <1>2, <1>3, OperationEnds DEF Own
<1>11. CallsActive'
  BY <1>1, <1>2, <1>3, <1>5, <1>6 DEF CallsActive, DesignerTyped
<1>12. /\ Pends(stored) /\ Pends(next) /\ NotAborted(memory)'
       /\ next.pending # Nobody => next.active = Nobody
  BY <1>1, <1>4 DEF DesignerInv, ProposalsFit, NotAborted
<1> HIDE DEF next
<1> QED
  BY <1>1, <1>3, <1>7, <1>8, <1>9, <1>10, <1>11, <1>12, RestFits, StoredStays
     DEF DesignerKept

(* A valid save continues the stored history.                              *)
LEMMA ValidExtends ==
  ASSUME DesignerInv, Designer!Writing, Designer!Valid, stored' = op.payload
  PROVE  Grown
<1> DEFINE g == stored.revs
           h == op.payload.revs
<1>1. /\ op # Nobody /\ op.phase = "writing"
      /\ g \in Histories /\ h \in Histories
  BY DEF Designer!Writing, DesignerInv, DesignerTyped, Saves
<1>2. Agree(g, h)
  BY <1>1 DEF DesignerInv, HistoriesKept, Sound, Known, Lines
<1>3. \/ g[Len(g)].id = h[Len(h)].id
      \/ Len(h) > 1 /\ h[Len(h) - 1].id = g[Len(g)].id
  BY DEF Designer!Valid, Designer!Succeeds, Designer!Source, Designer!Head1
<1>4. DOMAIN g = 1..Len(g)
  BY <1>1 DEF Histories
<1> HIDE DEF g, h
<1>5. Len(g) <= Len(h) /\ \A i \in 1..Len(g) : g[i] = h[i]
  BY <1>1, <1>2, <1>3, SuccessorExtends
<1>6. stored.graph <= op.payload.graph
  <2>1. stored.graph \in Int
    BY NumbersAssumption DEF DesignerInv, DesignerTyped, Saves
  <2> QED BY <2>1 DEF Designer!Valid, Designer!FitsGraph
<1> QED BY <1>4, <1>5, <1>6 DEF Grown, g, h

(* A request's call leaves the memory's agent when it ends.                *)
LEMMA FinishedFits ==
  ASSUME NEW m \in Memories, NEW q \in Requests \cup {Nobody}
  PROVE  /\ Designer!Finished(m, q) \in Memories
         /\ Designer!Finished(m, q).revs = m.revs
         /\ Designer!Finished(m, q).requests = m.requests
         /\ Designer!Finished(m, q).pending = m.pending
         /\ Designer!Finished(m, q).graph = m.graph
         /\ Designer!Finished(m, q).open = m.open
         /\ Designer!Finished(m, q).same = m.same
         /\ Designer!Finished(m, q).recovering = m.recovering
         /\ Designer!Finished(m, q).active =
              IF q = Nobody THEN m.active ELSE Nobody
BY DEF Designer!Finished, Memories

LEMMA SavedKeeps ==
  ASSUME DesignerInv, Designer!Saved
  PROVE  DesignerKept
<1> DEFINE s == op.payload
           advanced == op.kind \in {"edit", "undo"}
           regraphed == op.kind \in {"graph", "recover"}
           early == advanced \/ regraphed
           ends == op.kind \in {"stage", "record"}
           adopted == CASE advanced -> [memory EXCEPT !.revs = s.revs]
                        [] regraphed -> [memory EXCEPT !.graph = s.graph,
                                                   !.recovering = FALSE]
                        [] OTHER -> memory
           q == IF ends THEN op.request ELSE Nobody
           next == Designer!Finished(adopted, q)
<1>1. /\ op # Nobody /\ op.phase = "writing" /\ stored' = s /\ op' = Nobody
      /\ UNCHANGED <<queue, asked, aborted>>
      /\ Designer!Writing /\ Designer!Valid
  BY DEF Designer!Saved, Designer!Writing
<1>2. memory' = next
  BY Zenon DEF Designer!Saved
<1>3. call' = CASE op.kind = "start" ->
                     [call EXCEPT ![op.request] = "answering"]
                [] ends -> [call EXCEPT ![op.request] = "ended"]
                [] OTHER -> call
  BY DEF Designer!Saved
<1>4. doubt' \in BOOLEAN
  BY DEF Designer!Saved
<1>5. /\ DesignerTyped /\ QueueFits /\ CallsActive
      /\ s \in Saves /\ memory \in Memories
  BY <1>1 DEF DesignerInv, DesignerTyped
<1>6. op.kind \in Own => /\ op.request \in Requests
                         /\ call[op.request] = Expects(op.kind)
  BY <1>1, <1>5 DEF QueueFits, Awaited
<1>7. /\ early => memory.pending = Nobody
      /\ s.pending = memory.pending
      /\ ~early => SameAs(s, memory)
      /\ op.kind = "start" => /\ memory.active = op.request
                              /\ memory.pending = Nobody
                              /\ memory.requests[op.request] = "running"
      /\ Pends(s) /\ Pends(memory) /\ NotAborted(memory)
      /\ memory.pending # Nobody => memory.active = Nobody \/ op.kind = "stage"
  BY <1>1
     DEF DesignerInv, OperationFits, Synchronised, ProposalsFit
<1>8. Grown
  BY <1>1, ValidExtends
<1>9. /\ regraphed => s.revs = memory.revs
      /\ advanced => s.graph = memory.graph
  BY <1>1 DEF DesignerInv, OperationFits, Synchronised
<1>10. /\ adopted \in Memories /\ Shows(adopted, s)
       /\ adopted.requests = memory.requests
       /\ adopted.active = memory.active
       /\ ~early => adopted = memory
  <2>1. CASE advanced
    <3>1. adopted = [memory EXCEPT !.revs = s.revs]
      BY <2>1
    <3> HIDE DEF adopted
    <3> QED BY <1>5, <1>7, <1>9, <2>1, <3>1 DEF Memories, Saves, Shows
  <2>2. CASE regraphed
    <3>1. adopted = [memory EXCEPT !.graph = s.graph, !.recovering = FALSE]
      BY <2>2
    <3> HIDE DEF adopted
    <3> QED BY <1>5, <1>7, <1>9, <2>2, <3>1 DEF Memories, Saves, Shows
  <2>3. CASE ~early
    BY <1>5, <1>7, <2>3 DEF SameAs, Shows
  <2> QED BY <2>1, <2>2, <2>3
<1> HIDE DEF adopted
<1>11. q \in Requests \cup {Nobody} /\ (q = Nobody <=> ~ends)
  BY <1>6, NobodyAssumption DEF Own
<1>12. /\ next \in Memories /\ Shows(next, s)
       /\ next.requests = memory.requests
       /\ next.active = IF ends THEN Nobody ELSE memory.active
       /\ next.pending = memory.pending
       /\ ~early => next.same = memory.same
  BY <1>7, <1>10, <1>11, FinishedFits DEF Shows
<1> HIDE DEF q, next
<1>13. DesignerTyped'
  BY <1>1, <1>2, <1>3, <1>4, <1>5, <1>12 DEF DesignerTyped, Designer!Calls
<1>14. Lines(s) \cup Lines(next) \subseteq Known
  BY <1>1, <1>12 DEF Shows, Lines, Known
<1>15. QueueFits'
  <2>1. PICK state :
          \/ call' = call
          \/ op.kind \in Own /\ call' = [call EXCEPT ![op.request] = state]
    BY <1>3 DEF Own
  <2> QED BY <1>1, <1>5, <2>1, OperationEnds
<1>16. CallsActive'
  <2>1. CASE op.kind = "start"
    BY <1>1, <1>2, <1>3, <1>5, <1>6, <1>7, <1>12, <2>1
       DEF CallsActive, DesignerTyped, Own
  <2>2. CASE ends
    <3>1. memory.active = op.request
      BY <1>5, <1>6, <2>2 DEF CallsActive, Own, Expects
    <3> QED
      BY <1>1, <1>2, <1>3, <1>5, <1>6, <1>12, <2>2, <3>1
         DEF CallsActive, DesignerTyped, Own
  <2>3. CASE op.kind # "start" /\ ~ends
    BY <1>1, <1>2, <1>3, <1>5, <1>12, <2>3 DEF CallsActive
  <2> QED BY <2>1, <2>2, <2>3
<1>17. /\ Pends(next) /\ NotAborted(memory)'
       /\ next.pending # Nobody => next.active = Nobody
  BY <1>1, <1>2, <1>7, <1>12
     DEF Shows, Pends, NotAborted, Designer!Source, Designer!Head1
<1> QED
  BY <1>1, <1>2, <1>7, <1>8, <1>12, <1>13, <1>14, <1>15, <1>16, <1>17,
     RestFits DEF DesignerKept

LEMMA SaveFailsKeeps ==
  ASSUME DesignerInv, Designer!SaveFails
  PROVE  DesignerKept
<1> DEFINE stays == op.kind \in {"edit", "graph", "recover", "record"}
           m == IF stays THEN memory ELSE op.before
           q == IF op.kind = "record" THEN op.request ELSE Nobody
           next == Designer!Finished(m, q)
<1>1. /\ op # Nobody /\ op.phase = "writing" /\ op' = Nobody
      /\ UNCHANGED <<queue, asked, aborted>>
      /\ memory' = next /\ Designer!Writing
      /\ \/ stored' = stored /\ doubt' = doubt
         \/ Designer!Valid /\ stored' = op.payload /\ doubt' = TRUE
  BY DEF Designer!SaveFails, Designer!Writing, Designer!RolledBack
<1>2. call' = CASE op.kind \in {"start", "record"} ->
                     [call EXCEPT ![op.request] = "ended"]
                [] op.kind = "stage" -> [call EXCEPT ![op.request] = "failing"]
                [] OTHER -> call
  BY DEF Designer!SaveFails
<1>3. /\ DesignerTyped /\ QueueFits /\ CallsActive
      /\ op.payload \in Saves /\ memory \in Memories /\ op.before \in Memories
  BY <1>1 DEF DesignerInv, DesignerTyped, Running
<1>4. op.kind \in Own => /\ op.request \in Requests
                         /\ call[op.request] = Expects(op.kind)
  BY <1>1, <1>3 DEF QueueFits, Awaited
<1>5. q \in Requests \cup {Nobody} /\ (q = Nobody <=> op.kind # "record")
  BY <1>4, NobodyAssumption DEF Own
<1>6. m \in Memories /\ Lines(m) \subseteq Known
  BY <1>1, <1>3 DEF Known
<1>7. /\ op.kind = "start" => /\ memory.active = op.request
                              /\ m.active = Nobody
      /\ op.kind # "start" => m.active = memory.active
      /\ \A r \in Requests : call[r] \in {"answering", "answered"} =>
           m.requests[r] = "running"
  BY <1>1, <1>3 DEF DesignerInv, OperationFits, CallsActive
<1>8. /\ m.open /\ ~doubt => Shows(m, stored)
      /\ Pends(m) /\ NotAborted(m) /\ Pends(stored) /\ Pends(op.payload)
      /\ m.pending # Nobody => m.active = Nobody \/ op.kind = "record"
  BY <1>1 DEF DesignerInv, OperationFits, Synchronised, ProposalsFit
<1> HIDE DEF m
<1>9. /\ next \in Memories /\ next.requests = m.requests
      /\ next.revs = m.revs /\ next.pending = m.pending
      /\ next.graph = m.graph /\ next.open = m.open /\ next.same = m.same
      /\ next.recovering = m.recovering
      /\ next.active = IF op.kind = "record" THEN Nobody ELSE m.active
  BY <1>5, <1>6, FinishedFits
<1> HIDE DEF q, next
<1>10. stored' \in Saves /\ doubt' \in BOOLEAN
  BY <1>1, <1>3 DEF DesignerTyped
<1>11. DesignerTyped'
  BY <1>1, <1>2, <1>3, <1>9, <1>10 DEF DesignerTyped, Designer!Calls
<1>12. Lines(stored') \cup Lines(next) \subseteq Known
  <2>1. Lines(next) = Lines(m)
    BY <1>9 DEF Lines
  <2>2. Lines(stored') \subseteq Known
    BY <1>1 DEF Known
  <2> QED BY <1>6, <2>1, <2>2
<1>13. next.open /\ ~doubt' => Shows(next, stored')
  BY <1>1, <1>8, <1>9 DEF Shows
<1>14. QueueFits'
  <2>1. PICK state :
          \/ call' = call
          \/ op.kind \in Own /\ call' = [call EXCEPT ![op.request] = state]
    BY <1>2 DEF Own
  <2> QED BY <1>1, <1>3, <2>1, OperationEnds
<1>15. CallsActive'
  <2>1. CASE op.kind \in Own
    <3>1. memory.active = op.request
      BY <1>3, <1>4, <1>7, <2>1 DEF CallsActive, Own, Expects
    <3>2. /\ call[op.request] = "starting" => op.kind = "start"
          /\ op.kind \in {"start", "record"} => call'[op.request] = "ended"
          /\ op.kind = "stage" => call'[op.request] = "failing"
          /\ \A r \in Requests : r # op.request => call'[r] = call[r]
      BY <1>2, <1>3, <1>4, <2>1 DEF DesignerTyped, Own, Expects
    <3> QED
      BY <1>1, <1>3, <1>4, <1>7, <1>9, <2>1, <3>1, <3>2
         DEF CallsActive, Own
  <2>2. CASE op.kind \notin Own
    BY <1>1, <1>2, <1>3, <1>7, <1>9, <2>2 DEF CallsActive, Own
  <2> QED BY <2>1, <2>2
<1>16. /\ Pends(stored') /\ Pends(next) /\ NotAborted(memory)'
       /\ next.pending # Nobody => next.active = Nobody
  <2>1. Pends(stored')
    BY <1>1, <1>8
  <2>2. Pends(next) /\ NotAborted(memory)'
    BY <1>1, <1>8, <1>9
       DEF Pends, NotAborted, Designer!Source, Designer!Head1
  <2> QED BY <1>8, <1>9, <2>1, <2>2
<1>17. Grown
  BY <1>1, <1>3, StoredStays, ValidExtends
<1> QED
  BY <1>1, <1>11, <1>12, <1>13, <1>14, <1>15, <1>16, <1>17, RestFits
     DEF DesignerKept

LEMMA CrashKeeps ==
  ASSUME DesignerInv, Designer!Crash
  PROVE  DesignerKept
<1>1. /\ \/ stored' = stored
         \/ Designer!Writing /\ Designer!Valid /\ stored' = op.payload
      /\ queue' = <<>> /\ op' = Nobody
      /\ aborted' = {} /\ doubt' = FALSE /\ asked' = asked
  BY DEF Designer!Crash
<1>2. call' = [q \in Requests |-> IF call[q] = "idle" THEN "idle" ELSE "ended"]
  BY DEF Designer!Crash
<1>3. PICK next \in Designer!Hydrations(Designer!Closed) : memory' = next
  BY DEF Designer!Crash
<1>4. /\ next \in Memories /\ next.revs = Designer!Created.revs
      /\ next.pending = Nobody /\ ~next.open
  BY ElsewhereFits DEF DesignerInv, DesignerTyped
<1>5. Designer!Writing =>
        op # Nobody /\ op.phase = "writing" /\ op.payload \in Saves
  BY DEF Designer!Writing, DesignerInv, DesignerTyped
<1>6. DesignerTyped'
  <2>1. call' \in [Requests -> Designer!Calls]
    BY <1>2 DEF Designer!Calls
  <2>2. stored' \in Saves /\ asked' \in [Requests -> Designer!RevisionIds]
    BY <1>1, <1>5 DEF DesignerInv, DesignerTyped
  <2>3. <<>> \in Seq(Queued)
    OBVIOUS
  <2> QED BY <1>1, <1>3, <1>4, <2>1, <2>2, <2>3 DEF DesignerTyped
<1>7. Lines(stored') \cup Lines(next) \subseteq Known
  <2>1. Lines(stored') \subseteq Known
    BY <1>1, <1>5 DEF Known
  <2>2. Lines(next) = {Designer!Created.revs}
    BY <1>4 DEF Lines
  <2> QED BY <2>1, <2>2 DEF Known
<1>8. QueueFits' /\ CallsActive'
  BY <1>1, <1>2 DEF QueueFits, CallsActive
<1>9. Pends(stored') /\ Pends(next) /\ NotAborted(memory)'
  BY <1>1, <1>3, <1>4, <1>5 DEF DesignerInv, ProposalsFit, Pends, NotAborted
<1>10. Grown
  BY <1>1, ValidExtends, StoredStays DEF DesignerInv
<1> QED
  BY <1>1, <1>3, <1>4, <1>6, <1>7, <1>8, <1>9, <1>10, RestFits
     DEF DesignerKept

-----------------------------------------------------------------------------
(* The theorems.                                                           *)

LEMMA DesignerStays ==
  ASSUME DesignerInv, UNCHANGED Designer!vars
  PROVE  DesignerInv'
<1>1. /\ stored' = stored /\ memory' = memory /\ queue' = queue /\ op' = op
      /\ call' = call /\ asked' = asked /\ aborted' = aborted
      /\ doubt' = doubt
  BY DEF Designer!vars
<1>2. DesignerTyped'
  BY <1>1 DEF DesignerInv, DesignerTyped
<1>3. HistoriesKept'
  BY <1>1 DEF DesignerInv, HistoriesKept, Known, Lines
<1>4. OperationFits' /\ Synchronised' /\ QueueFits' /\ CallsActive'
  BY <1>1
     DEF DesignerInv, OperationFits, Synchronised, QueueFits, CallsActive,
         Shows, SameAs, Awaited, Designer!Source, Designer!Head1
<1>5. ProposalsFit'
  BY <1>1
     DEF DesignerInv, ProposalsFit, Pends, NotAborted, Designer!Source,
         Designer!Head1
<1> QED BY <1>2, <1>3, <1>4, <1>5 DEF DesignerInv

LEMMA DesignerNextKeeps ==
  ASSUME DesignerInv, Designer!Next
  PROVE  DesignerKept
<1>1. CASE Designer!Begin
  BY <1>1, StartKeeps, AcceptKeeps, RejectKeeps, UndoAIKeeps, SaveKeeps,
     SaveGraphKeeps, RecoverKeeps, HydrateKeeps, CompileKeeps, OpenKeeps,
     LeaveKeeps, RefuseKeeps DEF Designer!Begin
<1>2. CASE Designer!Proceed
  BY <1>2, CompileFailsKeeps, StageKeeps, CommitKeeps, SavedKeeps,
     SaveFailsKeeps DEF Designer!Proceed
<1>3. ASSUME NEW q \in Requests,
             \/ Designer!RequestAIChange(q) \/ Designer!AgentAnswers(q)
             \/ Designer!AgentFails(q) \/ Designer!RecordFailure(q)
             \/ Designer!Cancel(q)
      PROVE  DesignerKept
  BY <1>3, RequestKeeps, AgentKeeps, RecordFailureKeeps, CancelKeeps
<1> QED
  BY <1>1, <1>2, <1>3, AskKeeps, CrashKeeps DEF Designer!Next

(***************************************************************************)
(* The invariant of the designer service's project, by which every path a  *)
(* save, a rollback, a crash, a graph that cannot be read or a cancelled   *)
(* request can take leaves the memory and the file with histories that     *)
(* continue each other.                                                    *)
(***************************************************************************)
THEOREM ProjectsHold == Designer!Spec => []DesignerInv
<1>1. DesignerInv /\ [Designer!Next]_(Designer!vars) => DesignerInv'
  BY DesignerStays, DesignerNextKeeps DEF DesignerKept
<1> QED BY <1>1, DesignerStart, PTL DEF Designer!Spec

(***************************************************************************)
(* No save, refused or failed save, crash or reopened project drops or     *)
(* rewrites a stored revision (commitDesignerRevision) or takes the stored *)
(* flow graph back, a fresh one in its place (the graph fence).            *)
(***************************************************************************)
THEOREM HistoryIsKept == Designer!Spec => HistoryOnlyGrows
<1>1. DesignerInv /\ [Designer!Next]_(Designer!vars) =>
        [Grown]_(Designer!vars)
  BY DesignerNextKeeps DEF DesignerKept
<1>2. [Grown]_(Designer!vars) =>
        [/\ Len(stored.revs) <= Len(stored'.revs)
         /\ \A i \in DOMAIN stored.revs :
              stored.revs[i] = stored'.revs[i]
         /\ stored.graph <= stored'.graph]_(Designer!vars)
  BY DEF Grown
<1> QED
  BY <1>1, <1>2, ProjectsHold, PTL
     DEF Designer!Spec, HistoryOnlyGrows, Designer!HistoryOnlyGrows

(***************************************************************************)
(* Between operations the session shows what is stored, unless a save      *)
(* failed after its rename, or for the flow graph says that it has to be   *)
(* recovered; and a proposal on screen can be accepted (mutateDurably,     *)
(* requestAIChange, hydrateProjectState, hydratePrototypeGraphUnlocked).   *)
(***************************************************************************)
THEOREM SessionsAreSound == Designer!Spec => []SessionIsSound
<1>1. DesignerInv => SessionIsSound
  <2>1. DesignerInv => Designer!AgreesWithStore
    BY DEF DesignerInv, Synchronised, Shows, Designer!AgreesWithStore
  <2>2. DesignerInv => Designer!ProposalIsAcceptable
    BY DEF DesignerInv, ProposalsFit, Pends, NotAborted,
           Designer!ProposalIsAcceptable
  <2> QED BY <2>1, <2>2 DEF SessionIsSound, Designer!SessionIsSound
<1> QED BY <1>1, ProjectsHold, PTL

-----------------------------------------------------------------------------
(* Calls that go on.                                                       *)

(* A call that waits for an operation of its own has one, and the active   *)
(* request's call is under way, in a project that is open.                 *)
CarriedOn ==
  \A q \in Requests, kind \in Own :
    call[q] = Expects(kind) => Designer!Carried(kind, q)
UnderWay == {"answering", "answered", "failing", "recording"}
ActiveGoesOn ==
  \A q \in Requests : memory.active = q =>
    \/ call[q] \in UnderWay
    \/ op # Nobody /\ op.kind = "start" /\ op.request = q
ActiveIsOpen ==
  /\ memory.active # Nobody => memory.open
  /\ op # Nobody /\ op.before.active # Nobody => op.before.open

GoingOn == CarriedOn /\ ActiveGoesOn /\ ActiveIsOpen

LEMMA OwnExpects ==
  /\ \A kind \in Own : Expects(kind) \in {"starting", "answered", "recording"}
  /\ \A kind, k \in Own : Expects(kind) = Expects(k) => kind = k
  /\ Expects("start") = "starting" /\ Expects("stage") = "answered"
  /\ Expects("record") = "recording"
BY DEF Own, Expects

LEMMA GoingOnStarts == Designer!Init => GoingOn
<1> SUFFICES ASSUME Designer!Init PROVE GoingOn
  OBVIOUS
<1>1. /\ \A q \in Requests : call[q] = "idle"
      /\ memory.active = Nobody /\ op = Nobody
  BY CreatedTyped, ElsewhereFits DEF Designer!Init
<1> QED
  BY <1>1, OwnExpects, NobodyAssumption
  DEF GoingOn, CarriedOn, ActiveGoesOn, ActiveIsOpen

(* Who is carried while no operation runs waits in the queue.              *)
LEMMA CarriedInQueue ==
  ASSUME DesignerTyped, op = Nobody, NEW kind, NEW q,
         Designer!Carried(kind, q)
  PROVE  \E i \in 1..Len(queue) :
           queue[i].kind = kind /\ queue[i].request = q
BY DEF Designer!Carried, DesignerTyped

(* Of the entries behind the first, none is lost.                          *)
LEMMA CarriedBehind ==
  ASSUME DesignerTyped, queue # <<>>, queue' = Tail(queue), NEW kind, NEW q,
         NEW i \in 1..Len(queue), i # 1,
         queue[i].kind = kind, queue[i].request = q
  PROVE  Designer!Carried(kind, q)'
<1>1. /\ i - 1 \in 1..Len(queue') /\ queue'[i - 1] = queue[i]
      /\ DOMAIN queue' = 1..Len(queue')
  BY QueueHead
<1> QED BY <1>1 DEF Designer!Carried

(* An entry becomes the running operation.                                 *)
LEMMA GoingOnBegins ==
  ASSUME DesignerInv, GoingOn, op = Nobody, queue # <<>>,
         queue' = Tail(queue), call' = call, op' # Nobody,
         op'.kind = Head(queue).kind, op'.request = Head(queue).request,
         op'.before = memory,
         \/ memory' = memory \/ memory'.active = Nobody
         \/ /\ op'.kind = "start" /\ memory'.active = op'.request
            /\ memory'.open
  PROVE  GoingOn'
<1>0. DesignerTyped /\ Head(queue) = queue[1]
  BY QueueHead DEF DesignerInv
<1>1. ASSUME NEW q \in Requests, NEW kind \in Own, call'[q] = Expects(kind)
      PROVE  Designer!Carried(kind, q)'
  <2>1. PICK i \in 1..Len(queue) :
          queue[i].kind = kind /\ queue[i].request = q
    BY <1>0, <1>1, CarriedInQueue DEF GoingOn, CarriedOn
  <2>2. CASE i = 1
    BY <1>0, <2>1, <2>2 DEF Designer!Carried
  <2>3. CASE i # 1
    BY <1>0, <2>1, <2>3, CarriedBehind
  <2> QED BY <2>2, <2>3
<1>2. ActiveGoesOn'
  BY NobodyAssumption DEF GoingOn, ActiveGoesOn
<1>3. ActiveIsOpen'
  BY DEF GoingOn, ActiveIsOpen
<1> QED BY <1>1, <1>2, <1>3 DEF GoingOn, CarriedOn

(* An entry that is nobody's goes without an operation.                    *)
LEMMA GoingOnPasses ==
  ASSUME DesignerInv, GoingOn, op = Nobody, op' = Nobody, queue # <<>>,
         queue' = Tail(queue), call' = call, Head(queue).kind \notin Own,
         \/ memory'.active = Nobody
         \/ memory'.active = memory.active /\ memory'.open = memory.open
  PROVE  GoingOn'
<1>0. DesignerTyped /\ Head(queue) = queue[1]
  BY QueueHead DEF DesignerInv
<1>1. ASSUME NEW q \in Requests, NEW kind \in Own, call'[q] = Expects(kind)
      PROVE  Designer!Carried(kind, q)'
  <2>1. PICK i \in 1..Len(queue) :
          queue[i].kind = kind /\ queue[i].request = q
    BY <1>0, <1>1, CarriedInQueue DEF GoingOn, CarriedOn
  <2>2. i # 1
    BY <1>0, <2>1
  <2> QED BY <1>0, <2>1, <2>2, CarriedBehind
<1>2. ActiveGoesOn'
  BY NobodyAssumption DEF GoingOn, ActiveGoesOn
<1>3. ActiveIsOpen'
  BY DEF GoingOn, ActiveIsOpen
<1> QED BY <1>1, <1>2, <1>3 DEF GoingOn, CarriedOn

(* An operation that is refused ends the call it belongs to, or fails it.  *)
LEMMA GoingOnRefused ==
  ASSUME DesignerInv, GoingOn, Designer!Refuse
  PROVE  GoingOn'
<1> DEFINE e == Head(queue)
<1>0. /\ DesignerTyped /\ QueueFits /\ e = queue[1] /\ Awaited(e)
      /\ 1 \in 1..Len(queue)
  BY QueueHead DEF DesignerInv, QueueFits, Designer!Refuse
<1>1. /\ op = Nobody /\ op' = Nobody /\ queue # <<>> /\ queue' = Tail(queue)
      /\ memory' = memory /\ call' = Designer!Rejected(e)
      /\ ~Designer!Permitted(e)
  BY DEF Designer!Refuse
<1> HIDE DEF e
<1>2. CASE e.kind \notin Own
  <2>1. call' = call
    BY <1>1, <1>2 DEF Designer!Rejected, Own
  <2> QED BY <1>1, <1>2, <2>1, GoingOnPasses DEF e
<1>3. ASSUME e.kind = "record" PROVE FALSE
  <2>1. memory.active = e.request /\ e.request \in Requests
    BY <1>0, <1>3 DEF Awaited, Own, Expects, DesignerInv, CallsActive
  <2>2. memory.open
    BY <2>1, NobodyAssumption DEF GoingOn, ActiveIsOpen
  <2> QED BY <1>1, <1>3, <2>2 DEF Designer!Permitted
<1>4. CASE e.kind \in {"start", "stage"}
  <2> DEFINE r == e.request
             state == IF e.kind = "start" THEN "ended" ELSE "failing"
  <2>1. r \in Requests /\ call[r] = Expects(e.kind)
    BY <1>0, <1>4 DEF Awaited, Own
  <2>2. call' = [call EXCEPT ![r] = state]
    BY <1>1, <1>4 DEF Designer!Rejected
  <2>3. /\ call'[r] = state
        /\ \A q \in Requests : q # r => call'[q] = call[q]
    BY <1>0, <2>1, <2>2 DEF DesignerTyped
  <2>4. \A kind \in Own : call'[r] # Expects(kind)
    BY <2>3, OwnExpects
  <2>5. ASSUME NEW q \in Requests, NEW kind \in Own, call'[q] = Expects(kind)
        PROVE  Designer!Carried(kind, q)'
    <3>1. q # r /\ call[q] = Expects(kind)
      BY <2>3, <2>4, <2>5
    <3>2. PICK i \in 1..Len(queue) :
            queue[i].kind = kind /\ queue[i].request = q
      BY <1>0, <1>1, <3>1, CarriedInQueue DEF GoingOn, CarriedOn
    <3>3. i # 1
      BY <1>0, <3>1, <3>2
    <3> QED BY <1>0, <1>1, <3>2, <3>3, CarriedBehind
  <2>6. ASSUME NEW q \in Requests, memory'.active = q
        PROVE  call'[q] \in UnderWay
    <3>1. memory.active = q /\ call[q] \in UnderWay
      BY <1>1, <2>6 DEF GoingOn, ActiveGoesOn
    <3>2. CASE q # r
      BY <2>3, <3>1, <3>2
    <3>3. CASE q = r
      BY <1>4, <2>1, <2>3, <3>1, <3>3, OwnExpects DEF UnderWay
    <3> QED BY <3>2, <3>3
  <2>7. ActiveIsOpen'
    BY <1>1 DEF GoingOn, ActiveIsOpen
  <2> QED BY <2>5, <2>6, <2>7 DEF GoingOn, CarriedOn, ActiveGoesOn
<1> QED BY <1>2, <1>3, <1>4 DEF Own

LEMMA EntryIsRunning ==
  ASSUME DesignerTyped, queue # <<>>, NEW phase \in {"compiling", "writing"},
         NEW s \in Saves \cup {Nobody},
         op' = Designer!Running(Head(queue), phase, s)
  PROVE  /\ op' # Nobody /\ op'.kind = Head(queue).kind
         /\ op'.request = Head(queue).request /\ op'.before = memory
<1> DEFINE o == Designer!Running(Head(queue), phase, s)
<1>1. Head(queue) \in Queued /\ memory \in Memories
  BY QueueHead DEF DesignerTyped
<1>2. o \in Running
  BY <1>1 DEF Running, Queued, Designer!Running
<1>3. o.kind = Head(queue).kind /\ o.request = Head(queue).request
      /\ o.before = memory
  BY DEF Designer!Running
<1> HIDE DEF o
<1> QED BY <1>2, <1>3, RunningIsOne DEF o

LEMMA GoingOnQueue ==
  ASSUME DesignerInv, GoingOn, Designer!Begin, DesignerInv'
  PROVE  GoingOn'
<1> DEFINE e == Head(queue)
<1>0. /\ DesignerTyped /\ memory \in Memories /\ memory' \in Memories
      /\ OperationFits'
  BY DEF DesignerInv, DesignerTyped
<1>1. ASSUME NEW kind, Designer!Turn(kind)
      PROVE  /\ op = Nobody /\ queue # <<>> /\ e.kind = kind
             /\ kind = "start" => memory.open
             /\ kind \in {"start", "accept", "reject", "undoAI"} =>
                  memory.active = Nobody
  BY <1>1, TurnPermits
<1>2. ASSUME NEW next, Designer!Change(e, next), queue # <<>>
      PROVE  /\ queue' = Tail(queue) /\ call' = call /\ memory' = next
             /\ op' # Nobody /\ op'.kind = e.kind /\ op'.request = e.request
             /\ op'.before = memory
  <2>1. /\ op' = Designer!Running(e, "writing", Designer!Part(next))
        /\ queue' = Tail(queue) /\ call' = call /\ memory' = next
    BY <1>2 DEF Designer!Change
  <2>2. Designer!Part(next) \in Saves
    BY <1>0, <2>1 DEF Designer!Part, Saves, Memories
  <2> QED BY <1>0, <1>2, <2>1, <2>2, EntryIsRunning
<1>3. CASE Designer!Start
  <2>1. Designer!Turn("start")
    BY <1>3 DEF Designer!Start
  <2> DEFINE next == [memory EXCEPT !.requests[e.request] = "running",
                                    !.active = e.request, !.same = TRUE]
  <2>2. Designer!Change(e, next)
    BY <1>3, Zenon DEF Designer!Start
  <2>3. next.open = memory.open
    BY <1>0 DEF Memories
  <2> HIDE DEF next
  <2>4. memory'.active = op'.request /\ op'.kind = "start" /\ memory'.open
    BY <1>0, <1>1, <1>2, <2>1, <2>2, <2>3 DEF OperationFits
  <2> QED BY <1>1, <1>2, <2>1, <2>2, <2>4, GoingOnBegins
<1>4. CASE Designer!Accept \/ Designer!Reject \/ Designer!UndoAI
  <2>1. PICK kind \in {"accept", "reject", "undoAI"} : Designer!Turn(kind)
    BY <1>4 DEF Designer!Accept, Designer!Reject, Designer!UndoAI
  <2>2. PICK next : Designer!Change(e, next)
    BY <1>4, Zenon DEF Designer!Accept, Designer!Reject, Designer!UndoAI
  <2>3. memory'.active = Nobody
    BY <1>0, <1>1, <1>2, <2>1, <2>2 DEF OperationFits
  <2> QED BY <1>1, <1>2, <2>1, <2>2, <2>3, GoingOnBegins
<1>5. CASE Designer!Save
  <2>1. PICK kind \in {"review", "ready", "record"} : Designer!Turn(kind)
    BY <1>5 DEF Designer!Save
  <2>2. Designer!Change(e, memory)
    BY <1>5 DEF Designer!Save
  <2> QED BY <1>1, <1>2, <2>1, <2>2, GoingOnBegins
<1>6. CASE Designer!SaveGraph
  <2> DEFINE s == [Designer!Part(memory) EXCEPT !.graph = @ + 1]
  <2>1. /\ op = Nobody /\ queue # <<>> /\ memory.graph < MaxGraph
        /\ queue' = Tail(queue) /\ UNCHANGED <<memory, call>>
    BY <1>6, TurnPermits DEF Designer!SaveGraph
  <2>2. op' = Designer!Running(e, "writing", s)
    BY <1>6, Zenon DEF Designer!SaveGraph
  <2>3. s \in Saves
    <3>1. memory.graph + 1 \in 0..MaxGraph
      BY <1>0, <2>1, NumbersAssumption DEF Memories
    <3> QED BY <1>0, <3>1 DEF Memories, Saves, Designer!Part
  <2> HIDE DEF s
  <2> QED BY <1>0, <2>1, <2>2, <2>3, EntryIsRunning, GoingOnBegins
<1>7. CASE Designer!Hydrate
  <2>1. /\ op = Nobody /\ op' = Nobody /\ queue # <<>> /\ queue' = Tail(queue)
        /\ call' = call /\ e.kind = "hydrate"
        /\ memory' \in Designer!Hydrations(memory)
    BY <1>1, <1>7 DEF Designer!Hydrate
  <2>2. memory'.active = memory.active /\ memory'.open = memory.open
    BY <1>0, <2>1, HydrationsFit DEF DesignerTyped
  <2> QED BY <2>1, <2>2, GoingOnPasses DEF Own
<1>8. CASE Designer!Compile
  <2>1. PICK kind \in {"edit", "undo", "stage"} : Designer!Turn(kind)
    BY <1>8 DEF Designer!Compile
  <2>2. /\ queue' = Tail(queue) /\ UNCHANGED <<memory, call>>
        /\ op' = Designer!Running(e, "compiling", Nobody)
    BY <1>8 DEF Designer!Compile
  <2> QED BY <1>0, <1>1, <2>1, <2>2, EntryIsRunning, GoingOnBegins
<1>9. CASE Designer!Open
  <2>1. /\ op = Nobody /\ queue # <<>> /\ e.kind = "open"
        /\ queue' = Tail(queue) /\ call' = call /\ memory.active = Nobody
    BY <1>9, TurnPermits DEF Designer!Open
  <2>2. CASE Designer!NotOpened
    BY <2>1, <2>2, GoingOnPasses DEF Own, Designer!NotOpened
  <2>3. CASE Designer!Opens
    <3>1. memory'.active = Nobody
      BY <2>1, <2>3, HydratedFits DEF Designer!Opens
    <3>2. CASE op' = op
      BY <2>1, <3>1, <3>2, GoingOnPasses DEF Own
    <3>3. CASE op' = Designer!Running(e, "writing", Designer!Part(memory'))
      <4>1. Designer!Part(memory') \in Saves
        BY <1>0 DEF Designer!Part, Saves, Memories
      <4> QED BY <1>0, <2>1, <3>1, <3>3, <4>1, EntryIsRunning, GoingOnBegins
    <3> QED BY <2>3, <3>2, <3>3 DEF Designer!Opens
  <2> QED BY <1>9, <2>2, <2>3 DEF Designer!Open
<1>10. CASE Designer!Leave
  <2>1. /\ op = Nobody /\ queue # <<>> /\ queue' = Tail(queue)
        /\ call' = call /\ e.kind = "leave"
    BY <1>1, <1>10 DEF Designer!Leave
  <2>2. CASE Designer!NotOpened
    BY <2>1, <2>2, GoingOnPasses DEF Own, Designer!NotOpened
  <2>3. CASE Designer!Leaves
    <3>1. op' = op /\ memory'.active = Nobody
      BY <1>0, <2>3, ElsewhereFits DEF DesignerTyped, Designer!Leaves
    <3> QED BY <2>1, <3>1, GoingOnPasses DEF Own
  <2> QED BY <1>10, <2>2, <2>3 DEF Designer!Leave
<1>11. CASE Designer!Refuse
  BY <1>11, GoingOnRefused
<1>12. CASE Designer!Recover
  <2> DEFINE s == [Designer!Part(memory) EXCEPT !.graph = stored.graph + 1]
  <2>1. /\ op = Nobody /\ queue # <<>> /\ stored.graph < MaxGraph
        /\ queue' = Tail(queue) /\ UNCHANGED <<memory, call>>
    BY <1>12, TurnPermits DEF Designer!Recover
  <2>2. op' = Designer!Running(e, "writing", s)
    BY <1>12, Zenon DEF Designer!Recover
  <2>3. s \in Saves
    <3>1. stored.graph + 1 \in 0..MaxGraph
      BY <1>0, <2>1, NumbersAssumption DEF DesignerTyped, Saves
    <3> QED BY <1>0, <3>1 DEF Memories, Saves, Designer!Part
  <2> HIDE DEF s
  <2> QED BY <1>0, <2>1, <2>2, <2>3, EntryIsRunning, GoingOnBegins
<1> QED
  BY <1>3, <1>4, <1>5, <1>6, <1>7, <1>8, <1>9, <1>10, <1>11, <1>12
     DEF Designer!Begin

(* The running operation ends, and with it the call it belongs to, which   *)
(* goes on without it or fails.                                            *)
LEMMA GoingOnEnds ==
  ASSUME DesignerInv, GoingOn, op # Nobody, op' = Nobody, queue' = queue,
         NEW state \in {"answering", "failing", "ended"},
         \/ op.kind \notin Own /\ call' = call
         \/ op.kind \in Own /\ call' = [call EXCEPT ![op.request] = state],
         memory'.active # Nobody =>
           /\ memory'.active = memory.active /\ memory'.open
           /\ op.kind \in Own /\ state = "ended" =>
                memory'.active # op.request
  PROVE  GoingOn'
<1>0. DesignerTyped /\ QueueFits
  BY DEF DesignerInv
<1>1. op.kind \in Own =>
        /\ op.request \in Requests /\ call'[op.request] = state
        /\ \A q \in Requests : q # op.request => call'[q] = call[q]
  BY <1>0 DEF DesignerTyped, QueueFits, Awaited
<1>2. ASSUME NEW q \in Requests, NEW kind \in Own, call'[q] = Expects(kind)
      PROVE  Designer!Carried(kind, q)'
  <2>1. op.kind \in Own => q # op.request
    BY <1>1, <1>2, OwnExpects
  <2>2. call[q] = Expects(kind)
    BY <1>1, <1>2, <2>1
  <2> QED BY <2>1, <2>2 DEF GoingOn, CarriedOn, Designer!Carried
<1>3. ASSUME NEW q \in Requests, memory'.active = q
      PROVE  call'[q] \in UnderWay
  <2>1. /\ memory.active = q
        /\ op.kind \in Own /\ state = "ended" => q # op.request
    BY <1>3, NobodyAssumption
  <2>2. CASE op.kind \in Own /\ q = op.request
    BY <1>1, <2>1, <2>2 DEF UnderWay
  <2>3. CASE ~(op.kind \in Own /\ q = op.request)
    <3>1. call'[q] = call[q]
      BY <1>1, <2>3
    <3>2. call[q] \in UnderWay
      BY <2>1, <2>3 DEF GoingOn, ActiveGoesOn, Own
    <3> QED BY <3>1, <3>2
  <2> QED BY <2>2, <2>3
<1> QED BY <1>2, <1>3 DEF GoingOn, CarriedOn, ActiveGoesOn, ActiveIsOpen

(* A candidate that compiled is to be written: its operation goes on.      *)
LEMMA CandidateGoesOn ==
  ASSUME DesignerInv, op # Nobody, NEW s \in Saves,
         op' = [op EXCEPT !.phase = "writing", !.payload = s]
  PROVE  op' # Nobody
<1> DEFINE w == [op EXCEPT !.phase = "writing"]
           o == [w EXCEPT !.payload = s]
<1>1. op \in Running
  BY DEF DesignerInv, DesignerTyped
<1>2. w \in Running
  BY <1>1 DEF Running
<1>3. op' = o
  OBVIOUS
<1> HIDE DEF w
<1>4. o \in Running
  BY <1>2 DEF Running
<1> HIDE DEF o
<1> QED BY <1>3, <1>4, RunningIsOne

LEMMA CandidatesGoOn ==
  ASSUME DesignerInv, Designer!StageProposal \/ Designer!CommitCandidate
  PROVE  op' # Nobody
<1>1. /\ op # Nobody /\ op.phase = "compiling"
      /\ op \in Running /\ memory \in Memories
  BY DEF Designer!StageProposal, Designer!CommitCandidate, DesignerInv,
    DesignerTyped
<1>2. CASE Designer!CommitCandidate
  <2>1. PICK id \in Designer!Fresh :
          op' = [op EXCEPT !.phase = "writing",
                   !.payload = Designer!Appended(Designer!Part(memory), id,
                                                 Nobody)]
    BY <1>2, Zenon DEF Designer!CommitCandidate
  <2> DEFINE r == Append(memory.revs, [id |-> id, by |-> Nobody])
             s == Designer!Appended(Designer!Part(memory), id, Nobody)
  <2>2. r \in Histories
    BY <1>1, FreshExtends
  <2>3. s \in Saves
    <3>1. memory.pending = Nobody
      BY <1>1, <1>2 DEF Designer!CommitCandidate, DesignerInv, OperationFits
    <3> QED BY <1>1, <2>2, <3>1
      DEF Designer!Appended, Designer!Part, Saves, Memories
  <2>4. op' = [op EXCEPT !.phase = "writing", !.payload = s]
    BY <2>1, Zenon
  <2> HIDE DEF s
  <2> QED BY <1>1, <2>3, <2>4, CandidateGoesOn
<1>3. CASE Designer!StageProposal
  <2>1. op.kind = "stage"
    BY <1>3 DEF Designer!StageProposal
  <2>2. PICK id \in Designer!Fresh :
          op' = [op EXCEPT !.phase = "writing",
                   !.payload = Designer!Part(
                     [memory EXCEPT !.pending =
                        [request |-> op.request,
                         base |-> Designer!Source(memory),
                         candidate |-> id, asked |-> asked[op.request]]])]
    BY <1>3, Zenon DEF Designer!StageProposal
  <2> DEFINE p == [request |-> op.request, base |-> Designer!Source(memory),
                   candidate |-> id, asked |-> asked[op.request]]
             next == [memory EXCEPT !.pending = p]
             s == Designer!Part(next)
  <2>3. op.request \in Requests
    BY <1>1, <2>1
    DEF DesignerInv, QueueFits, Awaited, CallsActive, Own, Expects
  <2>4. asked[op.request] = Designer!Source(memory)
    BY <1>1, <2>1 DEF DesignerInv, OperationFits
  <2>5. Designer!Source(memory) \in Designer!RevisionIds
    BY <1>1, SourceTyped DEF Memories
  <2>6. id \in Designer!RevisionIds
    BY <1>1, FreshIsNew
  <2>7. p \in Designer!Proposals
    BY <2>3, <2>4, <2>5, <2>6 DEF Designer!Proposals
  <2>8. op' = [op EXCEPT !.phase = "writing", !.payload = s]
    BY <2>2, Zenon
  <2> HIDE DEF p
  <2>9. next \in Memories
    BY <1>1, <2>7 DEF Memories
  <2> HIDE DEF next
  <2>10. s \in Saves
    BY <2>9 DEF Designer!Part, Saves, Memories
  <2> HIDE DEF s
  <2> QED BY <1>1, <2>8, <2>10, CandidateGoesOn
<1> QED BY <1>2, <1>3

LEMMA GoingOnProceeds ==
  ASSUME DesignerInv, GoingOn, Designer!Proceed, DesignerInv'
  PROVE  GoingOn'
<1>0. /\ DesignerTyped /\ memory \in Memories /\ QueueFits
      /\ op # Nobody /\ op \in Running /\ op.before \in Memories
      /\ op.kind # "start" => op.before.active = memory.active
      /\ op.kind = "start" => op.before.active = Nobody
      /\ op.before.active # Nobody => op.before.open
      /\ memory.active # Nobody => memory.open
      /\ op.kind \in Own =>
           op.request \in Requests /\ op.request # Nobody
  BY NobodyAssumption
  DEF DesignerInv, DesignerTyped, Running, OperationFits, GoingOn,
      ActiveIsOpen, QueueFits, Awaited, Designer!Proceed,
      Designer!CompileFails, Designer!StageProposal,
      Designer!CommitCandidate, Designer!Saved, Designer!SaveFails,
      Designer!Writing
<1>1. CASE Designer!CompileFails
  <2>1. /\ op' = Nobody /\ queue' = queue
        /\ memory' = memory \/ memory' = op.before
        /\ op.kind \in {"edit", "undo", "stage"}
        /\ call' = IF op.kind = "stage"
                   THEN [call EXCEPT ![op.request] = "failing"] ELSE call
    BY <1>1 DEF Designer!CompileFails, DesignerInv, OperationFits
  <2>2. memory'.active # Nobody =>
          memory'.active = memory.active /\ memory'.open
    BY <1>0, <2>1
  <2> QED BY <1>0, <2>1, <2>2, GoingOnEnds DEF Own
<1>2. CASE Designer!Saved
  <2> DEFINE ends == op.kind \in {"stage", "record"}
             adopted == CASE op.kind \in {"edit", "undo"} ->
                               [memory EXCEPT !.revs = op.payload.revs]
                          [] op.kind \in {"graph", "recover"} ->
                               [memory EXCEPT !.graph = op.payload.graph,
                                              !.recovering = FALSE]
                          [] OTHER -> memory
             q == IF ends THEN op.request ELSE Nobody
  <2>1. op' = Nobody /\ queue' = queue /\ op.phase = "writing"
    BY <1>2 DEF Designer!Saved, Designer!Writing
  <2>2. call' = CASE op.kind = "start" ->
                       [call EXCEPT ![op.request] = "answering"]
                  [] ends -> [call EXCEPT ![op.request] = "ended"]
                  [] OTHER -> call
    BY <1>2 DEF Designer!Saved
  <2>3. memory' = Designer!Finished(adopted, q)
    BY <1>2, Zenon DEF Designer!Saved
  <2>4. /\ adopted \in Memories /\ adopted.active = memory.active
        /\ adopted.open = memory.open
    <3>1. op.payload \in Saves
      BY <1>0, <2>1 DEF DesignerTyped
    <3> QED BY <1>0, <3>1 DEF Memories, Saves
  <2> HIDE DEF adopted
  <2>5. q \in Requests \cup {Nobody} /\ (ends => q # Nobody)
    BY <1>0 DEF Own
  <2>6. /\ memory'.active = IF ends THEN Nobody ELSE memory.active
        /\ memory'.open = memory.open
    BY <2>3, <2>4, <2>5, FinishedFits
  <2>7. CASE op.kind = "start"
    BY <1>0, <2>1, <2>2, <2>6, <2>7, GoingOnEnds DEF Own
  <2>8. CASE ends
    BY <1>0, <2>1, <2>2, <2>6, <2>8, GoingOnEnds DEF Own
  <2>9. CASE op.kind \notin Own
    BY <1>0, <2>1, <2>2, <2>6, <2>9, GoingOnEnds DEF Own
  <2> QED BY <2>7, <2>8, <2>9 DEF Own
<1>3. CASE Designer!SaveFails
  <2> DEFINE m == Designer!RolledBack
             q == IF op.kind = "record" THEN op.request ELSE Nobody
  <2>1. /\ op' = Nobody /\ queue' = queue
        /\ memory' = Designer!Finished(m, q)
    BY <1>3 DEF Designer!SaveFails
  <2>2. call' = CASE op.kind \in {"start", "record"} ->
                       [call EXCEPT ![op.request] = "ended"]
                  [] op.kind = "stage" ->
                       [call EXCEPT ![op.request] = "failing"]
                  [] OTHER -> call
    BY <1>3 DEF Designer!SaveFails
  <2>3. /\ m \in Memories
        /\ m.active # Nobody => m.active = memory.active /\ m.open
        /\ op.kind = "start" => m.active = Nobody
    BY <1>0 DEF Designer!RolledBack
  <2> HIDE DEF m
  <2>4. q \in Requests \cup {Nobody} /\ (op.kind = "record" => q # Nobody)
    BY <1>0 DEF Own
  <2>5. /\ memory'.active = IF op.kind = "record" THEN Nobody ELSE m.active
        /\ memory'.open = m.open
    BY <2>1, <2>3, <2>4, FinishedFits
  <2>6. CASE op.kind \in {"start", "record"}
    BY <1>0, <2>1, <2>2, <2>3, <2>5, <2>6, GoingOnEnds DEF Own
  <2>7. CASE op.kind = "stage"
    BY <1>0, <2>1, <2>2, <2>3, <2>5, <2>7, GoingOnEnds DEF Own
  <2>8. CASE op.kind \notin Own
    BY <1>0, <2>1, <2>2, <2>3, <2>5, <2>8, GoingOnEnds DEF Own
  <2> QED BY <2>6, <2>7, <2>8 DEF Own
<1>4. CASE Designer!StageProposal \/ Designer!CommitCandidate
  <2>1. /\ UNCHANGED <<queue, call>>
        /\ \E s : op' = [op EXCEPT !.phase = "writing", !.payload = s]
    BY <1>4, Zenon DEF Designer!StageProposal, Designer!CommitCandidate
  <2>2. PICK s : op' = [op EXCEPT !.phase = "writing", !.payload = s]
    BY <2>1
  <2>3. /\ op'.kind = op.kind /\ op'.request = op.request
        /\ op'.before = op.before
    BY <1>0, <2>2 DEF Running
  <2>4. memory'.active = memory.active /\ memory'.open = memory.open
    <3>1. CASE Designer!CommitCandidate
      BY <3>1 DEF Designer!CommitCandidate
    <3>2. CASE Designer!StageProposal
      <4>1. \E p : memory' = [memory EXCEPT !.pending = p]
        BY <3>2, Zenon DEF Designer!StageProposal
      <4> QED BY <1>0, <4>1 DEF Memories
    <3> QED BY <1>4, <3>1, <3>2
  <2>5. op' # Nobody
    BY <1>4, CandidatesGoOn
  <2> QED
    BY <1>0, <2>1, <2>3, <2>4, <2>5
    DEF GoingOn, CarriedOn, ActiveGoesOn, ActiveIsOpen, Designer!Carried
<1> QED BY <1>1, <1>2, <1>3, <1>4 DEF Designer!Proceed

(* What happens outside the queue, which may add an entry to it.           *)
LEMMA CarriedStays ==
  ASSUME DesignerTyped, op' = op,
         queue' = queue \/ (\E e \in Queued : queue' = Append(queue, e)),
         NEW kind, NEW q, Designer!Carried(kind, q)
  PROVE  Designer!Carried(kind, q)'
<1>1. \A i \in DOMAIN queue : i \in DOMAIN queue' /\ queue'[i] = queue[i]
  BY DEF DesignerTyped
<1> QED BY <1>1 DEF Designer!Carried

LEMMA CarriedNow ==
  ASSUME DesignerTyped, NEW e \in Queued, queue' = Append(queue, e)
  PROVE  Designer!Carried(e.kind, e.request)'
<1>1. Len(queue) + 1 \in DOMAIN queue' /\ queue'[Len(queue) + 1] = e
  BY DEF DesignerTyped
<1> QED BY <1>1 DEF Designer!Carried

LEMMA GoingOnAppended ==
  ASSUME DesignerInv, GoingOn, op' = op,
         NEW e \in Queued, queue' = Append(queue, e),
         NEW q \in Requests, e.request = q,
         NEW state, call' = [call EXCEPT ![q] = state],
         \A kind \in Own : state = Expects(kind) => kind = e.kind,
         state \in UnderWay \/ memory.active # q,
         memory'.active = memory.active, memory'.open = memory.open
  PROVE  GoingOn'
<1>0. DesignerTyped
  BY DEF DesignerInv
<1>1. call'[q] = state /\ \A r \in Requests : r # q => call'[r] = call[r]
  BY <1>0 DEF DesignerTyped
<1>2. ASSUME NEW r \in Requests, NEW kind \in Own, call'[r] = Expects(kind)
      PROVE  Designer!Carried(kind, r)'
  <2>1. CASE r = q
    BY <1>0, <1>1, <1>2, <2>1, CarriedNow
  <2>2. CASE r # q
    BY <1>0, <1>1, <1>2, <2>2, CarriedStays DEF GoingOn, CarriedOn
  <2> QED BY <2>1, <2>2
<1>3. ActiveGoesOn'
  BY <1>1 DEF GoingOn, ActiveGoesOn
<1> QED BY <1>2, <1>3 DEF GoingOn, CarriedOn, ActiveIsOpen

LEMMA GoingOnFailing ==
  ASSUME DesignerInv, GoingOn, UNCHANGED <<op, memory, queue>>,
         NEW q \in Requests, call' = [call EXCEPT ![q] = "failing"]
  PROVE  GoingOn'
<1>1. /\ call'[q] = "failing"
      /\ \A r \in Requests : r # q => call'[r] = call[r]
  BY DEF DesignerInv, DesignerTyped
<1>2. \A kind \in Own : Expects(kind) # "failing"
  BY OwnExpects
<1>3. CarriedOn'
  BY <1>1, <1>2 DEF GoingOn, CarriedOn, Designer!Carried
<1>4. ActiveGoesOn'
  BY <1>1 DEF GoingOn, ActiveGoesOn, UnderWay
<1> QED BY <1>3, <1>4 DEF GoingOn, ActiveIsOpen

LEMMA GoingOnAgents ==
  ASSUME DesignerInv, GoingOn, NEW q \in Requests,
         \/ Designer!RequestAIChange(q) \/ Designer!AgentAnswers(q)
         \/ Designer!AgentFails(q) \/ Designer!RecordFailure(q)
         \/ Designer!Cancel(q)
  PROVE  GoingOn'
<1>0. /\ DesignerTyped /\ QueueFits /\ memory \in Memories
      /\ \A kind \in {"start", "stage", "record"} :
           /\ Designer!Entry(kind, q, 0) \in Queued
           /\ Designer!Entry(kind, q, 0).kind = kind
           /\ Designer!Entry(kind, q, 0).request = q
  BY DEF DesignerInv, DesignerTyped, Designer!Entry, Queued, Designer!Kinds
<1>1. CASE Designer!RequestAIChange(q)
  <2>1. /\ call[q] = "idle" /\ op' = op /\ memory' = memory
        /\ queue' = Append(queue, Designer!Entry("start", q, 0))
        /\ call' = [call EXCEPT ![q] = "starting"]
    BY <1>1 DEF Designer!RequestAIChange, Designer!Enqueue
  <2>2. memory.active # q
    <3>1. ~(op # Nobody /\ op.kind = "start" /\ op.request = q)
      BY <1>0, <2>1 DEF QueueFits, Awaited, Own, Expects
    <3> QED BY <2>1, <3>1 DEF GoingOn, ActiveGoesOn, UnderWay
  <2>3. \A kind \in Own : Expects(kind) = "starting" => kind = "start"
    BY OwnExpects DEF Own
  <2>4. PICK e \in Queued :
          queue' = Append(queue, e) /\ e.kind = "start" /\ e.request = q
    BY <1>0, <2>1
  <2>5. \A kind \in Own : "starting" = Expects(kind) => kind = e.kind
    BY <2>3, <2>4
  <2> QED BY <2>1, <2>2, <2>4, <2>5, GoingOnAppended
<1>2. CASE Designer!AgentAnswers(q)
  <2>1. /\ op' = op /\ memory' = memory
        /\ queue' = Append(queue, Designer!Entry("stage", q, 0))
        /\ call' = [call EXCEPT ![q] = "answered"]
    BY <1>2 DEF Designer!AgentAnswers, Designer!Enqueue
  <2>2. \A kind \in Own : Expects(kind) = "answered" => kind = "stage"
    BY OwnExpects DEF Own
  <2>3. PICK e \in Queued :
          queue' = Append(queue, e) /\ e.kind = "stage" /\ e.request = q
    BY <1>0, <2>1
  <2>4. "answered" \in UnderWay
    BY DEF UnderWay
  <2>5. \A kind \in Own : "answered" = Expects(kind) => kind = e.kind
    BY <2>2, <2>3
  <2> QED BY <2>1, <2>3, <2>4, <2>5, GoingOnAppended
<1>3. CASE Designer!AgentFails(q)
  <2>1. /\ op' = op /\ memory' = memory /\ queue' = queue
        /\ call' = [call EXCEPT ![q] = "failing"]
    BY <1>3 DEF Designer!AgentFails
  <2> QED BY <2>1, GoingOnFailing
<1>4. CASE Designer!RecordFailure(q)
  <2>1. /\ op' = op
        /\ queue' = Append(queue, Designer!Entry("record", q, 0))
        /\ call' = [call EXCEPT ![q] = "recording"]
    BY <1>4 DEF Designer!RecordFailure, Designer!Enqueue
  <2>2. memory'.active = memory.active /\ memory'.open = memory.open
    BY <1>0, <1>4 DEF Designer!RecordFailure, Memories
  <2>3. \A kind \in Own : Expects(kind) = "recording" => kind = "record"
    BY OwnExpects DEF Own
  <2>4. PICK e \in Queued :
          queue' = Append(queue, e) /\ e.kind = "record" /\ e.request = q
    BY <1>0, <2>1
  <2>5. "recording" \in UnderWay
    BY DEF UnderWay
  <2>6. \A kind \in Own : "recording" = Expects(kind) => kind = e.kind
    BY <2>3, <2>4
  <2> QED BY <2>1, <2>2, <2>4, <2>5, <2>6, GoingOnAppended
<1>5. CASE Designer!Cancel(q)
  <2>1. UNCHANGED <<op, memory, queue, call>>
    BY <1>5 DEF Designer!Cancel
  <2> QED
    BY <2>1
    DEF GoingOn, CarriedOn, ActiveGoesOn, ActiveIsOpen, Designer!Carried
<1> QED BY <1>1, <1>2, <1>3, <1>4, <1>5

LEMMA GoingOnStep ==
  ASSUME DesignerInv, GoingOn, [Designer!Next]_(Designer!vars), DesignerInv'
  PROVE  GoingOn'
<1>1. CASE Designer!Ask
  <2>1. /\ op' = op /\ memory' = memory /\ call' = call
        /\ DesignerTyped /\ queue' \in Seq(Queued)
        /\ \E e : queue' = Append(queue, e)
    BY <1>1 DEF Designer!Ask, Designer!Enqueue, DesignerInv, DesignerTyped
  <2>2. \E e \in Queued : queue' = Append(queue, e)
    <3>1. PICK e : queue' = Append(queue, e)
      BY <2>1
    <3>2. queue'[Len(queue) + 1] \in Queued /\ queue'[Len(queue) + 1] = e
      BY <2>1, <3>1 DEF DesignerTyped
    <3> QED BY <3>1, <3>2
  <2>3. CarriedOn'
    BY <2>1, <2>2, CarriedStays DEF GoingOn, CarriedOn
  <2> QED BY <2>1, <2>3 DEF GoingOn, ActiveGoesOn, ActiveIsOpen
<1>2. CASE Designer!Crash
  <2>1. /\ \A q \in Requests : call'[q] \in {"idle", "ended"}
        /\ memory'.active = Nobody /\ op' = Nobody
    BY <1>2, ElsewhereFits DEF Designer!Crash, DesignerInv, DesignerTyped
  <2> QED
    BY <2>1, OwnExpects, NobodyAssumption
    DEF GoingOn, CarriedOn, ActiveGoesOn, ActiveIsOpen
<1>3. CASE UNCHANGED Designer!vars
  <2>1. UNCHANGED <<op, memory, queue, call>>
    BY <1>3 DEF Designer!vars
  <2> QED
    BY <2>1
    DEF GoingOn, CarriedOn, ActiveGoesOn, ActiveIsOpen, Designer!Carried
<1> QED
  BY <1>1, <1>2, <1>3, GoingOnQueue, GoingOnProceeds, GoingOnAgents
     DEF Designer!Next

(***************************************************************************)
(* No requestAIChange call is forgotten between its queued operations, and *)
(* none that has ended leaves its request active: the calls that wait have *)
(* an entry in the queue or run, a refused entry fails its call, and a     *)
(* failed, rolled back or refused operation leaves the active request to a *)
(* call that is still under way (graphOperation, requestAIChange).         *)
(***************************************************************************)
THEOREM EveryCallGoesOn == Designer!Spec => []CallsGoOn
<1>1. Designer!Init => DesignerInv /\ GoingOn
  BY DesignerStart, GoingOnStarts
<1>2. DesignerInv /\ [Designer!Next]_(Designer!vars) => DesignerInv'
  BY DesignerStays, DesignerNextKeeps DEF DesignerKept
<1>3. DesignerInv /\ GoingOn /\ [Designer!Next]_(Designer!vars) =>
        (DesignerInv /\ GoingOn)'
  BY <1>2, GoingOnStep
<1>4. DesignerInv /\ GoingOn => CallsGoOn
  <2> SUFFICES ASSUME DesignerInv, GoingOn, NEW q \in Requests
               PROVE  /\ call[q] = "starting"  => Designer!Carried("start", q)
                      /\ call[q] = "answered"  => Designer!Carried("stage", q)
                      /\ call[q] = "recording" =>
                           Designer!Carried("record", q)
                      /\ memory.active = q => call[q] \notin {"idle", "ended"}
    BY DEF CallsGoOn, Designer!CallsGoOn
  <2>1. /\ call[q] = "starting"  => Designer!Carried("start", q)
        /\ call[q] = "answered"  => Designer!Carried("stage", q)
        /\ call[q] = "recording" => Designer!Carried("record", q)
    BY OwnExpects DEF GoingOn, CarriedOn, Own
  <2>2. op # Nobody /\ op.kind = "start" /\ op.request = q =>
          call[q] = "starting"
    BY DEF DesignerInv, QueueFits, Awaited, Own, Expects
  <2>3. memory.active = q => call[q] \notin {"idle", "ended"}
    BY <2>2 DEF GoingOn, ActiveGoesOn, UnderWay
  <2> QED BY <2>1, <2>3
<1> QED BY <1>1, <1>3, <1>4, PTL DEF Designer!Spec

-----------------------------------------------------------------------------
(* Local projects.                                                         *)

LocalRecords == {r \in Local!Records : r.versions # <<>>}
Called(x) ==
  x = [step |-> x.step, op |-> x.op, project |-> x.project, arg |-> x.arg,
       seen |-> x.seen, next |-> x.next]

LocalTyped ==
  /\ disk \in [Projects -> LocalRecords \cup {Nobody, Broken}]
  /\ lock \in [Projects -> LocalCallers \cup {Nobody}]
  /\ localCall = [c \in LocalCallers |-> localCall[c]]
  /\ \A c \in LocalCallers : Called(localCall[c])

(* A call that knows what to write has a record to write, and one that     *)
(* configures a product shell has the shell and its children.              *)
Prepared ==
  \A c \in LocalCallers :
    /\ localCall[c].step \in {"copied", "checked", "writing"} =>
         /\ localCall[c].project \in Projects
         /\ localCall[c].next \in LocalRecords
    /\ localCall[c].step = "listing" =>
         /\ localCall[c].project \in Projects
         /\ localCall[c].arg \subseteq Projects

(* A call that writes holds its project's lock, and what it writes is what *)
(* its operation makes of the file that is there.                          *)
WritersHold ==
  \A c \in LocalCallers : localCall[c].step = "writing" =>
    /\ lock[localCall[c].project] = c
    /\ Local!WritesOver(c, disk[localCall[c].project], localCall[c].next)

LocalInv == LocalTyped /\ Prepared /\ WritersHold

(* The latest entries of a history.                                        *)
LEMMA LatestEntries ==
  ASSUME NEW S, NEW s \in Seq(S), s # <<>>, NEW n \in Nat \ {0}
  PROVE  Local!Latest(s, n) \in Seq(S) /\ Local!Latest(s, n) # <<>>
<1> DEFINE m == IF Len(s) > n THEN Len(s) - n + 1 ELSE 1
<1>1. Len(s) \in Nat /\ Len(s) >= 1
  OBVIOUS
<1>2. m \in 1..Len(s)
  BY <1>1
<1>3. Local!Latest(s, n) = SubSeq(s, m, Len(s))
  BY DEF Local!Latest
<1> HIDE DEF m
<1>4. /\ SubSeq(s, m, Len(s)) \in Seq(S)
      /\ Len(SubSeq(s, m, Len(s))) = Len(s) - m + 1
  BY <1>1, <1>2
<1> DEFINE t == SubSeq(s, m, Len(s))
<1>5. t \in Seq(S) /\ Len(t) >= 1
  BY <1>1, <1>2, <1>4
<1> HIDE DEF t
<1>6. t # <<>>
  BY <1>5
<1> QED BY <1>3, <1>5, <1>6 DEF t

LEMMA Versioned ==
  ASSUME NEW r \in LocalRecords, NEW w \in Local!Workspaces
  PROVE  Local!NextVersion(r, w) \in LocalRecords
<1> DEFINE v == Local!Latest(Append(r.versions, w), MaxVersions)
           d == IF r.design = Nobody THEN Nobody ELSE "behind"
<1>1. r.versions \in Seq(Local!Workspaces)
  BY DEF LocalRecords, Local!Records
<1>2. /\ Append(r.versions, w) \in Seq(Local!Workspaces)
      /\ Append(r.versions, w) # <<>>
  BY <1>1
<1>3. v \in Seq(Local!Workspaces) /\ v # <<>>
  BY <1>2, NumbersAssumption, LatestEntries
<1>4. Local!NextVersion(r, w) =
        [r EXCEPT !.current = w, !.draft = Nobody, !.versions = v,
                  !.design = d]
  BY Zenon DEF Local!NextVersion
<1>5. d \in {Nobody, "current", "behind"}
  OBVIOUS
<1> HIDE DEF v, d
<1>6. Local!NextVersion(r, w) =
        [old |-> r.old, status |-> r.status, children |-> r.children,
         draft |-> Nobody, current |-> w, versions |-> v,
         guidance |-> r.guidance, design |-> d]
  BY <1>4 DEF LocalRecords, Local!Records
<1> HIDE DEF Local!NextVersion
<1> QED BY <1>3, <1>5, <1>6 DEF LocalRecords, Local!Records

(* What an operation makes of a record is a record.                        *)
LEMMA ResultsAreRecords ==
  ASSUME NEW c \in LocalCallers, NEW kind, NEW r \in LocalRecords,
         kind = "configure" => localCall[c].arg \subseteq Projects,
         NEW next \in Local!Results(c, kind, r)
  PROVE  next \in LocalRecords
<1> USE DEF LocalRecords, Local!Records, Local!Workspaces
<1>1. \A s \in {"active", "archived"} :
        [r EXCEPT !.status = s] \in LocalRecords
  OBVIOUS
<1>2. \A g \in SUBSET LocalCallers : [r EXCEPT !.guidance = g] \in LocalRecords
  OBVIOUS
<1>3. [r EXCEPT !.design = "current"] \in LocalRecords
  OBVIOUS
<1>4. \A g \in SUBSET LocalCallers :
        [r EXCEPT !.design = "current", !.guidance = g] \in LocalRecords
  OBVIOUS
<1>5. \A w \in LocalCallers \cup {Nobody} :
        [r EXCEPT !.draft = w] \in LocalRecords
  OBVIOUS
<1>6. \A k \in SUBSET Projects : [r EXCEPT !.children = k] \in LocalRecords
  OBVIOUS
<1>7. \A x \in LocalRecords : [x EXCEPT !.design = "current"] \in LocalRecords
  OBVIOUS
<1>8. /\ r.versions \in Seq(Local!Workspaces) /\ r.versions # <<>>
      /\ r.draft \in Local!Workspaces \cup {Nobody}
      /\ r.guidance \in SUBSET LocalCallers
      /\ c \in Local!Workspaces
  OBVIOUS
<1> HIDE DEF LocalRecords, Local!Records, Local!Workspaces
<1>9. \A w \in Local!Workspaces : Local!NextVersion(r, w) \in LocalRecords
  BY Versioned
<1>10. CASE kind \in {"archive", "restore"}
  BY <1>1, <1>10 DEF Local!Results, Local!SetStatus
<1>11. CASE kind \in {"open", "storeGuidance", "removeGuidance",
                    "commitGraph", "saveDesign", "autosave",
                    "discardAutosave"}
  <2>1. Local!Open(c, r) \subseteq LocalRecords
    BY DEF Local!Open
  <2>2. Local!StoreGuidance(c, r) \subseteq LocalRecords
    BY <1>2, <1>8 DEF Local!StoreGuidance
  <2>3. Local!RemoveGuidance(c, r) \subseteq LocalRecords
    <3>1. \A d \in LocalCallers : r.guidance \ {d} \in SUBSET LocalCallers
      BY <1>8
    <3> QED BY <1>2, <3>1, Zenon DEF Local!RemoveGuidance
  <2>4. Local!CommitGraph(c, r) \subseteq LocalRecords
    BY <1>3 DEF Local!CommitGraph
  <2>5. Local!SaveDesign(c, r) \subseteq LocalRecords
    <3>1. {c} \in SUBSET LocalCallers /\ {} \in SUBSET LocalCallers
      OBVIOUS
    <3> QED BY <1>4, <3>1, Zenon DEF Local!SaveDesign
  <2>6. Local!Autosave(c, r) \subseteq LocalRecords
    BY <1>5 DEF Local!Autosave
  <2>7. Local!DiscardAutosave(c, r) \subseteq LocalRecords
    BY <1>5 DEF Local!DiscardAutosave
  <2> QED
    BY <1>11, <2>1, <2>2, <2>3, <2>4, <2>5, <2>6, <2>7 DEF Local!Results
<1>12. CASE kind = "configure"
  BY <1>6, <1>12 DEF Local!Results, Local!Configure
<1>13. CASE kind = "commitDesign"
  BY <1>7, <1>8, <1>9, <1>13 DEF Local!Results, Local!CommitDesign
<1>14. CASE kind = "recoverAutosave"
  BY <1>8, <1>9, <1>14 DEF Local!Results, Local!RecoverAutosave
<1>15. CASE kind = "restoreVersion"
  <2>1. \A w \in Local!ToSet(r.versions) : w \in Local!Workspaces
    BY <1>8 DEF Local!ToSet
  <2> QED BY <1>9, <1>15, <2>1 DEF Local!Results, Local!RestoreVersion
<1>16. CASE kind = "undo"
  <2>1. \A i \in {Len(r.versions) - 1} \ {0} :
          r.versions[i] \in Local!Workspaces
    BY <1>8
  <2> QED BY <1>9, <1>16, <2>1 DEF Local!Results, Local!Undo
<1> QED
  BY <1>10, <1>11, <1>12, <1>13, <1>14, <1>15, <1>16 DEF Local!Results

(* What an operation makes of a record depends on its call's argument.     *)
LEMMA ResultsDepend ==
  ASSUME NEW c, NEW kind, NEW r, localCall'[c].arg = localCall[c].arg
  PROVE  Local!Results(c, kind, r)' = Local!Results(c, kind, r)
<1>1. Local!Configure(c, r)' = Local!Configure(c, r)
  BY DEF Local!Configure
<1>2. /\ Local!SetStatus(r, "active")' = Local!SetStatus(r, "active")
      /\ Local!SetStatus(r, "archived")' = Local!SetStatus(r, "archived")
      /\ Local!Open(c, r)' = Local!Open(c, r)
      /\ Local!StoreGuidance(c, r)' = Local!StoreGuidance(c, r)
      /\ Local!RemoveGuidance(c, r)' = Local!RemoveGuidance(c, r)
      /\ Local!CommitGraph(c, r)' = Local!CommitGraph(c, r)
      /\ Local!SaveDesign(c, r)' = Local!SaveDesign(c, r)
      /\ Local!CommitDesign(c, r)' = Local!CommitDesign(c, r)
      /\ Local!Autosave(c, r)' = Local!Autosave(c, r)
      /\ Local!RecoverAutosave(c, r)' = Local!RecoverAutosave(c, r)
      /\ Local!DiscardAutosave(c, r)' = Local!DiscardAutosave(c, r)
      /\ Local!RestoreVersion(c, r)' = Local!RestoreVersion(c, r)
      /\ Local!Undo(c, r)' = Local!Undo(c, r)
  OBVIOUS
<1> QED BY <1>1, <1>2, Zenon DEF Local!Results

(* A file that is read.                                                    *)
Justified(p) ==
  disk'[p] # disk[p] =>
    \/ Local!IsThere(p) /\ disk'[p] = Local!Found(p)
    \/ disk'[p] = Nobody /\ (Local!Readable(disk[p]) => disk[p].old)

LEMMA FilesAreNothingElse ==
  \A r \in LocalRecords : r # Nobody /\ r # Broken
BY RecordsAssumption DEF LocalRecords

LEMMA Reading ==
  ASSUME LocalTyped, NEW p \in Projects, Local!Reads(p)
  PROVE  /\ disk' \in [Projects -> LocalRecords \cup {Nobody, Broken}]
         /\ \A q \in Projects : q # p => disk'[q] = disk[q]
         /\ Justified(p) /\ disk'[p] = Local!Found(p)
         /\ disk'[p] \in LocalRecords /\ Local!Readable(disk'[p])
<1>1. /\ disk' = [disk EXCEPT ![p] = Local!Found(p)]
      /\ disk[p] \in LocalRecords /\ disk[p].design # "behind"
      /\ Local!IsThere(p)
  BY DEF LocalTyped, Local!Reads, Local!IsThere, Local!Readable
<1>2. /\ Local!Found(p) \in LocalRecords
      /\ Local!Found(p).design = disk[p].design
  BY <1>1 DEF Local!Found, Local!Migrated, LocalRecords, Local!Records
<1>3. /\ disk' \in [Projects -> LocalRecords \cup {Nobody, Broken}]
      /\ \A q \in Projects : q # p => disk'[q] = disk[q]
      /\ disk'[p] = Local!Found(p)
  BY <1>1, <1>2 DEF LocalTyped
<1> QED
  BY <1>1, <1>2, <1>3, FilesAreNothingElse DEF Justified, Local!Readable

LEMMA Quarantining ==
  ASSUME LocalTyped, NEW p \in Projects,
         Local!CannotRead(p) \/ Local!Quarantine(p)
  PROVE  /\ disk' \in [Projects -> LocalRecords \cup {Nobody, Broken}]
         /\ \A q \in Projects : q # p => disk'[q] = disk[q]
         /\ Local!CannotRead(p) => Justified(p)
<1>1. disk' = disk \/ disk' = [disk EXCEPT ![p] = Nobody]
  BY DEF Local!CannotRead, Local!Quarantine
<1>2. /\ disk' \in [Projects -> LocalRecords \cup {Nobody, Broken}]
      /\ \A q \in Projects : q # p => disk'[q] = disk[q]
      /\ disk'[p] \in {disk[p], Nobody}
  BY <1>1 DEF LocalTyped
<1>3. ASSUME Local!CannotRead(p), disk'[p] # disk[p]
      PROVE  disk'[p] = Nobody /\ (Local!Readable(disk[p]) => disk[p].old)
  BY <1>2, <1>3 DEF Local!CannotRead
<1> QED BY <1>2, <1>3 DEF Justified

(* A call that moves on.                                                   *)
LEMMA CallMoves ==
  ASSUME LocalTyped, NEW c \in LocalCallers, NEW x, Called(x),
         localCall' = [localCall EXCEPT ![c] = x]
  PROVE  /\ localCall' = [d \in LocalCallers |-> localCall'[d]]
         /\ \A d \in LocalCallers : Called(localCall'[d])
         /\ localCall'[c] = x
         /\ \A d \in LocalCallers : d # c => localCall'[d] = localCall[d]
BY DEF LocalTyped

LEMMA CallSteps ==
  ASSUME LocalTyped, NEW c \in LocalCallers, NEW s, Local!To(c, s)
  PROVE  /\ localCall' = [d \in LocalCallers |-> localCall'[d]]
         /\ \A d \in LocalCallers : Called(localCall'[d])
         /\ localCall'[c].step = s
         /\ localCall'[c].op = localCall[c].op
         /\ localCall'[c].project = localCall[c].project
         /\ localCall'[c].next = localCall[c].next
         /\ localCall'[c].arg = localCall[c].arg
         /\ \A d \in LocalCallers : d # c => localCall'[d] = localCall[d]
<1> DEFINE k == localCall[c]
           x == [step |-> s, op |-> k.op, project |-> k.project,
                 arg |-> k.arg, seen |-> k.seen, next |-> k.next]
<1>1. k = [step |-> k.step, op |-> k.op, project |-> k.project,
           arg |-> k.arg, seen |-> k.seen, next |-> k.next]
  BY DEF LocalTyped, Called
<1>2. [k EXCEPT !.step = s] = x
  BY <1>1
<1>3. localCall' = [localCall EXCEPT ![c] = [k EXCEPT !.step = s]]
  BY DEF Local!To
<1>4. localCall' = [localCall EXCEPT ![c] = x]
  BY <1>2, <1>3
<1>5. Called(x)
  BY DEF Called
<1>6. /\ x.step = s /\ x.op = k.op /\ x.project = k.project
      /\ x.next = k.next /\ x.arg = k.arg
  OBVIOUS
<1> HIDE DEF x
<1> QED BY <1>4, <1>5, <1>6, CallMoves

(* The fields of a call, one changed at a time.                            *)
Entry(s, o, p, a, e, n) ==
  [step |-> s, op |-> o, project |-> p, arg |-> a, seen |-> e, next |-> n]

Imports(k, s, o)        == [k EXCEPT !.step = s, !.op = o]
Writes(k, s, o, p, n)   == [k EXCEPT !.step = s, !.op = o,
                                     !.project = p, !.next = n]
Copies(k, s, o, p, n)   == [k EXCEPT !.step = s, !.project = p,
                                     !.op = o, !.next = n]
Begins(k, s, o, p, a)   == [k EXCEPT !.step = s, !.op = o,
                                     !.project = p, !.arg = a]

LEMMA EntriesChange ==
  ASSUME NEW k, Called(k)
  PROVE  /\ \A s, o : Imports(k, s, o) =
              Entry(s, o, k.project, k.arg, k.seen, k.next)
         /\ \A s, o, p, n : Writes(k, s, o, p, n) =
              Entry(s, o, p, k.arg, k.seen, n)
         /\ \A s, o, p, n : Copies(k, s, o, p, n) =
              Entry(s, o, p, k.arg, k.seen, n)
         /\ \A s, o, p, a : Begins(k, s, o, p, a) =
              Entry(s, o, p, a, k.seen, k.next)
<1>1. PICK t, u, v, b, e, m : k = Entry(t, u, v, b, e, m)
  BY DEF Called, Entry
<1>2. k.project = v /\ k.arg = b /\ k.seen = e /\ k.next = m
  BY <1>1 DEF Entry
<1>3. ASSUME NEW s, NEW o, NEW p, NEW a, NEW n
      PROVE  /\ Imports(k, s, o) = Entry(s, o, v, b, e, m)
             /\ Writes(k, s, o, p, n) = Entry(s, o, p, b, e, n)
             /\ Copies(k, s, o, p, n) = Entry(s, o, p, b, e, n)
             /\ Begins(k, s, o, p, a) = Entry(s, o, p, a, e, m)
  <2>3. [k EXCEPT !.step = s] = Entry(s, u, v, b, e, m)
    BY <1>1 DEF Entry
  <2>4. [Entry(s, u, v, b, e, m) EXCEPT !.op = o] = Entry(s, o, v, b, e, m)
    BY DEF Entry
  <2>5. [Entry(s, o, v, b, e, m) EXCEPT !.project = p] =
          Entry(s, o, p, b, e, m)
    BY DEF Entry
  <2>6. [Entry(s, o, p, b, e, m) EXCEPT !.next = n] = Entry(s, o, p, b, e, n)
    BY DEF Entry
  <2>7. [Entry(s, o, p, b, e, m) EXCEPT !.arg = a] = Entry(s, o, p, a, e, m)
    BY DEF Entry
  <2>8. [Entry(s, u, v, b, e, m) EXCEPT !.project = p] =
          Entry(s, u, p, b, e, m)
    BY DEF Entry
  <2>9. [Entry(s, u, p, b, e, m) EXCEPT !.op = o] = Entry(s, o, p, b, e, m)
    BY DEF Entry
  <2>10. Imports(k, s, o) = Entry(s, o, v, b, e, m)
    BY <2>3, <2>4, Zenon DEF Imports
  <2>11. Writes(k, s, o, p, n) = Entry(s, o, p, b, e, n)
    BY <2>3, <2>4, <2>5, <2>6, Zenon DEF Writes
  <2>12. Copies(k, s, o, p, n) = Entry(s, o, p, b, e, n)
    BY <2>3, <2>8, <2>9, <2>6, Zenon DEF Copies
  <2>13. Begins(k, s, o, p, a) = Entry(s, o, p, a, e, m)
    BY <2>3, <2>4, <2>5, <2>7, Zenon DEF Begins
  <2> QED BY <2>10, <2>11, <2>12, <2>13
<1> QED BY <1>2, <1>3

(* A call that writes.                                                     *)
LEMMA CallWrites ==
  ASSUME LocalTyped, NEW c \in LocalCallers, NEW kind, NEW p, NEW next,
         Local!Writing(c, kind, p, next)
  PROVE  /\ localCall' = [d \in LocalCallers |-> localCall'[d]]
         /\ \A d \in LocalCallers : Called(localCall'[d])
         /\ localCall'[c].step = "writing" /\ localCall'[c].op = kind
         /\ localCall'[c].project = p /\ localCall'[c].next = next
         /\ localCall'[c].arg = localCall[c].arg
         /\ \A d \in LocalCallers : d # c => localCall'[d] = localCall[d]
<1> DEFINE k == localCall[c]
           x == Entry("writing", kind, p, k.arg, k.seen, next)
<1>1. localCall' =
       [localCall EXCEPT ![c] = Writes(k, "writing", kind, p, next)]
  BY Zenon DEF Local!Writing, Writes
<1>2. localCall' = [localCall EXCEPT ![c] = x]
  <2>1. Called(k)
    BY DEF LocalTyped
  <2>2. Writes(k, "writing", kind, p, next) = x
    BY <2>1, EntriesChange
  <2> QED BY <1>1, <2>2
<1>3. Called(x)
  BY DEF Called, Entry
<1>4. /\ x.step = "writing" /\ x.op = kind /\ x.project = p
      /\ x.next = next /\ x.arg = k.arg
  BY DEF Entry
<1> HIDE DEF x
<1> QED BY <1>2, <1>3, <1>4, CallMoves

(* A step of one call keeps the invariant when the files and locks of the  *)
(* others are left alone.                                                  *)
LEMMA OneCallMoves ==
  ASSUME LocalInv, LocalTyped', NEW c \in LocalCallers,
         \A d \in LocalCallers : d # c => localCall'[d] = localCall[d],
         \A p \in Projects : lock[p] \notin {Nobody, c} =>
           disk'[p] = disk[p] /\ lock'[p] = lock[p],
         localCall'[c].step \in {"copied", "checked", "writing"} =>
           /\ localCall'[c].project \in Projects
           /\ localCall'[c].next \in LocalRecords,
         localCall'[c].step = "listing" =>
           /\ localCall'[c].project \in Projects
           /\ localCall'[c].arg \subseteq Projects,
         localCall'[c].step = "writing" =>
           /\ lock'[localCall'[c].project] = c
           /\ Local!WritesOver(c, disk[localCall[c].project],
                               localCall[c].next)'
  PROVE  LocalInv'
<1>1. Prepared'
  BY DEF LocalInv, Prepared
<1>2. ASSUME NEW d \in LocalCallers, localCall'[d].step = "writing", d # c
      PROVE  /\ lock'[localCall'[d].project] = d
             /\ Local!WritesOver(d, disk[localCall[d].project],
                                 localCall[d].next)'
  <2>1. /\ localCall'[d] = localCall[d]
        /\ localCall[d].project \in Projects
        /\ lock[localCall[d].project] = d
        /\ Local!WritesOver(d, disk[localCall[d].project], localCall[d].next)
    BY <1>2 DEF LocalInv, WritersHold, Prepared
  <2>2. /\ disk'[localCall[d].project] = disk[localCall[d].project]
        /\ lock'[localCall[d].project] = d
    BY <1>2, <2>1, NobodyAssumption
  <2>3. \A kind, r : Local!Results(d, kind, r)' = Local!Results(d, kind, r)
    BY <2>1, ResultsDepend
  <2> QED BY <2>1, <2>2, <2>3 DEF Local!WritesOver, Local!Readable
<1>3. WritersHold'
  BY <1>2 DEF WritersHold
<1> QED BY <1>1, <1>3 DEF LocalInv

(* A call that ends, or takes no lock and prepares no write.               *)
LEMMA CallRefused ==
  ASSUME LocalInv, NEW c \in LocalCallers, Local!Refused(c),
         disk' \in [Projects -> LocalRecords \cup {Nobody, Broken}],
         NEW p \in Projects, Local!Free(p),
         \A q \in Projects : q # p => disk'[q] = disk[q],
         UNCHANGED lock
  PROVE  LocalInv'
<1>1. Local!To(c, "refused")
  BY DEF Local!Refused, Local!To
<1>2. /\ localCall' = [d \in LocalCallers |-> localCall'[d]]
      /\ \A d \in LocalCallers : Called(localCall'[d])
      /\ localCall'[c].step = "refused"
      /\ \A d \in LocalCallers : d # c => localCall'[d] = localCall[d]
  BY <1>1, CallSteps DEF LocalInv
<1>3. LocalTyped'
  BY <1>2 DEF LocalInv, LocalTyped
<1>4. \A q \in Projects : lock[q] \notin {Nobody, c} =>
        disk'[q] = disk[q] /\ lock'[q] = lock[q]
  BY DEF Local!Free
<1> QED BY <1>2, <1>3, <1>4, OneCallMoves

(* A call that takes the lock of a project whose file it will replace.     *)
LEMMA CallAcquires ==
  ASSUME LocalInv, NEW c \in LocalCallers, NEW kind, NEW p \in Projects,
         NEW next \in LocalRecords,
         Local!Free(p), Local!Acquired(c, p), Local!Writing(c, kind, p, next),
         disk' \in [Projects -> LocalRecords \cup {Nobody, Broken}],
         \A q \in Projects : q # p => disk'[q] = disk[q],
         IF kind \in {"create", "duplicate", "import"} THEN disk'[p] = Nobody
         ELSE /\ disk'[p] # Nobody /\ Local!Readable(disk'[p])
              /\ next \in Local!Results(c, kind, disk'[p])
  PROVE  LocalInv'
<1>1. /\ localCall' = [d \in LocalCallers |-> localCall'[d]]
      /\ \A d \in LocalCallers : Called(localCall'[d])
      /\ localCall'[c].step = "writing" /\ localCall'[c].op = kind
      /\ localCall'[c].project = p /\ localCall'[c].next = next
      /\ localCall'[c].arg = localCall[c].arg
      /\ \A d \in LocalCallers : d # c => localCall'[d] = localCall[d]
  BY CallWrites DEF LocalInv
<1>2. /\ lock' = [lock EXCEPT ![p] = c]
      /\ lock \in [Projects -> LocalCallers \cup {Nobody}]
  BY DEF Local!Acquired, LocalInv, LocalTyped
<1>3. /\ lock' \in [Projects -> LocalCallers \cup {Nobody}]
      /\ lock'[p] = c /\ \A q \in Projects : q # p => lock'[q] = lock[q]
  BY <1>2
<1>4. LocalTyped'
  BY <1>1, <1>3 DEF LocalTyped
<1>5. \A q \in Projects : lock[q] \notin {Nobody, c} =>
        disk'[q] = disk[q] /\ lock'[q] = lock[q]
  BY <1>3 DEF Local!Free
<1>6. \A r : Local!Results(c, kind, r)' = Local!Results(c, kind, r)
  BY <1>1, ResultsDepend
<1>7. Local!WritesOver(c, disk[localCall[c].project], localCall[c].next)'
  BY <1>1, <1>6 DEF Local!WritesOver, Local!Readable
<1> QED BY <1>1, <1>3, <1>4, <1>5, <1>7, OneCallMoves

(* A file is only replaced by what builds on it.                           *)
Replaced(p) ==
  disk'[p] # disk[p] =>
    \/ \E c \in LocalCallers :
         localCall[c].project = p /\ Local!WritesOver(c, disk[p], disk'[p])
    \/ Local!IsThere(p) /\ disk'[p] = Local!Found(p)
    \/ disk'[p] = Nobody /\ (Local!Readable(disk[p]) => disk[p].old)
    \/ \E c \in LocalCallers :
         localCall[c].step = "idle" /\ localCall'[c].op = "import"

LocalKept == LocalInv' /\ \A p \in Projects : Replaced(p)

(* When one file at most is replaced, as its reading justifies.            *)
LEMMA OneReplaced ==
  ASSUME NEW p \in Projects, Justified(p),
         \A q \in Projects : q # p => disk'[q] = disk[q]
  PROVE  \A q \in Projects : Replaced(q)
BY DEF Justified, Replaced

(* Storing what an operation makes of a record keeps the invariant.        *)
LEMMA EditKeeps ==
  ASSUME LocalInv, NEW c \in LocalCallers, NEW kind \in Local!Changes,
         NEW p \in Projects, Local!Change(c, kind, p)
  PROVE  LocalKept
<1>1. LocalTyped /\ Local!Free(p)
  BY DEF LocalInv, Local!Change
<1>2. CASE /\ Local!Reads(p) /\ Local!Acquired(c, p)
           /\ \E next \in Local!Results(c, kind, Local!Found(p)) :
                Local!Writing(c, kind, p, next)
  <2>1. PICK next \in Local!Results(c, kind, Local!Found(p)) :
          Local!Writing(c, kind, p, next)
    BY <1>2
  <2>2. /\ disk' \in [Projects -> LocalRecords \cup {Nobody, Broken}]
        /\ \A q \in Projects : q # p => disk'[q] = disk[q]
        /\ Justified(p) /\ disk'[p] = Local!Found(p)
        /\ disk'[p] \in LocalRecords /\ Local!Readable(disk'[p])
    BY <1>1, <1>2, Reading
  <2>3. kind \notin {"configure", "create", "duplicate", "import"}
    BY DEF Local!Changes
  <2>4. next \in LocalRecords
    BY <2>1, <2>2, <2>3, ResultsAreRecords
  <2>5. disk'[p] # Nobody /\ next \in Local!Results(c, kind, disk'[p])
    BY <2>1, <2>2, FilesAreNothingElse
  <2>6. LocalInv'
    BY <1>1, <1>2, <2>1, <2>2, <2>3, <2>4, <2>5, CallAcquires
  <2> QED BY <2>2, <2>6, OneReplaced DEF LocalKept
<1>3. CASE /\ Local!Reads(p) \/ Local!CannotRead(p)
           /\ Local!Refused(c) /\ UNCHANGED lock
  <2>1. /\ disk' \in [Projects -> LocalRecords \cup {Nobody, Broken}]
        /\ \A q \in Projects : q # p => disk'[q] = disk[q]
        /\ Justified(p)
    BY <1>1, <1>3, Reading, Quarantining
  <2>2. LocalInv'
    BY <1>1, <1>3, <2>1, CallRefused
  <2> QED BY <2>1, <2>2, OneReplaced DEF LocalKept
<1> QED BY <1>2, <1>3 DEF Local!Change

(* So does the write itself, which replaces the file its call prepared     *)
(* for.                                                                    *)
LEMMA WriteKeeps ==
  ASSUME LocalInv, NEW c \in LocalCallers, Local!Write(c)
  PROVE  LocalKept
<1> DEFINE p == localCall[c].project
<1>1. /\ localCall[c].step = "writing"
      /\ p \in Projects /\ localCall[c].next \in LocalRecords
      /\ lock[p] = c
      /\ Local!WritesOver(c, disk[p], localCall[c].next)
  BY DEF Local!Write, LocalInv, Prepared, WritersHold
<1>2. /\ LocalTyped
      /\ lock' = [lock EXCEPT ![p] = Nobody]
      /\ disk' = disk \/ disk' = [disk EXCEPT ![p] = localCall[c].next]
      /\ \E s \in {"done", "refused"} : Local!To(c, s)
  BY DEF Local!Write, LocalInv, Local!Refused, Local!To
<1> HIDE DEF p
<1>3. /\ disk' \in [Projects -> LocalRecords \cup {Nobody, Broken}]
      /\ \A q \in Projects : q # p => disk'[q] = disk[q]
      /\ disk'[p] \in {disk[p], localCall[c].next}
  BY <1>1, <1>2 DEF LocalTyped
<1>4. /\ lock' \in [Projects -> LocalCallers \cup {Nobody}]
      /\ \A q \in Projects : q # p => lock'[q] = lock[q]
  BY <1>1, <1>2 DEF LocalTyped
<1>5. /\ localCall' = [d \in LocalCallers |-> localCall'[d]]
      /\ \A d \in LocalCallers : Called(localCall'[d])
      /\ localCall'[c].step \in {"done", "refused"}
      /\ \A d \in LocalCallers : d # c => localCall'[d] = localCall[d]
  BY <1>2, CallSteps
<1>6. LocalTyped'
  BY <1>3, <1>4, <1>5 DEF LocalTyped
<1>7. \A q \in Projects : lock[q] \notin {Nobody, c} =>
        disk'[q] = disk[q] /\ lock'[q] = lock[q]
  BY <1>1, <1>3, <1>4
<1>8. LocalInv'
  BY <1>5, <1>6, <1>7, OneCallMoves
<1>9. \A q \in Projects : Replaced(q)
  BY <1>1, <1>3 DEF Replaced, p
<1> QED BY <1>8, <1>9 DEF LocalKept

(* A new record is one.                                                    *)
LEMMA NewRecord ==
  ASSUME NEW w \in Local!Workspaces
  PROVE  Local!New(w) \in LocalRecords
<1>1. <<w>> \in Seq(Local!Workspaces) /\ <<w>> # <<>>
  OBVIOUS
<1> QED BY <1>1 DEF Local!New, LocalRecords, Local!Records

(* A creation takes the lock of a project that has no file.                *)
LEMMA CreateAsKeeps ==
  ASSUME LocalInv, NEW c \in LocalCallers,
         NEW kind \in {"create", "duplicate", "import"}, NEW p \in Projects,
         NEW new \in LocalRecords, Local!CreateAs(c, kind, p, new)
  PROVE  LocalKept
<1>1. /\ LocalTyped /\ Local!Free(p) /\ disk' = disk
      /\ disk' \in [Projects -> LocalRecords \cup {Nobody, Broken}]
  BY DEF LocalInv, LocalTyped, Local!CreateAs
<1>2. \A q \in Projects : Replaced(q)
  BY <1>1 DEF Replaced
<1>3. CASE /\ disk[p] = Nobody
           /\ Local!Writing(c, kind, p, new) /\ Local!Acquired(c, p)
  BY <1>1, <1>2, <1>3, CallAcquires DEF LocalKept
<1>4. CASE Local!Refused(c) /\ UNCHANGED lock
  BY <1>1, <1>2, <1>4, CallRefused DEF LocalKept
<1> QED BY <1>3, <1>4 DEF Local!CreateAs

(* The steps of a copy.                                                    *)
LEMMA CopyKeeps ==
  ASSUME LocalInv, NEW c \in LocalCallers, NEW source \in Projects,
         NEW p \in Projects, Local!Copy(c, source, p)
  PROVE  LocalKept
<1>1. LocalTyped /\ Local!Free(source) /\ lock' = lock
  BY DEF LocalInv, Local!Copy
<1>2. CASE (Local!Reads(source) \/ Local!CannotRead(source))
           /\ Local!Refused(c)
  <2>1. /\ disk' \in [Projects -> LocalRecords \cup {Nobody, Broken}]
        /\ \A q \in Projects : q # source => disk'[q] = disk[q]
        /\ Justified(source)
    BY <1>1, <1>2, Reading, Quarantining
  <2>2. LocalInv'
    BY <1>1, <1>2, <2>1, CallRefused
  <2> QED BY <2>1, <2>2, OneReplaced DEF LocalKept
<1>3. CASE /\ Local!Reads(source)
           /\ localCall' =
                [localCall EXCEPT
                   ![c].step = "copied", ![c].project = p,
                   ![c].op = "duplicate",
                   ![c].next = Local!New(Local!Found(source).current)]
  <2> DEFINE k == localCall[c]
             n == Local!New(Local!Found(source).current)
             x == Entry("copied", "duplicate", p, k.arg, k.seen, n)
  <2>1. /\ disk' \in [Projects -> LocalRecords \cup {Nobody, Broken}]
        /\ \A q \in Projects : q # source => disk'[q] = disk[q]
        /\ Justified(source) /\ disk'[source] = Local!Found(source)
        /\ disk'[source] \in LocalRecords
    BY <1>1, <1>3, Reading
  <2>2. n \in LocalRecords
    <3>1. Local!Found(source).current \in Local!Workspaces
      BY <2>1 DEF LocalRecords, Local!Records
    <3> QED BY <3>1, NewRecord
  <2>3. localCall' =
          [localCall EXCEPT ![c] = Copies(k, "copied", "duplicate", p, n)]
    BY <1>3, Zenon DEF Copies
  <2> HIDE DEF n
  <2>4. Called(k)
    BY <1>1 DEF LocalTyped
  <2>5. Copies(k, "copied", "duplicate", p, n) = x
    BY <2>4, EntriesChange
  <2>6. localCall' = [localCall EXCEPT ![c] = x]
    BY <2>3, <2>5
  <2>7. Called(x)
    BY DEF Called, Entry
  <2>8. x.step = "copied" /\ x.project = p /\ x.next = n
    BY DEF Entry
  <2> HIDE DEF x
  <2>9. /\ localCall' = [d \in LocalCallers |-> localCall'[d]]
        /\ \A d \in LocalCallers : Called(localCall'[d])
        /\ localCall'[c] = x
        /\ \A d \in LocalCallers : d # c => localCall'[d] = localCall[d]
    BY <1>1, <2>6, <2>7, CallMoves
  <2>10. LocalTyped'
    BY <1>1, <2>1, <2>9 DEF LocalTyped
  <2>11. \A q \in Projects : lock[q] \notin {Nobody, c} =>
           disk'[q] = disk[q] /\ lock'[q] = lock[q]
    BY <1>1, <2>1 DEF Local!Free
  <2>12. LocalInv'
    BY <2>2, <2>8, <2>9, <2>10, <2>11, OneCallMoves
  <2> QED BY <2>1, <2>12, OneReplaced DEF LocalKept
<1> QED BY <1>2, <1>3 DEF Local!Copy

LEMMA CheckTargetKeeps ==
  ASSUME LocalInv, NEW c \in LocalCallers, Local!CheckTarget(c)
  PROVE  LocalKept
<1>1. /\ LocalTyped /\ localCall[c].step = "copied"
      /\ disk' = disk /\ lock' = lock
      /\ localCall[c].project \in Projects
      /\ localCall[c].next \in LocalRecords
      /\ \E s \in {"checked", "refused"} : Local!To(c, s)
  BY DEF LocalInv, Local!CheckTarget, Prepared, Local!Refused, Local!To
<1>2. /\ localCall' = [d \in LocalCallers |-> localCall'[d]]
      /\ \A d \in LocalCallers : Called(localCall'[d])
      /\ localCall'[c].step \in {"checked", "refused"}
      /\ localCall'[c].project = localCall[c].project
      /\ localCall'[c].next = localCall[c].next
      /\ \A d \in LocalCallers : d # c => localCall'[d] = localCall[d]
  BY <1>1, CallSteps
<1>3. LocalTyped'
  BY <1>1, <1>2 DEF LocalTyped
<1>4. LocalInv'
  BY <1>1, <1>2, <1>3, OneCallMoves
<1> QED BY <1>1, <1>4 DEF LocalKept, Replaced

LEMMA CreateCopyKeeps ==
  ASSUME LocalInv, NEW c \in LocalCallers, Local!CreateCopy(c)
  PROVE  LocalKept
<1>1. localCall[c].project \in Projects /\ localCall[c].next \in LocalRecords
  BY DEF LocalInv, Prepared, Local!CreateCopy
<1> QED BY <1>1, CreateAsKeeps DEF Local!CreateCopy

(* A creation, and an import, whose rejection may remove a file.           *)
LEMMA CreateKeeps ==
  ASSUME LocalInv, NEW c \in LocalCallers, NEW p \in Projects,
         Local!Create(c, p)
  PROVE  LocalKept
<1>1. Local!New(c) \in LocalRecords
  BY NewRecord DEF Local!Workspaces
<1> QED BY <1>1, CreateAsKeeps DEF Local!Create

LEMMA ImportKeeps ==
  ASSUME LocalInv, NEW c \in LocalCallers, NEW p \in Projects,
         Local!Import(c, p)
  PROVE  LocalKept
<1>1. CASE Local!CreateAs(c, "import", p, Local!New(c))
  <2>1. Local!New(c) \in LocalRecords
    BY NewRecord DEF Local!Workspaces
  <2> QED BY <1>1, <2>1, CreateAsKeeps
<1>2. CASE /\ Local!Free(p) /\ Local!Quarantine(p)
           /\ localCall' = [localCall EXCEPT ![c].step = "refused",
                                             ![c].op = "import"]
           /\ UNCHANGED lock
  <2> DEFINE k == localCall[c]
             x == Entry("refused", "import", k.project, k.arg, k.seen, k.next)
  <2>1. LocalTyped
    BY DEF LocalInv
  <2>2. /\ disk' \in [Projects -> LocalRecords \cup {Nobody, Broken}]
        /\ \A q \in Projects : q # p => disk'[q] = disk[q]
    BY <1>2, <2>1, Quarantining
  <2>3. localCall' =
          [localCall EXCEPT ![c] = Imports(k, "refused", "import")]
    BY <1>2, Zenon DEF Imports
  <2>4. Called(k)
    BY <2>1 DEF LocalTyped
  <2>5. Imports(k, "refused", "import") = x
    BY <2>4, EntriesChange
  <2>6. localCall' = [localCall EXCEPT ![c] = x]
    BY <2>3, <2>5
  <2>7. Called(x)
    BY DEF Called, Entry
  <2>8. x.step = "refused" /\ x.op = "import"
    BY DEF Entry
  <2> HIDE DEF x
  <2>9. /\ localCall' = [d \in LocalCallers |-> localCall'[d]]
        /\ \A d \in LocalCallers : Called(localCall'[d])
        /\ localCall'[c] = x
        /\ \A d \in LocalCallers : d # c => localCall'[d] = localCall[d]
    BY <2>1, <2>6, <2>7, CallMoves
  <2>10. LocalTyped'
    BY <1>2, <2>1, <2>2, <2>9 DEF LocalTyped
  <2>11. \A q \in Projects : lock[q] \notin {Nobody, c} =>
           disk'[q] = disk[q] /\ lock'[q] = lock[q]
    BY <1>2, <2>2 DEF Local!Free
  <2>12. LocalInv'
    BY <2>8, <2>9, <2>10, <2>11, OneCallMoves
  <2>13. localCall[c].step = "idle"
    BY DEF Local!Import, Local!Begins
  <2>14. \A q \in Projects : Replaced(q)
    BY <2>8, <2>9, <2>13 DEF Replaced
  <2> QED BY <2>12, <2>14 DEF LocalKept
<1> QED BY <1>1, <1>2 DEF Local!Import

(* The steps of configuring a product shell.                               *)
LEMMA ConfigurableKeeps ==
  ASSUME LocalInv, NEW c \in LocalCallers, NEW p \in Projects,
         NEW children \in SUBSET Projects, Local!Configurable(c, p, children)
  PROVE  LocalKept
<1> DEFINE k == localCall[c]
           x == Entry("listing", "configure", p, children, k.seen, k.next)
<1>1. LocalTyped /\ disk' = disk /\ lock' = lock
  BY DEF LocalInv, Local!Configurable
<1>2. localCall' =
        [localCall EXCEPT ![c] = Begins(k, "listing", "configure", p,
                                        children)]
  BY Zenon DEF Begins, Local!Configurable
<1>3. Called(k)
  BY <1>1 DEF LocalTyped
<1>4. Begins(k, "listing", "configure", p, children) = x
  BY <1>3, EntriesChange
<1>5. localCall' = [localCall EXCEPT ![c] = x]
  BY <1>2, <1>4
<1>6. Called(x)
  BY DEF Called, Entry
<1>7. x.step = "listing" /\ x.project = p /\ x.arg = children
  BY DEF Entry
<1> HIDE DEF x
<1>8. /\ localCall' = [d \in LocalCallers |-> localCall'[d]]
      /\ \A d \in LocalCallers : Called(localCall'[d])
      /\ localCall'[c] = x
      /\ \A d \in LocalCallers : d # c => localCall'[d] = localCall[d]
  BY <1>1, <1>5, <1>6, CallMoves
<1>9. LocalTyped'
  BY <1>1, <1>8 DEF LocalTyped
<1>10. LocalInv'
  BY <1>1, <1>7, <1>8, <1>9, OneCallMoves
<1> QED BY <1>1, <1>10 DEF LocalKept, Replaced

LEMMA ListKeeps ==
  ASSUME LocalInv, NEW c \in LocalCallers, NEW p \in Projects,
         Local!List(c, p)
  PROVE  LocalKept
<1>1. /\ LocalTyped /\ localCall[c].step = "listing"
      /\ Local!Free(p) /\ lock' = lock
      /\ Local!Reads(p) \/ Local!CannotRead(p)
      /\ localCall[c].project \in Projects
      /\ localCall[c].arg \subseteq Projects
  BY DEF LocalInv, Prepared, Local!List
<1>2. /\ disk' \in [Projects -> LocalRecords \cup {Nobody, Broken}]
      /\ \A q \in Projects : q # p => disk'[q] = disk[q]
      /\ Justified(p)
  BY <1>1, Reading, Quarantining
<1>3. \E z : localCall' = [localCall EXCEPT ![c].seen = z]
  BY Zenon DEF Local!List, Local!Sees
<1>4. PICK z : localCall' = [localCall EXCEPT ![c].seen = z]
  BY <1>3
<1> DEFINE k == localCall[c]
           x == Entry(k.step, k.op, k.project, k.arg, z, k.next)
<1>5. k = Entry(k.step, k.op, k.project, k.arg, k.seen, k.next)
  BY <1>1 DEF LocalTyped, Called, Entry
<1>6. [k EXCEPT !.seen = z] = x
  BY <1>5 DEF Entry
<1>7. localCall' = [localCall EXCEPT ![c] = x]
  BY <1>4, <1>6
<1>8. Called(x)
  BY DEF Called, Entry
<1>9. x.step = k.step /\ x.project = k.project /\ x.arg = k.arg
  BY DEF Entry
<1> HIDE DEF x
<1>10. /\ localCall' = [d \in LocalCallers |-> localCall'[d]]
       /\ \A d \in LocalCallers : Called(localCall'[d])
       /\ localCall'[c] = x
       /\ \A d \in LocalCallers : d # c => localCall'[d] = localCall[d]
  BY <1>1, <1>7, <1>8, CallMoves
<1>11. LocalTyped'
  BY <1>1, <1>2, <1>10 DEF LocalTyped
<1>12. \A q \in Projects : lock[q] \notin {Nobody, c} =>
         disk'[q] = disk[q] /\ lock'[q] = lock[q]
  BY <1>1, <1>2 DEF Local!Free
<1>13. LocalInv'
  BY <1>1, <1>9, <1>10, <1>11, <1>12, OneCallMoves
<1> QED BY <1>2, <1>13, OneReplaced DEF LocalKept

LEMMA ClaimKeeps ==
  ASSUME LocalInv, NEW c \in LocalCallers, Local!Claim(c)
  PROVE  LocalKept
<1> DEFINE p == localCall[c].project
<1>1. /\ LocalTyped /\ p \in Projects /\ localCall[c].arg \subseteq Projects
  BY DEF LocalInv, Prepared, Local!Claim
<1>2. CASE /\ Local!Free(p) /\ Local!Reads(p) /\ Local!Acquired(c, p)
           /\ \E next \in Local!Results(c, "configure", Local!Found(p)) :
                Local!Writing(c, "configure", p, next)
  <2> HIDE DEF p
  <2>1. PICK next \in Local!Results(c, "configure", Local!Found(p)) :
          Local!Writing(c, "configure", p, next)
    BY <1>2
  <2>2. /\ disk' \in [Projects -> LocalRecords \cup {Nobody, Broken}]
        /\ \A q \in Projects : q # p => disk'[q] = disk[q]
        /\ Justified(p) /\ disk'[p] = Local!Found(p)
        /\ disk'[p] \in LocalRecords /\ Local!Readable(disk'[p])
    BY <1>1, <1>2, Reading
  <2>3. next \in LocalRecords
    BY <1>1, <2>1, <2>2, ResultsAreRecords
  <2>4. disk'[p] # Nobody /\ next \in Local!Results(c, "configure", disk'[p])
    BY <2>1, <2>2, FilesAreNothingElse
  <2>5. LocalInv'
    BY <1>1, <1>2, <2>1, <2>2, <2>3, <2>4, CallAcquires
  <2> QED BY <1>1, <2>2, <2>5, OneReplaced DEF LocalKept
<1>3. CASE /\ disk' = disk \/ (/\ Local!Free(p)
                               /\ Local!Reads(p) \/ Local!CannotRead(p))
           /\ Local!Refused(c) /\ UNCHANGED lock
  <2> HIDE DEF p
  <2>1. /\ disk' \in [Projects -> LocalRecords \cup {Nobody, Broken}]
        /\ \A q \in Projects : q # p => disk'[q] = disk[q]
        /\ Justified(p)
        /\ disk'[p] # disk[p] => Local!Free(p)
    <3>1. CASE disk' = disk
      BY <1>1, <3>1 DEF LocalTyped, Justified
    <3>2. CASE Local!Free(p) /\ (Local!Reads(p) \/ Local!CannotRead(p))
      BY <1>1, <3>2, Reading, Quarantining
    <3> QED BY <1>3, <3>1, <3>2
  <2>2. Local!To(c, "refused")
    BY <1>3 DEF Local!Refused, Local!To
  <2>3. /\ localCall' = [d \in LocalCallers |-> localCall'[d]]
        /\ \A d \in LocalCallers : Called(localCall'[d])
        /\ localCall'[c].step = "refused"
        /\ \A d \in LocalCallers : d # c => localCall'[d] = localCall[d]
    BY <1>1, <2>2, CallSteps
  <2>4. LocalTyped'
    BY <1>1, <1>3, <2>1, <2>3 DEF LocalTyped
  <2>5. \A q \in Projects : lock[q] \notin {Nobody, c} =>
          disk'[q] = disk[q] /\ lock'[q] = lock[q]
    BY <1>1, <1>3, <2>1 DEF Local!Free
  <2>6. LocalInv'
    BY <2>3, <2>4, <2>5, OneCallMoves
  <2> QED BY <1>1, <2>1, <2>6, OneReplaced DEF LocalKept
<1> QED BY <1>2, <1>3 DEF Local!Claim

(* When the process dies no call writes any more.                          *)
LEMMA LocalCrashKeeps ==
  ASSUME LocalInv, Local!Crash
  PROVE  LocalKept
<1> DEFINE x(c) == IF localCall[c].step \in {"idle", "done", "refused"}
                   THEN localCall[c]
                   ELSE [localCall[c] EXCEPT !.step = "refused"]
<1>1. /\ LocalTyped /\ disk' = disk
      /\ lock' = [p \in Projects |-> Nobody]
  BY DEF LocalInv, Local!Crash
<1>2. localCall' = [c \in LocalCallers |-> x(c)]
  BY Zenon DEF Local!Crash
<1>3. \A c \in LocalCallers :
        Called(x(c)) /\ x(c).step \in {"idle", "done", "refused"}
  <2> SUFFICES ASSUME NEW c \in LocalCallers
               PROVE  /\ Called(x(c))
                      /\ x(c).step \in {"idle", "done", "refused"}
    OBVIOUS
  <2> DEFINE k == localCall[c]
  <2>1. Called(k)
    BY <1>1 DEF LocalTyped
  <2>2. k = Entry(k.step, k.op, k.project, k.arg, k.seen, k.next)
    BY <2>1 DEF Called, Entry
  <2>3. [k EXCEPT !.step = "refused"] =
          Entry("refused", k.op, k.project, k.arg, k.seen, k.next)
    BY <2>2 DEF Entry
  <2>4. /\ Called([k EXCEPT !.step = "refused"])
        /\ [k EXCEPT !.step = "refused"].step = "refused"
    BY <2>3 DEF Entry, Called
  <2> QED BY <2>1, <2>4
<1> HIDE DEF x
<1>4. LocalTyped'
  BY <1>1, <1>2, <1>3 DEF LocalTyped
<1>5. \A c \in LocalCallers :
        localCall'[c].step \in {"idle", "done", "refused"}
  BY <1>2, <1>3
<1>6. Prepared' /\ WritersHold'
  BY <1>5 DEF Prepared, WritersHold
<1>7. LocalInv'
  BY <1>4, <1>6 DEF LocalInv
<1> QED BY <1>1, <1>7 DEF LocalKept, Replaced

(* A step of the service keeps the invariant and replaces what it may.     *)
LEMMA LocalStep ==
  ASSUME LocalInv, Local!Next
  PROVE  LocalKept
<1>1. CASE \E c \in LocalCallers, p \in Projects :
             \/ \E kind \in Local!Changes : Local!Change(c, kind, p)
             \/ Local!Create(c, p) \/ Local!Import(c, p) \/ Local!List(c, p)
             \/ \E source \in Projects : Local!Copy(c, source, p)
             \/ \E children \in SUBSET Projects :
                  Local!Configurable(c, p, children)
  BY <1>1, EditKeeps, CreateKeeps, ImportKeeps, ListKeeps, CopyKeeps,
     ConfigurableKeeps
<1>2. CASE \E c \in LocalCallers : \/ Local!Write(c) \/ Local!CheckTarget(c)
                                   \/ Local!CreateCopy(c) \/ Local!Claim(c)
  BY <1>2, WriteKeeps, CheckTargetKeeps, CreateCopyKeeps, ClaimKeeps
<1>3. CASE Local!Crash
  BY <1>3, LocalCrashKeeps
<1> QED BY <1>1, <1>2, <1>3 DEF Local!Next

(* At first there are only files that were stored earlier.                 *)
LEMMA LocalStart ==
  ASSUME Local!Init
  PROVE  LocalInv
<1> DEFINE r == Local!New("first")
<1>1. r \in LocalRecords
  BY NewRecord DEF Local!Workspaces
<1>2. [r EXCEPT !.old = TRUE] \in LocalRecords
  BY <1>1 DEF LocalRecords, Local!Records
<1>3. disk \in [Projects -> {Nobody, Broken, r, [r EXCEPT !.old = TRUE]}]
  BY Zenon DEF Local!Init
<1>4. disk \in [Projects -> LocalRecords \cup {Nobody, Broken}]
  BY <1>1, <1>2, <1>3
<1>5. /\ lock = [p \in Projects |-> Nobody]
      /\ localCall = [c \in LocalCallers |-> Local!Idle]
  BY DEF Local!Init
<1>6. Called(Local!Idle) /\ Local!Idle.step = "idle"
  BY DEF Called, Local!Idle
<1>7. LocalTyped
  BY <1>4, <1>5, <1>6 DEF LocalTyped
<1>8. Prepared /\ WritersHold
  BY <1>5, <1>6 DEF Prepared, WritersHold
<1> QED BY <1>7, <1>8 DEF LocalInv

(* No change of a project is lost to another: whatever overlaps and fails, *)
(* a file is only replaced by what an operation makes of the file that is  *)
(* there, by its migration, or by nothing, when it cannot be read          *)
(* (withProjectLock, readRecord).                                          *)
THEOREM ChangesBuild == Local!Spec => ChangesBuildOnTheLatest
<1>1. Local!Init => LocalInv
  BY LocalStart
<1>2. LocalInv /\ [Local!Next]_(Local!vars) => LocalInv'
  <2>1. ASSUME LocalInv, Local!Next PROVE LocalInv'
    BY <2>1, LocalStep DEF LocalKept
  <2>2. ASSUME LocalInv, UNCHANGED Local!vars PROVE LocalInv'
    <3>1. disk' = disk /\ lock' = lock /\ localCall' = localCall
      BY <2>2 DEF Local!vars
    <3>2. \A c, k, r : Local!Results(c, k, r)' = Local!Results(c, k, r)
      BY <3>1, ResultsDepend
    <3>3. LocalTyped' /\ Prepared'
      BY <2>2, <3>1 DEF LocalInv, LocalTyped, Prepared
    <3>4. WritersHold'
      BY <2>2, <3>1, <3>2
         DEF LocalInv, WritersHold, Local!WritesOver, Local!Readable
    <3> QED BY <3>3, <3>4 DEF LocalInv
  <2> QED BY <2>1, <2>2
<1>3. LocalInv /\ [Local!Next]_(Local!vars) =>
        [\A p \in Projects : Replaced(p)]_(Local!vars)
  BY LocalStep DEF LocalKept
<1> QED
  BY <1>1, <1>2, <1>3, PTL
     DEF Local!Spec, ChangesBuildOnTheLatest, Local!ChangesBuildOnTheLatest,
         Replaced

-----------------------------------------------------------------------------
(* The agent host.                                                         *)
AgentTyped ==
  /\ session \in
       [AgentRequests -> {"unused", "active", "cancelling", "retired"}]
  /\ outcome \in [AgentRequests ->
                    {"none", "starting", "waiting"} \cup Agent!Outcomes]
  /\ cancels \subseteq AgentRequests

(* The session and the callers agree: it knows a request from when it is   *)
(* written, one it would still answer has not been completed, and one it   *)
(* was told to cancel it never takes for active again.                     *)
SessionAgrees ==
  \A r \in AgentRequests :
    /\ outcome[r] \in {"none", "starting"} => session[r] = "unused"
    /\ session[r] \in {"unused", "active"} => outcome[r] # "completed"
    /\ r \in cancels => /\ session[r] \in {"cancelling", "retired"}
                        /\ outcome[r] # "completed"

AgentInv == AgentTyped /\ SessionAgrees

(* Settling a set of requests changes only what those who wait have heard. *)
LEMMA SettleOutcome ==
  ASSUME AgentTyped, NEW rs, NEW result \in Agent!Outcomes,
         Agent!Settle(rs, result)
  PROVE  /\ outcome' \in [AgentRequests ->
                    {"none", "starting", "waiting"} \cup Agent!Outcomes]
         /\ \A r \in AgentRequests :
              \/ outcome'[r] = outcome[r]
              \/ /\ r \in rs /\ outcome[r] = "waiting"
                 /\ outcome'[r] = result
BY DEF AgentTyped, Agent!Settle

LEMMA AgentStep == AgentInv /\ [Agent!Next]_agentVars => AgentInv'
<1> SUFFICES ASSUME AgentInv, [Agent!Next]_agentVars PROVE AgentInv'
  OBVIOUS
<1>0. AgentTyped
  BY DEF AgentInv
<1> USE DEF Agent!Outcomes
<1>1. ASSUME Agent!FailAll, UNCHANGED <<session, cancels>> PROVE AgentInv'
  <2>1. /\ outcome' \in [AgentRequests ->
                    {"none", "starting", "waiting"} \cup Agent!Outcomes]
        /\ \A r \in AgentRequests :
             \/ outcome'[r] = outcome[r]
             \/ outcome[r] = "waiting" /\ outcome'[r] = "failed"
    BY <1>0, <1>1, SettleOutcome DEF Agent!FailAll
  <2> QED BY <1>1, <2>1 DEF AgentInv, AgentTyped, SessionAgrees
<1>2. ASSUME UNCHANGED <<session, cancels, outcome>> PROVE AgentInv'
  BY <1>2 DEF AgentInv, AgentTyped, SessionAgrees
<1>3. ASSUME NEW r \in AgentRequests, Agent!Request(r) PROVE AgentInv'
  BY <1>3 DEF Agent!Request, AgentInv, AgentTyped, SessionAgrees
<1>4. ASSUME NEW r \in AgentRequests, Agent!Begin(r) PROVE AgentInv'
  BY <1>4 DEF Agent!Begin, Agent!GivenUp, AgentInv, AgentTyped, SessionAgrees
<1>5. ASSUME NEW r \in AgentRequests, Agent!Cancel(r), UNCHANGED outcome
      PROVE  AgentInv'
  BY <1>5 DEF Agent!Cancel, Agent!Cancelled, AgentInv, AgentTyped,
     SessionAgrees
<1>6. ASSUME NEW r \in AgentRequests, Agent!Abort(r) PROVE AgentInv'
  BY <1>2, <1>5, <1>6 DEF Agent!Abort
<1>7. ASSUME NEW r \in AgentRequests, Agent!GraceOver(r) PROVE AgentInv'
  <2>1. /\ outcome' \in [AgentRequests ->
                    {"none", "starting", "waiting"} \cup Agent!Outcomes]
        /\ \A s \in AgentRequests :
             \/ outcome'[s] = outcome[s]
             \/ outcome[s] = "waiting" /\ outcome'[s] = "cancelled"
    BY <1>0, <1>7, SettleOutcome DEF Agent!GraceOver, Agent!Finish
  <2> QED
    BY <1>7, <2>1 DEF Agent!GraceOver, AgentInv, AgentTyped, SessionAgrees
<1>8. ASSUME NEW r \in AgentRequests, NEW type \in Agent!Terminal,
             Agent!Frame(r, type)
      PROVE  AgentInv'
  <2> DEFINE result == CASE type = "completed" -> "completed"
                         [] type = "cancelled" -> "cancelled"
                         [] type = "error" -> "failed"
  <2>1. CASE Agent!Accepts(r, type)
    <3>1. /\ session' = [session EXCEPT ![r] = "retired"]
          /\ Agent!Settle({r}, result) /\ UNCHANGED cancels
      BY <1>8, <2>1 DEF Agent!Frame, Agent!Finish
    <3>2. /\ result \in Agent!Outcomes
          /\ result = "completed" <=> type = "completed"
      BY DEF Agent!Terminal
    <3> HIDE DEF result
    <3>3. /\ outcome' \in [AgentRequests ->
                    {"none", "starting", "waiting"} \cup Agent!Outcomes]
          /\ \A s \in AgentRequests :
               \/ outcome'[s] = outcome[s]
               \/ s = r /\ outcome[s] = "waiting" /\ outcome'[s] = result
      BY <1>0, <3>1, <3>2, SettleOutcome
    <3>4. /\ outcome[r] \notin {"none", "starting"}
          /\ type = "completed" => r \notin cancels
      BY <2>1 DEF Agent!Accepts, AgentInv, SessionAgrees
    <3> QED
      BY <1>0, <3>1, <3>2, <3>3, <3>4 DEF AgentInv, AgentTyped, SessionAgrees
  <2>2. CASE ~Agent!Accepts(r, type)
    BY <1>1, <1>8, <2>2 DEF Agent!Frame, Agent!ProtocolFailure
  <2> QED BY <2>1, <2>2
<1>9. CASE Agent!Hello
  BY <1>1, <1>2, <1>9 DEF Agent!Hello, Agent!ProtocolFailure
<1>10. ASSUME NEW r \in AgentRequests, Agent!Timeout(r) PROVE AgentInv'
  BY <1>5, <1>10 DEF Agent!Timeout
<1> QED
  BY <1>1, <1>2, <1>3, <1>4, <1>6, <1>7, <1>8, <1>9, <1>10
  DEF Agent!Next, Agent!Malformed, Agent!Uncorrelated, Agent!Exit,
      Agent!HelloTimeout, Agent!Stop, Agent!ProtocolFailure, agentVars

(* A request the agent was told to cancel is never completed: the session  *)
(* takes no completed frame for it, whenever the cancellation was sent.    *)
THEOREM CancelledStaysCancelled == Agent!Spec => []CancelledNeverCompletes
<1>1. Agent!Init => AgentInv
  BY DEF Agent!Init, AgentInv, AgentTyped, SessionAgrees, Agent!Outcomes
<1>2. AgentInv /\ [Agent!Next]_agentVars => AgentInv'
  BY AgentStep
<1>3. AgentInv => CancelledNeverCompletes
  BY DEF AgentInv, AgentTyped, SessionAgrees, CancelledNeverCompletes,
     Agent!CancelledNeverCompletes
<1> QED BY <1>1, <1>2, <1>3, PTL DEF Agent!Spec, Agent!vars, agentVars

(* Where a waiting request is: still active, not given up by anyone and    *)
(* timed if it was to be, or cancelled and timed for that.                 *)
WaitingIsTimed ==
  \A r \in AgentRequests :
    /\ outcome[r] = "starting" => hello # "none"
    /\ outcome[r] = "waiting" =>
         /\ r \in waiting /\ Agent!Writable
         /\ \/ session[r] = "cancelling" /\ r \in grace
            \/ /\ session[r] = "active" /\ r \notin aborts
               /\ r \in Timed => r \in due

DueInv == AgentInv /\ WaitingIsTimed

(* When everyone in the map is told, nobody waits any more.                *)
LEMMA NobodyWaits ==
  ASSUME DueInv, Agent!FailAll
  PROVE  WaitingIsTimed'
<1>1. AgentTyped
  BY DEF DueInv, AgentInv
<1>2. \A r \in AgentRequests :
        \/ outcome'[r] = outcome[r] /\ r \notin waiting
        \/ outcome'[r] = outcome[r] /\ outcome[r] # "waiting"
        \/ outcome'[r] = "failed"
  BY <1>1 DEF Agent!FailAll, Agent!Settle
<1>3. hello # "none" => hello' # "none"
  BY DEF Agent!FailAll
<1>4. \A r \in AgentRequests :
        outcome[r] = "waiting" => r \in waiting
  BY DEF DueInv, WaitingIsTimed
<1>5. \A r \in AgentRequests : outcome'[r] # "waiting"
  BY <1>2, <1>4
<1>6. \A r \in AgentRequests : outcome'[r] = "starting" => hello' # "none"
  BY <1>2, <1>3 DEF DueInv, WaitingIsTimed
<1> QED BY <1>5, <1>6 DEF WaitingIsTimed

(* A request that is told leaves the others alone.                         *)
LEMMA OneIsTold ==
  ASSUME DueInv, NEW r \in AgentRequests, NEW result \in Agent!Outcomes,
         Agent!Finish(r, result),
         UNCHANGED <<process, attached, hello, aborts>>,
         \A s \in AgentRequests \ {r} : session'[s] = session[s]
  PROVE  WaitingIsTimed'
<1> USE DEF Agent!Outcomes
<1>1. AgentTyped
  BY DEF DueInv, AgentInv
<1>2. /\ \/ outcome'[r] = outcome[r] /\ outcome[r] # "waiting"
         \/ outcome'[r] = result
      /\ \A s \in AgentRequests \ {r} : outcome'[s] = outcome[s]
  BY <1>1 DEF Agent!Finish, Agent!Settle
<1>3. /\ waiting' = waiting \ {r} /\ due' = due \ {r} /\ grace' = grace \ {r}
      /\ Agent!Writable' <=> Agent!Writable
  BY DEF Agent!Finish, Agent!Writable
<1>4. outcome'[r] # "waiting" /\ (outcome'[r] = "starting" => hello' # "none")
  BY <1>2 DEF DueInv, WaitingIsTimed
<1> QED BY <1>2, <1>3, <1>4 DEF DueInv, WaitingIsTimed

(* A cancellation starts its timer as it stops being active.               *)
LEMMA CancelIsTimed ==
  ASSUME DueInv, NEW r \in AgentRequests, Agent!Cancel(r),
         UNCHANGED <<process, attached, hello, waiting, outcome>>,
         due \ {r} \subseteq due', aborts' \subseteq aborts \cup {r}
  PROVE  WaitingIsTimed'
<1>1. session \in
        [AgentRequests -> {"unused", "active", "cancelling", "retired"}]
  BY DEF DueInv, AgentInv, AgentTyped
<1>2. Agent!Writable' <=> Agent!Writable
  BY DEF Agent!Writable
<1>3. CASE session[r] # "active"
  BY <1>2, <1>3 DEF Agent!Cancel, DueInv, WaitingIsTimed
<1>4. CASE session[r] = "active"
  <2>1. /\ session'[r] = "cancelling"
        /\ \A s \in AgentRequests \ {r} : session'[s] = session[s]
        /\ grace \subseteq grace' /\ (Agent!Writable => r \in grace')
    BY <1>1, <1>4 DEF Agent!Cancel, Agent!Cancelled
  <2> QED BY <1>2, <2>1 DEF DueInv, WaitingIsTimed
<1> QED BY <1>3, <1>4

LEMMA DueStep == DueInv /\ [Agent!Next]_agentVars => WaitingIsTimed'
<1> SUFFICES ASSUME DueInv, [Agent!Next]_agentVars PROVE WaitingIsTimed'
  OBVIOUS
<1>0. AgentTyped
  BY DEF DueInv, AgentInv
<1>1. ASSUME NEW r \in AgentRequests, Agent!Request(r) PROVE WaitingIsTimed'
  <2>1. /\ outcome[r] = "none" /\ outcome'[r] = "starting"
        /\ \A s \in AgentRequests \ {r} : outcome'[s] = outcome[s]
    BY <1>0, <1>1 DEF Agent!Request, AgentTyped
  <2>2. /\ hello' # "none" /\ (Agent!Writable => Agent!Writable')
        /\ UNCHANGED <<session, waiting, due, grace, aborts>>
    BY <1>1 DEF Agent!Request, Agent!Writable
  <2> QED BY <2>1, <2>2 DEF DueInv, WaitingIsTimed
<1>2. ASSUME NEW r \in AgentRequests, Agent!Begin(r) PROVE WaitingIsTimed'
  <2>1. /\ UNCHANGED <<process, attached, hello, grace, aborts>>
        /\ (Agent!Writable' <=> Agent!Writable) /\ hello # "none"
        /\ \A s \in AgentRequests \ {r} :
             outcome'[s] = outcome[s] /\ session'[s] = session[s]
        /\ waiting \subseteq waiting' /\ due \subseteq due'
    BY <1>0, <1>2 DEF Agent!Begin, Agent!Writable, AgentTyped
  <2>2. CASE Agent!GivenUp(r)
    <3>1. outcome'[r] \in {"failed", "cancelled"}
      BY <1>0, <1>2, <2>2 DEF Agent!Begin, AgentTyped
    <3> QED BY <2>1, <3>1 DEF DueInv, WaitingIsTimed
  <2>3. CASE ~Agent!GivenUp(r)
    <3>1. /\ r \notin aborts /\ session'[r] = "active" /\ r \in waiting'
          /\ r \in Timed => r \in due'
          /\ outcome'[r] = IF Agent!Writable THEN "waiting" ELSE "failed"
      BY <1>0, <1>2, <2>3 DEF Agent!Begin, Agent!GivenUp, AgentTyped
    <3> QED BY <2>1, <3>1 DEF DueInv, WaitingIsTimed
  <2> QED BY <2>2, <2>3
<1>3. ASSUME NEW r \in AgentRequests, Agent!Timeout(r) PROVE WaitingIsTimed'
  BY <1>3, CancelIsTimed DEF Agent!Timeout
<1>4. ASSUME NEW r \in AgentRequests, Agent!Abort(r) PROVE WaitingIsTimed'
  <2>1. CASE r \in waiting
    BY <1>4, <2>1, CancelIsTimed DEF Agent!Abort
  <2>2. CASE r \notin waiting
    <3>1. /\ UNCHANGED <<process, attached, hello, outcome, session, waiting,
                         due, grace>>
          /\ aborts' = aborts \cup {r}
      BY <1>4, <2>2 DEF Agent!Abort
    <3> QED BY <2>2, <3>1 DEF DueInv, WaitingIsTimed, Agent!Writable
  <2> QED BY <2>1, <2>2
<1>5. ASSUME NEW r \in AgentRequests, Agent!GraceOver(r) PROVE WaitingIsTimed'
  <2>1. "cancelled" \in Agent!Outcomes
    BY DEF Agent!Outcomes
  <2> QED BY <1>5, <2>1, OneIsTold DEF Agent!GraceOver
<1>6. ASSUME NEW r \in AgentRequests, NEW type \in Agent!Terminal,
             Agent!Frame(r, type)
      PROVE  WaitingIsTimed'
  <2> DEFINE result == CASE type = "completed" -> "completed"
                         [] type = "cancelled" -> "cancelled"
                         [] type = "error" -> "failed"
  <2>1. CASE Agent!Accepts(r, type)
    <3>1. result \in Agent!Outcomes
      BY DEF Agent!Terminal, Agent!Outcomes
    <3>2. /\ Agent!Finish(r, result)
          /\ UNCHANGED <<process, attached, hello, aborts>>
          /\ session' = [session EXCEPT ![r] = "retired"]
      BY <1>6, <2>1 DEF Agent!Frame
    <3> HIDE DEF result
    <3>3. \A s \in AgentRequests \ {r} : session'[s] = session[s]
      BY <1>0, <3>2 DEF AgentTyped
    <3> QED BY <3>1, <3>2, <3>3, OneIsTold
  <2>2. CASE ~Agent!Accepts(r, type)
    BY <1>6, <2>2, NobodyWaits DEF Agent!Frame, Agent!ProtocolFailure
  <2> QED BY <2>1, <2>2
<1>7. CASE Agent!Hello
  <2>1. CASE greeted
    BY <1>7, <2>1, NobodyWaits DEF Agent!Hello, Agent!ProtocolFailure
  <2>2. CASE ~greeted
    <3>1. /\ UNCHANGED <<process, attached, session, waiting, due, grace,
                         outcome, aborts>>
          /\ hello # "none" => hello' # "none"
      BY <1>7, <2>2 DEF Agent!Hello
    <3> QED BY <3>1 DEF DueInv, WaitingIsTimed, Agent!Writable
  <2> QED BY <2>1, <2>2
<1>8. CASE Agent!FailAll
  BY <1>8, NobodyWaits
<1>9. CASE UNCHANGED agentVars
  BY <1>9 DEF agentVars, DueInv, WaitingIsTimed, Agent!Writable
<1> QED
  BY <1>1, <1>2, <1>3, <1>4, <1>5, <1>6, <1>7, <1>8, <1>9
  DEF Agent!Next, Agent!Malformed, Agent!Uncorrelated, Agent!Exit,
      Agent!HelloTimeout, Agent!Stop, Agent!ProtocolFailure

(* A caller that gave a timeout, or has aborted, waits for a timer of the  *)
(* host and never for the agent alone, whatever the agent's frames, its    *)
(* end, stop() and the two cancellations are preceded by (request(),       *)
(* cancel(), failAll()).                                                   *)
THEOREM EndsAreDue == Agent!Spec => []EndIsDue
<1>1. Agent!Init => DueInv
  BY DEF Agent!Init, DueInv, WaitingIsTimed, AgentInv, AgentTyped,
     SessionAgrees, Agent!Outcomes
<1>2. DueInv /\ [Agent!Next]_agentVars => DueInv'
  BY AgentStep, DueStep DEF DueInv
<1>3. DueInv => EndIsDue
  BY DEF DueInv, WaitingIsTimed, EndIsDue, Agent!EndIsDue
<1> QED BY <1>1, <1>2, <1>3, PTL DEF Agent!Spec, Agent!vars, agentVars

-----------------------------------------------------------------------------
(* The parts side by side.                                                 *)

(* A step of one part is none of another.                                  *)
LEMMA PartsStep ==
  ASSUME [PartsNext]_<<vars, partVars>>
  PROVE  /\ [Next]_vars
         /\ [PreviewBuild!Next]_(PreviewBuild!vars)
         /\ [Refresh!Next]_(Refresh!vars)
         /\ [Agent!Next]_(Agent!vars)
         /\ [Designer!Next]_(Designer!vars)
         /\ [Crash!Next]_(Crash!vars)
         /\ [Publish!Next]_(Publish!vars)
         /\ [Story!Next]_(Story!vars)
         /\ [Edit!Next]_(Edit!vars)
         /\ [Local!Next]_(Local!vars)
<1>1. Next \/ UNCHANGED vars
  BY DEF PartsNext, Others, partVars
<1>2. PreviewBuild!Next \/ UNCHANGED buildVars
  BY DEF PartsNext, Others, partVars
<1>3. UNCHANGED buildVars => UNCHANGED PreviewBuild!vars
  BY DEF buildVars, PreviewBuild!vars
<1>4. Refresh!Next \/ UNCHANGED refreshVars
  BY DEF PartsNext, Others, partVars
<1>5. UNCHANGED refreshVars => UNCHANGED Refresh!vars
  BY DEF refreshVars, Refresh!vars, Refresh!renderer, Refresh!host
<1>6. Agent!Next \/ UNCHANGED agentVars
  BY DEF PartsNext, Others, partVars
<1>7. UNCHANGED agentVars => UNCHANGED Agent!vars
  BY DEF agentVars, Agent!vars
<1>8. Designer!Next \/ UNCHANGED designerVars
  BY DEF PartsNext, Others, partVars
<1>9. UNCHANGED designerVars => UNCHANGED Designer!vars
  BY DEF designerVars, Designer!vars
<1>10. Crash!Next \/ UNCHANGED crashVars
  BY DEF PartsNext, Others, partVars
<1>11. UNCHANGED crashVars => UNCHANGED Crash!vars
  BY DEF crashVars, Crash!vars, Crash!histories
<1>12. Publish!Next \/ UNCHANGED publishVars
  BY DEF PartsNext, Others, partVars
<1>13. UNCHANGED publishVars => UNCHANGED Publish!vars
  BY DEF publishVars, Publish!vars, Publish!host
<1>14. Story!Next \/ UNCHANGED storyVars
  BY DEF PartsNext, Others, partVars
<1>15. UNCHANGED storyVars => UNCHANGED Story!vars
  BY DEF storyVars, Story!vars
<1>16. Edit!Next \/ UNCHANGED editVars
  BY DEF PartsNext, Others, partVars
<1>17. UNCHANGED editVars => UNCHANGED Edit!vars
  BY DEF editVars, Edit!vars
<1>18. Local!Next \/ UNCHANGED localVars
  BY DEF PartsNext, Others, partVars
<1>19. UNCHANGED localVars => UNCHANGED Local!vars
  BY DEF localVars, Local!vars
<1> QED BY <1>1, <1>2, <1>3, <1>4, <1>5, <1>6, <1>7, <1>8, <1>9, <1>10, <1>11,
  <1>12, <1>13, <1>14, <1>15, <1>16, <1>17, <1>18, <1>19

(* What the run explores side by side is, of each part, a behaviour of the *)
(* specification its theorems are about: the parts of the desktop          *)
(* (designer-service.ts, desktop-runtime.ts) share no variable here.       *)
THEOREM PartsFollow ==
  PartsSpec => /\ Spec /\ PreviewBuild!Spec /\ Refresh!Spec /\ Agent!Spec
               /\ Designer!Spec /\ Crash!Spec /\ Publish!Spec /\ Story!Spec
               /\ Edit!Spec /\ Local!Spec
<1>1. PartsInit =>
        /\ Init /\ PreviewBuild!Init /\ Refresh!Init /\ Agent!Init
        /\ Designer!Init /\ Crash!Init /\ Publish!Init /\ Story!Init
        /\ Edit!Init /\ Local!Init
  BY DEF PartsInit
<1> QED
  BY <1>1, PartsStep, PTL
  DEF PartsSpec, Spec, PreviewBuild!Spec, Refresh!Spec, Agent!Spec,
    Designer!Spec, Crash!Spec, Publish!Spec, Story!Spec, Edit!Spec, Local!Spec

(* Whoever waits in the desktop's processes waits for something that is    *)
(* due: a refresh for its presentation or its lease, a caller of the agent *)
(* for a greeting, an answer or a timer, an AI request for an operation in *)
(* the queue - in the specification the run checks, whichever part moves   *)
(* (PreviewPresentationCoordinator, ElectronAgentHost, requestAIChange).   *)
THEOREM WaitsAreNotInVain == PartsSpec => []NobodyWaitsInVain
<1>1. PartsSpec => /\ []NobodyLeftBehind /\ []EndIsDue /\ []CallsGoOn
  BY PartsFollow, NobodyIsLeftBehind, EndsAreDue, EveryCallGoesOn, PTL
<1>2. NobodyLeftBehind /\ EndIsDue /\ CallsGoOn => NobodyWaitsInVain
  BY DEF NobodyWaitsInVain
<1> QED BY <1>1, <1>2, PTL
=============================================================================
