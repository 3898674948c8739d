----------------------------- MODULE EventStream ----------------------------
(***************************************************************************)
(* The events of one project on their way to one reader: emit() of the     *)
(* collaboration service appends an event to the repository and then calls *)
(* the subscribers of its process; a server-sent stream pages through the  *)
(* durable events and is woken by such calls; a reader whose stream ends   *)
(* reconnects with the last cursor it received.                            *)
(*                                                                         *)
(* The service is one JavaScript thread.  pump() runs without interruption *)
(* until it awaits a page or stops: phase is "running" in between, and no  *)
(* other callback of the process runs then.                                *)
(***************************************************************************)
EXTENDS Integers, Sequences, FiniteSets, SequencesExt

CONSTANTS
  Emits,      \* calls of emit(), one event each
  PageSize,   \* 500 in the code
  MaxPending, \* collaborationBudgets.maxItems
  MaxCloses   \* bound on how often a stream is closed or fails

VARIABLES
  reserved,  \* whether cursors are assigned before the commit; never changes
  cursors,   \* the number of cursors assigned
  emit,      \* each call's progress
  cursorOf,  \* each call's cursor, 0 before it has one
  stream,    \* the server's side of the reader's stream
  phase,     \* what pump() is at
  demand,    \* desiredSize > 0
  pull,      \* whether the stream is about to call pull()
  sent,      \* events written and not yet received
  received,  \* events received, over all connections
  closes

writers == <<reserved, cursors, emit, cursorOf>>
server == <<stream, phase, demand, pull, sent, closes>>
vars == <<writers, server, received>>

Cursors == 1..Cardinality(Emits)

(* lastCursor, replayCursor, replaying, page from pageIndex on, pending in *)
(* insertion order, and nextPage()'s requiredCursor (0 is undefined).      *)
NewStream(after) ==
  [open |-> TRUE, last |-> after, replay |-> after, replaying |-> TRUE,
   page |-> <<>>, pending |-> <<>>, required |-> 0]

Streams ==
  [open : BOOLEAN, last : 0..Cardinality(Emits),
   replay : 0..Cardinality(Emits), replaying : BOOLEAN, page : Seq(Cursors),
   pending : Seq(Cursors), required : 0..Cardinality(Emits)]

TypeOK ==
  /\ reserved \in BOOLEAN
  /\ cursors \in 0..Cardinality(Emits)
  /\ emit \in [Emits -> {"idle", "inserted", "aborted", "committed", "told",
                         "unheard"}]
  /\ cursorOf \in [Emits -> 0..Cardinality(Emits)]
  /\ stream \in Streams /\ Len(stream.pending) <= MaxPending
  /\ phase \in {"idle", "running", "loading", "loaded"}
  /\ demand \in BOOLEAN /\ pull \in BOOLEAN
  /\ sent \in Seq(Cursors) /\ received \in Seq(Cursors)
  /\ closes \in 0..MaxCloses

(* PostgreSQL assigns a cursor when the row is inserted, the in-memory     *)
(* repository when the event is there to be read.                          *)
Init ==
  /\ reserved \in BOOLEAN
  /\ cursors = 0
  /\ emit = [e \in Emits |-> "idle"]
  /\ cursorOf = [e \in Emits |-> 0]
  /\ stream = NewStream(0)
  /\ phase = "idle" /\ demand = TRUE /\ pull = TRUE
  /\ sent = <<>> /\ received = <<>>
  /\ closes = 0

Durable == {e \in Emits : emit[e] \in {"committed", "told", "unheard"}}

(* listEvents(): the first PageSize cursors after the given one, in order. *)
PagesAfter(after) ==
  LET found == {cursorOf[e] : e \in {d \in Durable : cursorOf[d] > after}} IN
  {page \in SeqOf(Cursors, PageSize) :
     /\ ToSet(page) \subseteq found
     /\ \A i, j \in DOMAIN page : i < j => page[i] < page[j]
     /\ \A c \in found \ ToSet(page) :
          Len(page) = PageSize /\ \A i \in DOMAIN page : page[i] < c}

-----------------------------------------------------------------------------
(* appendEvent().  PostgreSQL assigns the cursor when the row is inserted; *)
(* readers see it when its transaction commits, in whatever order.         *)
Insert(e) ==
  /\ reserved /\ emit[e] = "idle"
  /\ cursors' = cursors + 1
  /\ cursorOf' = [cursorOf EXCEPT ![e] = cursors + 1]
  /\ emit' = [emit EXCEPT ![e] = "inserted"]
  /\ UNCHANGED <<reserved, server, received>>

Commit(e) ==
  /\ \/ /\ reserved /\ emit[e] = "inserted"
        /\ UNCHANGED <<cursors, cursorOf>>
     \/ /\ ~reserved /\ emit[e] = "idle"
        /\ cursors' = cursors + 1
        /\ cursorOf' = [cursorOf EXCEPT ![e] = cursors + 1]
  /\ emit' = [emit EXCEPT ![e] = "committed"]
  /\ UNCHANGED <<reserved, server, received>>

Aborted(e) ==
  /\ emit[e] = "inserted"
  /\ emit' = [emit EXCEPT ![e] = "aborted"]
  /\ UNCHANGED <<reserved, cursors, cursorOf, server, received>>

(* The host call that appended the event was abandoned at its deadline, or *)
(* another process of the service made it: nobody here is told.            *)
Unheard(e) ==
  /\ emit[e] = "committed"
  /\ emit' = [emit EXCEPT ![e] = "unheard"]
  /\ UNCHANGED <<reserved, cursors, cursorOf, server, received>>

(* fail(), cancel() and the abort listener: the stream unsubscribes, and   *)
(* what the reader has not received is lost.                               *)
Closes ==
  /\ stream' = [NewStream(0) EXCEPT !.open = FALSE]
  /\ phase' = "idle" /\ demand' = FALSE /\ pull' = FALSE
  /\ sent' = <<>>
  /\ closes' = closes + 1

(* write(event), called by emit(): remember the cursor, start the pump.    *)
Writes(c) ==
  IF ~stream.open \/ c <= stream.last THEN UNCHANGED server
  ELSE IF Len(stream.pending) + 1 > MaxPending THEN Closes
  ELSE /\ stream' = [stream EXCEPT !.pending = Append(@, c)]
       /\ phase' = IF phase = "idle" THEN "running" ELSE phase
       /\ UNCHANGED <<demand, pull, sent, closes>>

Tell(e) ==
  /\ emit[e] = "committed"
  /\ phase # "running"
  /\ closes < MaxCloses \/ Len(stream.pending) < MaxPending
  /\ emit' = [emit EXCEPT ![e] = "told"]
  /\ Writes(cursorOf[e])
  /\ UNCHANGED <<reserved, cursors, cursorOf, received>>

-----------------------------------------------------------------------------
(* pump(), one iteration of its loop at a time.                            *)
Pull ==
  /\ stream.open /\ pull /\ phase = "idle"
  /\ phase' = "running" /\ pull' = FALSE
  /\ UNCHANGED <<writers, stream, demand, sent, received,
                 closes>>

Rests(s) == s.page = <<>> /\ ~s.replaying /\ s.pending = <<>>

PumpStops ==
  /\ phase = "running"
  /\ ~demand \/ Rests(stream)
  /\ phase' = "idle"
  /\ UNCHANGED <<writers, stream, demand, pull, sent,
                 received, closes>>

Delivered(s, c) ==
  IF c <= s.last THEN [s EXCEPT !.page = Tail(@)]
  ELSE [s EXCEPT !.last = c, !.page = Tail(@), !.pending = RemoveFirst(@, c)]

(* desiredSize afterwards depends on whether the transport was waiting.    *)
PumpDelivers ==
  LET c == Head(stream.page) IN
  /\ phase = "running" /\ demand /\ stream.page # <<>>
  /\ stream' = Delivered(stream, c)
  /\ IF c <= stream.last THEN UNCHANGED <<demand, sent>>
     ELSE demand' \in BOOLEAN /\ sent' = Append(sent, c)
  /\ UNCHANGED <<writers, phase, pull, received, closes>>

ReplayAgain(s) == [s EXCEPT !.replay = s.last, !.replaying = TRUE]

PumpReplays ==
  /\ phase = "running" /\ demand
  /\ stream.page = <<>> /\ ~stream.replaying /\ stream.pending # <<>>
  /\ stream' = ReplayAgain(stream)
  /\ UNCHANGED <<writers, phase, demand, pull, sent,
                 received, closes>>

(* `await nextPage()`                                                      *)
PumpAsks ==
  /\ phase = "running" /\ demand
  /\ stream.page = <<>> /\ stream.replaying
  /\ stream' = [stream EXCEPT
       !.required = IF stream.pending = <<>> THEN 0
                    ELSE Head(stream.pending)]
  /\ phase' = "loading"
  /\ UNCHANGED <<writers, demand, pull, sent, received,
                 closes>>

RepositoryReads ==
  /\ phase = "loading"
  /\ \E page \in PagesAfter(stream.replay) :
       stream' = [stream EXCEPT !.page = page]
  /\ phase' = "loaded"
  /\ UNCHANGED <<writers, demand, pull, sent, received,
                 closes>>

ReadFails ==
  /\ phase = "loading" /\ closes < MaxCloses
  /\ Closes
  /\ UNCHANGED <<writers, received>>

(* Mutant: a full page is taken for the last one.                          *)
LoadedAll(s) ==
  [s EXCEPT !.replay = IF s.page = <<>> THEN @ ELSE Last(s.page),
            !.replaying = FALSE, !.required = 0]

Loaded(s) ==
  [s EXCEPT !.replay = IF s.page = <<>> THEN @ ELSE Last(s.page),
            !.replaying = Len(s.page) = PageSize, !.required = 0]

(* "Committed event history is unavailable" is not thrown: see             *)
(* HistoryAvailable.                                                       *)
Unavailable(s) == s.page = <<>> /\ s.required > s.replay

PageArrives ==
  /\ phase = "loaded" /\ ~Unavailable(stream)
  /\ stream' = Loaded(stream)
  /\ phase' = "running"
  /\ UNCHANGED <<writers, demand, pull, sent, received,
                 closes>>

-----------------------------------------------------------------------------
(* The transport takes what is queued, the reader receives it in order,    *)
(* the connection is cut, and EventSource reconnects.                      *)
Take ==
  /\ stream.open /\ ~demand
  /\ demand' = TRUE /\ pull' = TRUE
  /\ UNCHANGED <<writers, stream, phase, sent, received,
                 closes>>

Receive ==
  /\ sent # <<>>
  /\ received' = Append(received, Head(sent))
  /\ sent' = Tail(sent)
  /\ UNCHANGED <<writers, stream, phase, demand, pull,
                 closes>>

Disconnect ==
  /\ stream.open /\ phase # "running" /\ closes < MaxCloses
  /\ Closes
  /\ UNCHANGED <<writers, received>>

(* Mutant: the stream starts with what happens after it was opened.        *)
ResumesAtEnd == cursors

Resumes == IF received = <<>> THEN 0 ELSE Last(received)

Reconnect ==
  /\ ~stream.open
  /\ stream' = NewStream(Resumes)
  /\ phase' = "idle" /\ demand' = TRUE /\ pull' = TRUE
  /\ UNCHANGED <<writers, sent, received, closes>>

Pump ==
  \/ Pull \/ PumpStops \/ PumpDelivers \/ PumpReplays \/ PumpAsks
  \/ RepositoryReads \/ PageArrives

Next ==
  \/ \E e \in Emits :
       Insert(e) \/ Commit(e) \/ Aborted(e) \/ Unheard(e) \/ Tell(e)
  \/ Pump \/ ReadFails
  \/ Take \/ Receive \/ Disconnect \/ Reconnect

Spec == Init /\ [][Next]_vars

(* Fairness: the event loop runs what is due, the repository answers, and  *)
(* the reader keeps reading and reconnecting.                              *)
Fairness ==
  /\ WF_vars(Pump) /\ WF_vars(Take) /\ WF_vars(Receive)
  /\ WF_vars(Reconnect)

FairSpec == Spec /\ Fairness

-----------------------------------------------------------------------------
(* Cursors are for catch-up: whoever has received a cursor has received    *)
(* every durable event before it.                                          *)
NoEventSkipped ==
  \A e \in Durable :
    received # <<>> /\ cursorOf[e] <= Last(received)
    => \E i \in DOMAIN received : received[i] = cursorOf[e]

(* Over all its connections, with cuts, replays and overflows of the       *)
(* pending wake-ups in between, a reader gets events in the order of their *)
(* cursors, none twice, and, where no cursor is assigned before its event  *)
(* can be read, none is jumped over.                                       *)
ReaderFollowsHistory ==
  /\ \A i, j \in DOMAIN received : i < j => received[i] < received[j]
  /\ ~reserved => NoEventSkipped

(* No wake-up is lost: a stream that rests although its transport would    *)
(* take more is about to be pulled or has nothing left to do, and an event *)
(* the subscribers were told of and the stream has not passed is among     *)
(* what it has read, what it has been woken for or what it has still to    *)
(* read - told before the stream was opened, between the query of a page   *)
(* and its arrival, or at any other time.                                  *)
NoWakeUpLost ==
  stream.open =>
    /\ phase = "idle" /\ demand => pull \/ Rests(stream)
    /\ \A e \in Emits :
         emit[e] = "told" /\ cursorOf[e] > stream.last =>
           \/ cursorOf[e] \in ToSet(stream.page) \cup ToSet(stream.pending)
           \/ stream.replaying /\ cursorOf[e] > stream.replay

(* An event the subscribers were told of reaches the reader, unless a      *)
(* later cursor overtook it.                                               *)
ToldReceived ==
  \A e \in Emits :
    ~reserved /\ emit[e] = "told"
      ~> \E i \in DOMAIN received : received[i] = cursorOf[e]

(* What is buffered is consumed: the pump does not query the repository    *)
(* for ever without an event to deliver.  It does where an earlier cursor  *)
(* is told of after a page with a later one was read.                      *)
PumpRests == []<>(phase = "idle")
=============================================================================
