----------------------------- MODULE ProgressMC -----------------------------
(***************************************************************************)
(* What must eventually happen, for TLC: the answers of the host effect    *)
(* supervisor, the event stream, and the desktop's preview refresh, agent  *)
(* host and designer service, side by side, each with the fairness it has  *)
(* in its module.  A behaviour picks one of them at the start and follows  *)
(* it, the others stay as they begin.                                      *)
(***************************************************************************)
EXTENDS Integers, Sequences

CONSTANTS
  Nobody,
  Owners, EffectCalls, Observers,                     \* HostEffects
  MaxConcurrentEffects, MaxConcurrentEffectsPerOwner, MaxTime,
  Emits, PageSize, MaxPending, MaxCloses,             \* EventStream
  Refreshes, MaxTicket,                               \* PreviewRefresh
  AgentRequests, Timed,                               \* AgentHost
  DesignerRequests, MaxRevisions, MaxGraph, MaxQueued \* DesignerProject

VARIABLES
  part,
  lastNow, active, nextGeneration, owner, phase, request, pending, reason,
  outcome, aborted, listening, timers, stack, watch,
  reserved, cursors, emit, cursorOf, stream, flow, demand, pull, sent,
  received, closes,
  ticket, refresh, wire, live, holder, committed, promised, frame, shown,
  toHost, toRenderer, lease, building, revoked, published,
  process, attached, hello, greeted, session, waiting, due, grace, told,
  aborts, cancels,
  stored, memory, queue, op, call, asked, stopped, doubt

effectVars == <<lastNow, active, nextGeneration, owner, phase, request,
                pending, reason, outcome, aborted, listening, timers, stack,
                watch>>
streamVars == <<reserved, cursors, emit, cursorOf, stream, flow, demand, pull,
                sent, received, closes>>
refreshVars == <<ticket, refresh, wire, live, holder, committed, promised,
                 frame, shown, toHost, toRenderer, lease, building, revoked,
                 published>>
agentVars == <<process, attached, hello, greeted, session, waiting, due, grace,
               told, aborts, cancels>>
designerVars == <<stored, memory, queue, op, call, asked, stopped, doubt>>

Effects == INSTANCE HostEffects WITH Calls <- EffectCalls

Stream == INSTANCE EventStream WITH phase <- flow

Refresh == INSTANCE PreviewRefresh WITH
  None <- Nobody, active <- live, owner <- holder, pending <- promised

Agent == INSTANCE AgentHost WITH
  Requests <- AgentRequests, pending <- waiting, aborted <- aborts,
  outcome <- told

Designer == INSTANCE DesignerProject WITH
  Requests <- DesignerRequests, None <- Nobody, aborted <- stopped

AllVars ==
  <<part, effectVars, streamVars, refreshVars, agentVars, designerVars>>

PartsInit ==
  /\ part \in {"effects", "stream", "refresh", "agent", "designer"}
  /\ Effects!Init /\ Stream!Init /\ Refresh!Init /\ Agent!Init
  /\ Designer!Init /\ (part # "designer" => ~memory.recovering)
  /\ ~reserved

PartsNext ==
  \/ /\ part = "effects" /\ Effects!Next
     /\ UNCHANGED <<part, streamVars, refreshVars, agentVars, designerVars>>
  \/ /\ part = "stream" /\ Stream!Next
     /\ UNCHANGED <<part, effectVars, refreshVars, agentVars, designerVars>>
  \/ /\ part = "refresh" /\ Refresh!Next
     /\ UNCHANGED <<part, effectVars, streamVars, agentVars, designerVars>>
  \/ /\ part = "agent" /\ Agent!Next
     /\ UNCHANGED <<part, effectVars, streamVars, refreshVars, designerVars>>
  \/ /\ part = "designer" /\ Designer!Next
     /\ UNCHANGED <<part, effectVars, streamVars, refreshVars, agentVars>>

(* The fairness of each module, for the behaviours that follow it.         *)
EffectFairness ==
  LET Of(A) == part = "effects" /\ A IN
  /\ WF_effectVars(Of(\E c \in EffectCalls : Effects!Continue(c)))
  /\ \A c \in EffectCalls : WF_effectVars(Of(Effects!DeadlineTimer(c)))

StreamFairness ==
  LET Of(A) == part = "stream" /\ A IN
  /\ WF_streamVars(Of(Stream!Pump)) /\ WF_streamVars(Of(Stream!Take))
  /\ WF_streamVars(Of(Stream!Receive)) /\ WF_streamVars(Of(Stream!Reconnect))

RefreshFairness ==
  LET Of(A) == part = "refresh" /\ A IN
  \A r \in Refreshes :
    /\ WF_refreshVars(Of(Refresh!Deadline(r)))
    /\ WF_refreshVars(Of(Refresh!PresentationFails(r)))
    /\ WF_refreshVars(Of(Refresh!Accept(r)))

AgentFairness ==
  LET Of(A) == part = "agent" /\ A IN
  /\ WF_agentVars(Of(Agent!HelloTimeout))
  /\ \A r \in AgentRequests :
       /\ WF_agentVars(Of(Agent!Begin(r)))
       /\ WF_agentVars(Of(Agent!Timeout(r)))
       /\ WF_agentVars(Of(Agent!GraceOver(r)))

DesignerFairness ==
  LET Of(A) == part = "designer" /\ A IN
  /\ WF_designerVars(Of(Designer!Begin))
  /\ WF_designerVars(Of(Designer!Proceed))
  /\ \A q \in DesignerRequests :
       /\ WF_designerVars(
            Of(Designer!AgentAnswers(q) \/ Designer!AgentFails(q)))
       /\ WF_designerVars(Of(Designer!RecordFailure(q)))

PartsSpec ==
  /\ PartsInit /\ [][PartsNext]_AllVars
  /\ EffectFairness /\ StreamFairness /\ RefreshFairness
  /\ AgentFairness /\ DesignerFairness

-----------------------------------------------------------------------------
DeadlineAnswered == Effects!DeadlineAnswered
ToldReceived     == Stream!ToldReceived
RefreshesEnd     == Refresh!RefreshesEnd
RequestsSettle   == Agent!RequestsSettle
RequestsEnd      == Designer!RequestsEnd
=============================================================================
