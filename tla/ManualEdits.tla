----------------------------- MODULE ManualEdits -----------------------------
(***************************************************************************)
(* The direct edits a designer makes on the canvas.  The designer service  *)
(* mints a capability for one kind of edit of one element of the open      *)
(* revision; the renderer then calls with it, perhaps again after an       *)
(* answer it did not get or an edit that failed.  An edit is compiled and  *)
(* committed with a journal entry under its command identifier, by which a *)
(* repeated call is replayed and the edit undone and redone.               *)
(*                                                                         *)
(* Every operation runs alone in the service's queue (DesignerProject has  *)
(* the queue itself), so it is one action with the outcomes of its save:   *)
(* done, lost, or unsure, when it failed after the file was replaced.  A   *)
(* revision is its place in the history, and its content the edits in      *)
(* effect in it.  What a proposal does to the source text is left out.     *)
(***************************************************************************)
EXTENDS Integers, Sequences

CONSTANTS
  Capabilities,  \* the capabilities the service may mint
  Settings,      \* what an edit may set: a text, a value, a position
  KindsAsked,    \* bound: the kinds of edit each capability is asked for
  MaxRevisions,  \* bound: revisions in a history
  MaxMints,      \* bound: authorities minted
  Kept,          \* entries the journal keeps
  None

VARIABLES
  stored,   \* the project's record on disk
  memory,   \* the designer service's fields
  grant,    \* the capabilities held, by the kind and revision they are for
  spent,    \* the capabilities minted so far
  answer    \* the success the last operation answered with, or None

vars == <<stored, memory, grant, spent, answer>>

Kinds == {"text", "remove", "duplicate", "layout", "appearance", "position",
          "structure", "insert", "replace", "property"}
Lives == {"applied", "undone", "abandoned"}
Marks == [by : Capabilities \cup {None}, content : Settings \cup {None}]
Revisions == 1..MaxRevisions

\* `authority` is manualReactEditAuthority, by the number of its mint.
Records ==
  [history : Seq(Seq(Marks)), authority : 1..MaxMints \cup {None},
   journal : Seq([mark : Marks, base : Revisions, target : Revisions,
                  head : Revisions, life : Lives]),
   pending : BOOLEAN]

TypeOK ==
  /\ stored \in Records
  /\ memory \in Records
  /\ grant \in [Capabilities ->
                  [kind : Kinds, base : Revisions, mint : 1..MaxMints,
                   used : Settings \cup {None, TRUE}] \cup {None}]
  /\ spent \subseteq Capabilities
  /\ answer \in Marks \cup {None}

Source(record)  == Len(record.history)          \* source.revision.id
Content(record) == record.history[Source(record)]

Created == [history |-> <<<<>>>>, authority |-> 1, journal |-> <<>>,
            pending |-> FALSE]

Init ==
  /\ stored = Created /\ memory = Created
  /\ grant = [c \in Capabilities |-> None]
  /\ spent = {}
  /\ answer = None

-----------------------------------------------------------------------------
(* Saves.                                                                  *)

\* A record is only accepted over the history it was made from.
Current == stored.history = memory.history

Done(next)   == Current /\ stored' = next /\ memory' = next
Unsure(next) == Current /\ stored' = next /\ UNCHANGED memory
Lost         == UNCHANGED <<stored, memory>>

\* An operation that changes the record and has no answer to keep.
Save(next) == (Done(next) \/ Unsure(next) \/ Lost) /\ answer' = None

Last(s, n) == IF Len(s) <= n THEN s ELSE SubSeq(s, Len(s) - n + 1, Len(s))

-----------------------------------------------------------------------------
(* One edit: evaluateManualProposal, evaluateDetailed and the commit port. *)

Mark(c, content) == [by |-> c, content |-> content]

\* The port's replay: this command with this content is in the journal, in
\* effect.
Replayable(c, content) ==
  \E i \in DOMAIN memory.journal :
    LET entry == memory.journal[i] IN
    /\ entry.mark = Mark(c, content)
    /\ entry.life = "applied"
    /\ entry.base = grant[c].base

\* A slip: what the proposal was made from is not compared.
AnyBase(g) == TRUE

\* The proposal's base is the revision the authority commits to.
FromCurrentBase(g) == g.base = Source(memory) /\ g.mint = memory.authority

\* A new edit abandons what was undone before it.
NoLongerRedoable(entry) ==
  IF entry.life = "undone" THEN [entry EXCEPT !.life = "abandoned"] ELSE entry

\* What an edit commits: a child revision, and its journal entry.
Edited(c, content) ==
  LET next == Source(memory) + 1
      kept == [i \in DOMAIN memory.journal |->
                 NoLongerRedoable(memory.journal[i])]
  IN  [memory EXCEPT
         !.history = Append(@, Append(Content(memory), Mark(c, content))),
         !.journal =
            Last(Append(kept, [mark |-> Mark(c, content),
                               base |-> Source(memory), target |-> next,
                               head |-> next, life |-> "applied"]), Kept)]

Rejected == Lost /\ answer' = None

\* What a consumed capability remembers: the content, where it carries one.
UsedFor(content) == IF content = None THEN TRUE ELSE content

Consumed(c, content) == grant' = [grant EXCEPT ![c].used = UsedFor(content)]
Reached(c, content)  == answer' = Mark(c, content)

\* The design is edited, or the edit found in the journal.
Succeeds(c, content) ==
  /\ ~memory.pending /\ memory.authority # None
  /\ Reached(c, content)
  /\ \/ Replayable(c, content) /\ Lost
     \/ /\ ~Replayable(c, content) /\ FromCurrentBase(grant[c])
        /\ Source(memory) < MaxRevisions
        /\ Done(Edited(c, content))

\* A proposal waits for review, the authority or the base is gone, the
\* candidate does not compile, or its save fails.
Fails(c, content) ==
  /\ answer' = None
  /\ \/ Lost
     \/ /\ ~memory.pending /\ memory.authority # None
        /\ ~Replayable(c, content) /\ FromCurrentBase(grant[c])
        /\ Source(memory) < MaxRevisions
        /\ Unsure(Edited(c, content))

\* The capability is consumed before the edit is evaluated ...
UseThenEdit(c, content) ==
  Consumed(c, content) /\ (Succeeds(c, content) \/ Fails(c, content))

\* ... or once it has succeeded.
EditThenUse(c, content) ==
  \/ Succeeds(c, content) /\ Consumed(c, content)
  \/ Fails(c, content) /\ UNCHANGED grant

-----------------------------------------------------------------------------
(* The ten pairs of operations.                                            *)

\* manualMappedEditContext: only the revision the authority is for is mapped.
Mint(c, kind) ==
  /\ kind \in KindsAsked[c]
  /\ c \notin spent /\ memory.authority # None
  /\ grant' = [grant EXCEPT ![c] =
                 [kind |-> kind, base |-> Source(memory),
                  mint |-> memory.authority, used |-> None]]
  /\ spent' = spent \cup {c}
  /\ answer' = None
  /\ UNCHANGED <<stored, memory>>

Holds(c, kind) == grant[c] # None /\ grant[c].kind = kind

Unused(c) == grant[c].used = None /\ grant[c].base = Source(memory)

\* A used capability may be called again, but only for what it was used for.
UnusedOrSame(c, content) == Unused(c) \/ grant[c].used = content

\* The edits whose capability is consumed before they are evaluated.
UsedFirst == {"text", "remove", "duplicate", "layout", "structure"}

Evaluate(c, kind, content) ==
  IF kind \in UsedFirst THEN UseThenEdit(c, content)
  ELSE EditThenUse(c, content)

\* One call for an edit that carries a content, and for one that does not.
Call(c, kind) ==
  /\ Holds(c, kind)
  /\ \E content \in Settings :
       IF UnusedOrSame(c, content) THEN Evaluate(c, kind, content)
       ELSE Rejected /\ UNCHANGED grant
  /\ UNCHANGED spent

CallOnce(c, kind) ==
  /\ Holds(c, kind)
  /\ IF Unused(c) THEN Evaluate(c, kind, None)
     ELSE Rejected /\ UNCHANGED grant
  /\ UNCHANGED spent

TextEdit(c)         == Mint(c, "text") \/ Call(c, "text")
ElementRemove(c)    == Mint(c, "remove") \/ CallOnce(c, "remove")
ElementDuplicate(c) == Mint(c, "duplicate") \/ CallOnce(c, "duplicate")
LayoutEdit(c)       == Mint(c, "layout") \/ Call(c, "layout")
AppearanceEdit(c)   == Mint(c, "appearance") \/ Call(c, "appearance")
PositionEdit(c)     == Mint(c, "position") \/ Call(c, "position")
StructureEdit(c)    == Mint(c, "structure") \/ CallOnce(c, "structure")
ComponentInsert(c)  == Mint(c, "insert") \/ CallOnce(c, "insert")
ComponentReplace(c) == Mint(c, "replace") \/ CallOnce(c, "replace")
PropertyEdit(c)     == Mint(c, "property") \/ Call(c, "property")

\* Five minutes have passed: the next operation of its kind forgets it.
Expire(c) ==
  /\ grant[c] # None
  /\ grant' = [grant EXCEPT ![c] = None]
  /\ answer' = None
  /\ UNCHANGED <<stored, memory, spent>>

-----------------------------------------------------------------------------
(* Undo and redo: restoreManualDesignHistory.                              *)

Having(life) ==
  {i \in DOMAIN memory.journal : memory.journal[i].life = life}

\* The last applied entry is undone first, the first undone entry redone.
Turn(from) ==
  IF from = "applied"
  THEN {i \in Having(from) : \A j \in Having(from) : j <= i}
  ELSE {i \in Having(from) : \A j \in Having(from) : i <= j}

\* manualReactEditHistoryHead
HeadIsCurrent ==
  \E i \in DOMAIN memory.journal : memory.journal[i].head = Source(memory)

\* A compensating revision with the content before, or after, the edit.
Restore(from, to) ==
  /\ ~memory.pending /\ memory.authority # None /\ HeadIsCurrent
  /\ Source(memory) < MaxRevisions
  /\ \E i \in Turn(from) :
       LET entry    == memory.journal[i]
           expected == IF to = "undone" THEN entry.target ELSE entry.base
           restored == IF to = "undone" THEN entry.base ELSE entry.target
       IN
       /\ memory.history[expected] = Content(memory)
       /\ Save([memory EXCEPT
                  !.history = Append(@, memory.history[restored]),
                  !.journal[i].life = to,
                  !.journal[i].head = Source(memory) + 1])
  /\ UNCHANGED <<grant, spent>>

Undo == Restore("applied", "undone")
Redo == Restore("undone", "applied")

-----------------------------------------------------------------------------
(* What else changes the source or its authority.                          *)

\* An agent's proposal is staged, rejected, or accepted: accepting it ends
\* the authority and archives its journal.
Stage ==
  /\ ~memory.pending
  /\ Save([memory EXCEPT !.pending = TRUE])
  /\ UNCHANGED <<grant, spent>>

Reject ==
  /\ memory.pending
  /\ Save([memory EXCEPT !.pending = FALSE])
  /\ UNCHANGED <<grant, spent>>

Revoked(record) == [record EXCEPT !.authority = None, !.journal = <<>>]

Accept ==
  /\ memory.pending /\ Source(memory) < MaxRevisions
  /\ Save([Revoked(memory) EXCEPT
             !.history = Append(@, Append(Content(memory), Mark(None, None))),
             !.pending = FALSE])
  /\ UNCHANGED <<grant, spent>>

\* undoLastAppliedAIChange: what was accepted last is taken back by a
\* compensating revision.
UndoAIChange ==
  /\ ~memory.pending /\ Source(memory) \in 2..(MaxRevisions - 1)
  /\ LET before == memory.history[Source(memory) - 1] IN
     /\ Content(memory) = Append(before, Mark(None, None))
     /\ Save([Revoked(memory) EXCEPT !.history = Append(@, before)])
  /\ UNCHANGED <<grant, spent>>

\* The design system or the flow graph is changed.
Revoke ==
  /\ ~memory.pending /\ memory.authority # None
  /\ Save(Revoked(memory))
  /\ UNCHANGED <<grant, spent>>

\* activateReactBindingReceipt: a build of the open source mints an authority,
\* with an empty journal, unless the one it has is for the same evidence.
Activate ==
  /\ \E m \in 1..MaxMints :
       /\ memory.authority # None => memory.authority < m
       /\ \A c \in Capabilities : grant[c] # None => grant[c].mint < m
       /\ stored.authority # None => stored.authority < m
       /\ Save([Revoked(memory) EXCEPT !.authority = m])
  /\ UNCHANGED <<grant, spent>>

\* openProjectWorkspace, for the same project: it forgets the capabilities,
\* but for those of structure edits, and reads the record.
Reopen ==
  /\ memory' = stored
  /\ grant' = [c \in Capabilities |->
                 IF Holds(c, "structure") THEN grant[c] ELSE None]
  /\ answer' = None
  /\ UNCHANGED <<stored, spent>>

\* The process dies and the project is opened again.
Crash ==
  /\ memory' = stored
  /\ grant' = [c \in Capabilities |-> None]
  /\ answer' = None
  /\ UNCHANGED <<stored, spent>>

Next ==
  \/ \E c \in Capabilities :
       \/ TextEdit(c) \/ ElementRemove(c) \/ ElementDuplicate(c)
       \/ LayoutEdit(c) \/ AppearanceEdit(c) \/ PositionEdit(c)
       \/ StructureEdit(c) \/ ComponentInsert(c) \/ ComponentReplace(c)
       \/ PropertyEdit(c) \/ Expire(c)
  \/ Undo \/ Redo \/ Stage \/ Reject \/ Accept \/ UndoAIChange
  \/ Revoke \/ Activate \/ Reopen \/ Crash

Spec == Init /\ [][Next]_vars

-----------------------------------------------------------------------------
(* What the edits promise.                                                 *)

\* The edits a journal has as applied are the last of a content, in its
\* order.
AppliedLast(journal, edits) ==
  LET applied == {i \in DOMAIN journal : journal[i].life = "applied"} IN
  \E place \in [applied -> DOMAIN edits] :
    \A i \in applied :
      /\ edits[place[i]] = journal[i].mark
      /\ \A j \in applied : i < j => place[i] < place[j]
      /\ \A k \in DOMAIN edits :
           place[i] < k => \E j \in applied : place[j] = k

(***************************************************************************)
(* A capability changes the design at most once, however often it is       *)
(* called and whatever failed: no content ever holds two of its edits      *)
(* (evaluateDetailed, the consumed flags).  A call is answered with        *)
(* success, or as a replay, only while its edit is in effect with the      *)
(* content that was asked.  And after every edit, undo and redo the open   *)
(* source ends with the edits the journal has as applied, in its order     *)
(* (createManualEditPersistencePort, restoreManualDesignHistory).          *)
(***************************************************************************)
EditsTakeEffectOnce ==
  /\ \A r \in DOMAIN memory.history :
       LET edits == memory.history[r] IN
       \A i, j \in DOMAIN edits :
         edits[i].by = edits[j].by /\ edits[i].by # None => i = j
  /\ answer # None =>
       \E i \in DOMAIN Content(memory) : Content(memory)[i] = answer
  /\ AppliedLast(memory.journal, Content(memory))
=============================================================================
