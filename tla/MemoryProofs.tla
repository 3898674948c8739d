---------------------------- MODULE MemoryProofs ----------------------------
(***************************************************************************)
(* Proofs about the in-memory repository's design revisions, for any       *)
(* projects, revisions, snapshots and overlapping calls: the inductive     *)
(* invariant MemoryInv, what it says of semantic changes, and that the     *)
(* repository implements RevisionHistory for callers who await their       *)
(* calls.                                                                  *)
(***************************************************************************)
EXTENDS MemoryRevisions, DesignReviewProofs

(* Sequence numbers stay within the callers'.                              *)
Bounded == \A r \in Revisions : revisions[r].sequence <= MaxSequence

(* The index of semantic changes covers the review states, which share     *)
(* none.                                                                   *)
Indexed ==
  /\ \A p \in Projects : /\ ChangeIds(review[p]) \subseteq semanticChanges
                         /\ ListedOnce(review[p])
  /\ \A p, q \in Projects :
       p # q => ChangeIds(review[p]) \cap ChangeIds(review[q]) = {}

Waits(c) == call[c].state = "waiting"
Allowed == \A c \in Calls : Waits(c) => call[c].cmd \in CallCommands

(* What a call has read and checked is still so.                           *)
ReadHolds(k, ps, revs, resps) ==
  /\ k.before = Latest(revs, k.cmd.project)
  /\ k.beforeSequence = SequenceOf(revs, k.before)
  /\ k.cmd.key # None => resps[k.cmd.key] = NoResponse
  /\ k.cmd.project \in ps
  /\ IF k.cmd.kind = Raw THEN revs[k.cmd.revision] = Absent
     ELSE TargetFits(revs, k.cmd)

(* Callers who await their calls have one on the way at most.              *)
Awaiting ==
  awaited =>
    /\ \A c, d \in Calls : Waits(c) /\ Waits(d) => c = d
    /\ \A c \in Calls :
         Waits(c) => ReadHolds(call[c], projects, revisions, responses)

MemoryInv == TypeOK /\ Bounded /\ Indexed /\ Allowed /\ Awaiting

-----------------------------------------------------------------------------
(* Commands.                                                               *)

LEMMA CommandFields ==
  ASSUME NEW cmd \in CallCommands, cmd.kind # Raw
  PROVE  cmd \in Commands /\ WellFormed(cmd)
         /\ (cmd.revision # None => cmd.target \in {None, cmd.revision})
BY RawFields DEF CallCommands

LEMMA CallFields ==
  ASSUME NEW cmd \in CallCommands
  PROVE  /\ cmd \in Commands \cup RawCommands
         /\ cmd.project \in Projects /\ cmd.key \in Keys \cup {None}
         /\ cmd.revision \in Revisions \cup {None}
         /\ cmd.sequence \in 0..MaxSequence
         /\ cmd.kind = Raw => cmd \in RawCommands
<1>1. CASE cmd \in RawCommands
  BY <1>1, RawFields, SequenceAssumption
<1>2. CASE cmd \notin RawCommands
  BY <1>2 DEF CallCommands, Commands, Kinds, Raw
<1> QED BY <1>1, <1>2

(* The index keeps up when one project's review state is exchanged.        *)
LEMMA IndexKeeps ==
  ASSUME Indexed, review \in [Projects -> ReviewStates], NEW p \in Projects,
         NEW next, ListedOnce(next),
         review' = [review EXCEPT ![p] = next],
         ChangeIds(next) \subseteq semanticChanges',
         \A q \in Projects \ {p} :
           /\ ChangeIds(review[q]) \cap ChangeIds(next) = {}
           /\ ChangeIds(review[q]) \subseteq semanticChanges'
  PROVE  Indexed'
<1>1. review'[p] = next /\ \A q \in Projects \ {p} : review'[q] = review[q]
  OBVIOUS
<1>2. \A q \in Projects : /\ ChangeIds(review'[q]) \subseteq semanticChanges'
                          /\ ListedOnce(review'[q])
  BY <1>1 DEF Indexed
<1>3. ASSUME NEW q \in Projects, NEW o \in Projects, q # o
      PROVE  ChangeIds(review'[q]) \cap ChangeIds(review'[o]) = {}
  BY <1>1, <1>3 DEF Indexed
<1> QED BY <1>2, <1>3 DEF Indexed

-----------------------------------------------------------------------------
(* The calls.                                                              *)

LEMMA CallsKeep ==
  ASSUME MemoryInv, MayRun, UNCHANGED <<call, awaited>>
  PROVE  Allowed' /\ Awaiting'
<1>1. Allowed'
  BY DEF MemoryInv, Allowed, Waits
<1>2. awaited => \A c \in Calls : ~Waits(c)
  BY DEF MayRun, Waits
<1> QED BY <1>1, <1>2 DEF Awaiting, Waits

LEMMA EndKeeps ==
  ASSUME MemoryInv, NEW c \in Calls,
         NEW s \in {"refused", "committed", "replayed"}, Ended(c, s),
         Waits(c) \/ MayRun
  PROVE  /\ call' \in [Calls -> CallStates] /\ awaited' \in BOOLEAN
         /\ Allowed' /\ Awaiting'
<1>1. Progress(s) \in CallStates /\ Progress(s).state = s
  BY DEF Progress, CallStates
<1>2. call' = [call EXCEPT ![c] = Progress(s)] /\ awaited' = awaited
  BY DEF Ended
<1>3. call \in [Calls -> CallStates]
  BY DEF MemoryInv, TypeOK
<1>4. /\ call'[c] = Progress(s)
      /\ \A d \in Calls \ {c} : call'[d] = call[d]
  BY <1>2, <1>3
<1>5. ~Waits(c)' /\ \A d \in Calls : Waits(d)' => d # c /\ Waits(d)
  BY <1>1, <1>4 DEF Waits
<1>6. Allowed'
  BY <1>4, <1>5 DEF MemoryInv, Allowed
<1>7. awaited => \A d \in Calls : ~Waits(d)'
  BY <1>5 DEF MemoryInv, Awaiting, MayRun, Waits
<1>8. Awaiting'
  BY <1>2, <1>7 DEF Awaiting
<1> QED BY <1>1, <1>2, <1>3, <1>6, <1>8 DEF MemoryInv, TypeOK

-----------------------------------------------------------------------------
(* The actions.                                                            *)
LEMMA CreateKeeps ==
  ASSUME MemoryInv, NEW p \in Projects, CreateProject(p)
  PROVE  MemoryInv'
<1>1. TypeOK' /\ Bounded' /\ Indexed'
  BY DEF MemoryInv, TypeOK, Bounded, Indexed, CreateProject
<1> QED BY <1>1, CallsKeep DEF MemoryInv, CreateProject

LEMMA ReplaceKeeps ==
  ASSUME MemoryInv, NEW p \in Projects, NEW s \in Snapshots,
         ReplaceProject(p, s)
  PROVE  MemoryInv'
<1> DEFINE others == semanticChanges \ ChangeIds(review[p])
<1> USE DEF MemoryInv
<1>1. /\ Replaced(revisions, p, s) \in [Revisions -> Stored]
      /\ \A r \in Revisions :
           Replaced(revisions, p, s)[r].sequence <= MaxSequence
      /\ s.review \in ReviewStates
  BY ReplacedTyped DEF TypeOK, Bounded
<1>2. ChangeIds(s.review) \subseteq Changes
  BY <1>1, IdsAreChanges
<1>3. TypeOK' /\ Bounded'
  BY <1>1, <1>2 DEF TypeOK, Bounded, ReplaceProject
<1>4. /\ review' = [review EXCEPT ![p] = s.review]
      /\ semanticChanges' = others \cup ChangeIds(s.review)
      /\ others \cap ChangeIds(s.review) = {} /\ ListedOnce(s.review)
  BY DEF ReplaceProject
<1>5. \A q \in Projects \ {p} : ChangeIds(review[q]) \subseteq others
  BY DEF Indexed
<1> HIDE DEF others
<1>6. Indexed'
  BY <1>4, <1>5, IndexKeeps DEF TypeOK
<1> QED BY <1>3, <1>6, CallsKeep DEF ReplaceProject

LEMMA DeleteKeeps ==
  ASSUME MemoryInv, NEW p \in Projects, DeleteProject(p)
  PROVE  MemoryInv'
<1> DEFINE others == semanticChanges \ ChangeIds(review[p])
<1> USE DEF MemoryInv
<1>1. ASSUME NEW revs \in [Revisions -> Stored],
             \A r \in Revisions : revs[r].sequence <= MaxSequence
      PROVE  /\ Cleared(revs, p) \in [Revisions -> Stored]
             /\ \A r \in Revisions :
                  Cleared(revs, p)[r].sequence <= MaxSequence
  BY <1>1, SequenceAssumption DEF Cleared, Absent, Stored
<1>2. TypeOK' /\ Bounded'
  BY <1>1, DraftListsNothing DEF TypeOK, Bounded, DeleteProject
<1>3. /\ review' = [review EXCEPT ![p] = Draft]
      /\ semanticChanges' = others
  BY DEF DeleteProject
<1>4. \A q \in Projects \ {p} : ChangeIds(review[q]) \subseteq others
  BY DEF Indexed
<1> HIDE DEF others
<1>5. Indexed'
  BY <1>3, <1>4, IndexKeeps, DraftListsNothing DEF TypeOK
<1> QED BY <1>2, <1>5, CallsKeep DEF DeleteProject

LEMMA BeginKeeps ==
  ASSUME MemoryInv, NEW c \in Calls, NEW cmd \in CallCommands,
         CallBegins(c, cmd)
  PROVE  MemoryInv'
<1> USE DEF MemoryInv
<1>1. MayRun /\ UNCHANGED store
  BY DEF CallBegins
<1>2. /\ projects' = projects /\ revisions' = revisions /\ review' = review
      /\ semanticChanges' = semanticChanges /\ responses' = responses
      /\ Bounded' /\ Indexed'
  BY <1>1 DEF store, Bounded, Indexed
<1>3. CASE \E s \in {"refused", "committed", "replayed"} : Ended(c, s)
  <2>1. /\ call' \in [Calls -> CallStates] /\ awaited' \in BOOLEAN
        /\ Allowed' /\ Awaiting'
    BY <1>1, <1>3, EndKeeps
  <2> QED BY <1>2, <2>1 DEF TypeOK
<1>4. CASE ~Replays(cmd) /\ Begins(cmd) /\ Awaits(c, cmd)
  <2> DEFINE before == Latest(revisions, cmd.project)
             k == [state |-> "waiting", cmd |-> cmd, before |-> before,
                   beforeSequence |-> SequenceOf(revisions, before)]
  <2>1. /\ before \in Revisions \cup {None}
        /\ SequenceOf(revisions, before) \in Nat
    BY LatestIsStored DEF TypeOK, Bounded
  <2>2. k \in CallStates
    BY <2>1, CallFields DEF CallStates
  <2>3. ReadHolds(k, projects, revisions, responses)
    BY <1>4 DEF ReadHolds, Begins, Replays
  <2>4. call' = [call EXCEPT ![c] = k] /\ awaited' = awaited
    BY <1>4 DEF Awaits
  <2>5. k.state = "waiting" /\ k.cmd = cmd
    OBVIOUS
  <2> HIDE DEF k, before
  <2>6. call'[c] = k /\ \A d \in Calls \ {c} : call'[d] = call[d]
    BY <2>4 DEF TypeOK
  <2>7. TypeOK'
    BY <1>2, <2>2, <2>4 DEF TypeOK
  <2>8. Allowed'
    BY <2>5, <2>6 DEF Allowed, Waits
  <2>9. awaited => \A d \in Calls \ {c} : ~Waits(d)'
    BY <1>1, <2>6 DEF MayRun, Waits
  <2>10. Awaiting'
    BY <1>2, <2>3, <2>4, <2>6, <2>9 DEF Awaiting
  <2> QED BY <1>2, <2>7, <2>8, <2>10
<1> QED BY <1>3, <1>4 DEF CallBegins

(* A call stores its revision and ends.                                    *)
LEMMA AppendKeeps ==
  ASSUME MemoryInv, NEW c \in Calls, Waits(c),
         revisions' = WithRevision(revisions, call[c].cmd),
         NEW s \in {"refused", "committed"}, Ended(c, s),
         UNCHANGED <<projects, review, semanticChanges, responses>>
  PROVE  MemoryInv'
<1> USE DEF MemoryInv
<1>1. call[c].cmd \in CallCommands
  BY DEF Allowed
<1>2. revisions' \in [Revisions -> Stored] /\ Bounded'
  BY <1>1, CallFields, StoredTyped DEF TypeOK, Bounded
<1>3. Indexed'
  BY DEF Indexed
<1>4. /\ call' \in [Calls -> CallStates] /\ awaited' \in BOOLEAN
      /\ Allowed' /\ Awaiting'
  BY EndKeeps
<1> QED BY <1>2, <1>3, <1>4 DEF TypeOK

(* A call ends without effect.                                             *)
LEMMA RefusalKeeps ==
  ASSUME MemoryInv, NEW c \in Calls, Waits(c), Ended(c, "refused"),
         UNCHANGED store
  PROVE  MemoryInv'
<1> USE DEF MemoryInv
<1>1. /\ projects' = projects /\ revisions' = revisions /\ review' = review
      /\ semanticChanges' = semanticChanges /\ responses' = responses
      /\ Bounded' /\ Indexed'
  BY DEF store, Bounded, Indexed
<1>2. /\ call' \in [Calls -> CallStates] /\ awaited' \in BOOLEAN
      /\ Allowed' /\ Awaiting'
  BY EndKeeps
<1> QED BY <1>1, <1>2 DEF TypeOK

LEMMA CommitKeeps ==
  ASSUME MemoryInv, NEW c \in Calls, CommitEnds(c)
  PROVE  MemoryInv'
<1> USE DEF MemoryInv
<1> DEFINE cmd == call[c].cmd
           p == cmd.project
           before == call[c].before
           next == Reviewed(review[p], cmd, before)
<1>1. Waits(c) /\ cmd.kind # Raw /\ Accepted(c)
  BY DEF CommitEnds, Waits
<1>2. /\ revisions' = WithRevision(revisions, cmd)
      /\ review' = [review EXCEPT ![p] = next]
      /\ semanticChanges' =
           semanticChanges \cup (ChangeIds(review'[p]) \ ChangeIds(review[p]))
      /\ responses' = Answered(responses, review[p], cmd)
      /\ Ended(c, "committed") /\ projects' = projects
  BY DEF CommitEnds
<1>3. cmd \in CallCommands /\ cmd \in Commands /\ WellFormed(cmd)
      /\ p \in Projects
  BY <1>1, CommandFields, CallFields DEF Allowed
<1>4. before \in Revisions \cup {None} /\ review[p] \in ReviewStates
  BY <1>3 DEF TypeOK, CallStates
<1>5. cmd.change \notin semanticChanges
  BY <1>1 DEF Accepted
<1>6. revisions' \in [Revisions -> Stored] /\ Bounded'
  BY <1>2, <1>3, CallFields, StoredTyped DEF TypeOK, Bounded
<1>7. next \in ReviewStates
  BY <1>3, <1>4, ReviewedTyped
<1>8. responses' \in [Keys -> Responses]
  BY <1>2, <1>3, <1>4, AnsweredTyped DEF TypeOK
<1>9. /\ ChangeIds(next) \subseteq ChangeIds(review[p]) \cup {cmd.change}
      /\ ListedOnce(next)
  BY <1>3, <1>4, <1>5, ReviewedLists DEF Indexed
<1>10. ChangeIds(next) \subseteq Changes
  BY <1>7, IdsAreChanges
<1>11. /\ call' \in [Calls -> CallStates] /\ awaited' \in BOOLEAN
       /\ Allowed' /\ Awaiting'
  BY <1>1, <1>2, EndKeeps
<1> HIDE DEF next, p, cmd, before
<1>12. review' \in [Projects -> ReviewStates] /\ review'[p] = next
  BY <1>2, <1>3, <1>7 DEF TypeOK
<1>13. semanticChanges' \subseteq Changes
  BY <1>2, <1>10, <1>12 DEF TypeOK
<1>14. TypeOK'
  BY <1>2, <1>6, <1>8, <1>11, <1>12, <1>13 DEF TypeOK
<1>15. /\ ChangeIds(next) \subseteq semanticChanges'
       /\ \A q \in Projects \ {p} :
            /\ ChangeIds(review[q]) \cap ChangeIds(next) = {}
            /\ ChangeIds(review[q]) \subseteq semanticChanges'
  BY <1>2, <1>3, <1>5, <1>9, <1>12 DEF Indexed
<1>16. Indexed'
  BY <1>2, <1>3, <1>9, <1>15, IndexKeeps DEF TypeOK
<1> QED BY <1>6, <1>11, <1>14, <1>16

LEMMA MemoryStep ==
  ASSUME MemoryInv, [Next]_vars
  PROVE  MemoryInv'
<1>1. CASE UNCHANGED vars
  BY <1>1 DEF vars, store, MemoryInv, TypeOK, Bounded, Indexed, Allowed,
              Awaiting, Waits
<1>2. ASSUME NEW c \in Calls, AppendEnds(c)
      PROVE  MemoryInv'
  <2>1. Waits(c)
    BY <1>2 DEF AppendEnds, Waits
  <2>2. CASE UNCHANGED revisions
    BY <1>2, <2>1, <2>2, RefusalKeeps, AppendKeeps DEF AppendEnds, store
  <2>3. CASE revisions' = WithRevision(revisions, call[c].cmd)
    BY <1>2, <2>1, <2>3, AppendKeeps DEF AppendEnds
  <2> QED BY <1>2, <2>2, <2>3 DEF AppendEnds
<1>3. ASSUME NEW c \in Calls, CommitRefused(c)
      PROVE  MemoryInv'
  BY <1>3, RefusalKeeps DEF CommitRefused, Waits
<1>4. ASSUME NEW c \in Calls, CommitRefusedLate(c)
      PROVE  MemoryInv'
  BY <1>4, AppendKeeps DEF CommitRefusedLate, Waits
<1> QED
  BY <1>1, <1>2, <1>3, <1>4, CreateKeeps, ReplaceKeeps, DeleteKeeps,
     BeginKeeps, CommitKeeps DEF Next

LEMMA MemoryStart == Init => MemoryInv
<1> SUFFICES ASSUME Init PROVE MemoryInv
  OBVIOUS
<1>1. Absent \in Stored /\ Absent.sequence <= MaxSequence
  BY SequenceAssumption DEF Absent, Stored
<1>2. Progress("idle") \in CallStates /\ Progress("idle").state = "idle"
  BY DEF Progress, CallStates
<1>3. NoResponse \in Responses
  BY DEF NoResponse, Responses
<1>4. TypeOK
  BY <1>1, <1>2, <1>3, DraftListsNothing DEF Init, TypeOK
<1>5. Bounded
  BY <1>1 DEF Init, Bounded
<1>6. Indexed
  BY DraftListsNothing DEF Init, Indexed
<1>7. \A c \in Calls : ~Waits(c)
  BY <1>2 DEF Init, Waits
<1> QED BY <1>4, <1>5, <1>6, <1>7 DEF MemoryInv, Allowed, Awaiting

(* The repository's records are well-formed: no command stores a change    *)
(* without the revision it starts from.                                    *)
THEOREM TypeCorrect == Spec => []TypeOK
<1>1. MemoryInv => TypeOK
  BY DEF MemoryInv
<1> QED BY <1>1, MemoryStart, MemoryStep, PTL DEF Spec

(* A semantic change identifier stands for one change, however calls       *)
(* overlap at commitDesignRevision's await and whatever is replaced or     *)
(* deleted in between.                                                     *)
THEOREM EachChangeIsRecordedOnce == Spec => []ChangesRecordedOnce
<1>1. MemoryInv => ChangesRecordedOnce
  BY EachListedOnce DEF MemoryInv, TypeOK, Indexed, ChangesRecordedOnce
<1> QED BY <1>1, MemoryStart, MemoryStep, PTL DEF Spec

-----------------------------------------------------------------------------
(* The atomic repository.                                                  *)

LEMMA HistoryReads ==
  ASSUME NEW revs, NEW p
  PROVE  /\ History!Latest(revs, p) = Latest(revs, p)
         /\ \A r : History!SequenceOf(revs, r) = SequenceOf(revs, r)
BY DEF History!Latest, Latest, History!SequenceOf, SequenceOf,
       History!OfProject, OfProject, History!None, None

LEMMA HistoryDoes ==
  ASSUME NEW revs, NEW rvs, NEW state, NEW cmd, NEW before, NEW resps, NEW p,
         NEW s
  PROVE  /\ History!WithRevision(revs, cmd) = WithRevision(revs, cmd)
         /\ History!Reviewed(state, cmd, before) = Reviewed(state, cmd, before)
         /\ History!Answered(resps, state, cmd) = Answered(resps, state, cmd)
         /\ History!MetadataFits(state, cmd) <=> MetadataFits(state, cmd)
         /\ History!TargetFits(revs, cmd) <=> TargetFits(revs, cmd)
         /\ History!ChangeIds(state) = ChangeIds(state)
         /\ History!Cleared(revs, p) = Cleared(revs, p)
         /\ History!Replaced(revs, p, s) = Replaced(revs, p, s)
         /\ History!MayReplace(revs, rvs, p, s) <=> MayReplace(revs, rvs, p, s)
         /\ History!Draft = Draft /\ History!Absent = Absent
         /\ History!NoResponse = NoResponse
         /\ History!None = None
<1>1. History!WithRevision(revs, cmd) = WithRevision(revs, cmd)
  BY DEF History!WithRevision, WithRevision, History!None, None
<1>2. History!Reviewed(state, cmd, before) = Reviewed(state, cmd, before)
  BY DEF History!Reviewed, Reviewed, History!HadBaseline, HadBaseline,
         History!Ready, Ready, History!WithChange, WithChange,
         History!None, None
<1>3. History!Answered(resps, state, cmd) = Answered(resps, state, cmd)
  BY DEF History!Answered, Answered, History!Response, Response,
         History!HadBaseline, HadBaseline, History!None, None
<1>4. /\ History!MetadataFits(state, cmd) <=> MetadataFits(state, cmd)
      /\ History!TargetFits(revs, cmd) <=> TargetFits(revs, cmd)
  BY DEF History!MetadataFits, MetadataFits, History!HadBaseline,
         HadBaseline, History!TargetFits, TargetFits, History!None, None
<1>5. /\ History!ChangeIds(state) = ChangeIds(state)
      /\ History!MayReplace(revs, rvs, p, s) <=> MayReplace(revs, rvs, p, s)
  BY DEF History!ChangeIds, ChangeIds, History!MayReplace, MayReplace,
         History!ListedOnce, ListedOnce, History!None, None
<1>6. /\ History!Cleared(revs, p) = Cleared(revs, p)
      /\ History!Replaced(revs, p, s) = Replaced(revs, p, s)
      /\ History!Draft = Draft /\ History!Absent = Absent
      /\ History!NoResponse = NoResponse
  BY DEF History!Cleared, Cleared, History!Replaced, Replaced,
         History!Restored, Restored, History!Draft, Draft, History!Absent,
         Absent, History!NoResponse, NoResponse, History!None, None
<1> QED BY <1>1, <1>2, <1>3, <1>4, <1>5, <1>6 DEF History!None, None

LEMMA HistoryCommits ==
  ASSUME NEW cmd \in CallCommands, cmd.kind # Raw,
         LET before == Latest(revisions, cmd.project) IN
         IsNext(cmd, before, SequenceOf(revisions, before)),
         History!Commit(cmd)
  PROVE  History!Next
<1> DEFINE p == cmd.project
<1>0. cmd \in Commands /\ WellFormed(cmd)
  BY CommandFields
<1>1. p \in Projects /\ cmd.key \in Keys \cup {None}
  BY CallFields
<1>2. cmd.change \in Changes \cup {None}
  BY CommandFields DEF Commands
<1>3. CASE cmd.kind = "append-revision"
  <2>1. /\ cmd.revision \in Revisions
        /\ cmd = History!Command(p, cmd.revision, cmd.change, None, None,
                                 cmd.key)
    BY <1>3, <1>0, CommandIsNext, NamesAssumption, HistoryReads
       DEF History!Command, History!None, None
  <2>2. History!AppendDesign(p, cmd.revision, cmd.change, cmd.key)
    BY <2>1 DEF History!AppendDesign, History!None, None
  <2> QED BY <1>1, <1>2, <2>1, <2>2 DEF History!Next, History!None, None
<1>4. CASE cmd.kind = "mark-ready"
  <2>1. /\ cmd.baseline \in Baselines /\ cmd.target \in Revisions
        /\ cmd = History!Command(p, None, None, cmd.baseline, cmd.target,
                                 cmd.key)
    BY <1>4, <1>0, CommandIsNext, NamesAssumption
       DEF History!Command, History!None, None
  <2>2. History!MarkReady(p, cmd.baseline, cmd.target, cmd.key)
    BY <2>1 DEF History!MarkReady, History!None, None
  <2> QED BY <1>1, <2>1, <2>2 DEF History!Next, History!None, None
<1>5. CASE cmd.kind = "append-revision-and-mark-ready"
  <2>1. /\ cmd.revision \in Revisions
        /\ cmd.baseline \in Baselines /\ cmd.target \in Revisions
        /\ cmd = History!Command(p, cmd.revision, None, cmd.baseline,
                                 cmd.target, cmd.key)
    BY <1>5, <1>0, CommandIsNext, NamesAssumption, HistoryReads
       DEF History!Command, History!None, None
  <2>2. History!AppendAndMarkReady(p, cmd.revision, cmd.baseline, cmd.target,
                                   cmd.key)
    BY <2>1 DEF History!AppendAndMarkReady, History!None, None
  <2> QED BY <1>1, <2>1, <2>2 DEF History!Next, History!None, None
<1> QED BY <1>3, <1>4, <1>5, CommandFields DEF Commands, Kinds

LEMMA HistoryBegins == Init => History!Init
BY HistoryDoes DEF Init, History!Init

LEMMA HistoryReplaces ==
  ASSUME MemoryInv, NEW p \in Projects, NEW s \in Snapshots,
         ReplaceProject(p, s)
  PROVE  History!Next
<1> DEFINE others == semanticChanges \ ChangeIds(review[p])
<1>1. \A q \in Projects \ {p} : ChangeIds(review[q]) \subseteq others
  BY DEF MemoryInv, Indexed
<1>2. /\ \A r \in DOMAIN s.sequences : revisions[r].project \in {p, None}
      /\ others \cap ChangeIds(s.review) = {} /\ ListedOnce(s.review)
      /\ projects' = projects \cup {p}
      /\ revisions' = Replaced(revisions, p, s)
      /\ review' = [review EXCEPT ![p] = s.review]
      /\ responses' = responses
  BY DEF ReplaceProject
<1> HIDE DEF others
<1>3. MayReplace(revisions, review, p, s)
  BY <1>1, <1>2 DEF MayReplace
<1>4. History!ReplaceProject(p, s)
  BY <1>2, <1>3, HistoryDoes DEF History!ReplaceProject
<1> QED BY <1>4 DEF History!Next

(* A call of an awaiting caller goes on from what it has read.             *)
LEMMA HistoryAppends ==
  ASSUME MemoryInv, awaited, NEW c \in Calls, Waits(c),
         call[c].cmd.revision # None,
         revisions[call[c].cmd.revision] = Absent,
         IsNext(call[c].cmd, call[c].before, call[c].beforeSequence),
         revisions' = WithRevision(revisions, call[c].cmd),
         UNCHANGED <<projects, review, responses>>
  PROVE  History!Next
<1> DEFINE cmd == call[c].cmd
           p == cmd.project
           before == Latest(revisions, p)
<1>1. ReadHolds(call[c], projects, revisions, responses)
      /\ cmd \in CallCommands
  BY DEF MemoryInv, Awaiting, Allowed
<1>2. p \in Projects /\ p \in projects /\ cmd.revision \in Revisions
  BY <1>1, CallFields DEF ReadHolds
<1>3. cmd.sequence = SequenceOf(revisions, before) + 1
  BY <1>1 DEF ReadHolds, IsNext
<1>4. revisions' = [revisions EXCEPT ![cmd.revision] =
        [project |-> p, sequence |-> SequenceOf(revisions, before) + 1]]
  BY <1>3 DEF WithRevision
<1>5. History!AppendRevision(p, cmd.revision)
  BY <1>2, <1>4, HistoryDoes, HistoryReads DEF History!AppendRevision
<1> QED BY <1>2, <1>5 DEF History!Next

LEMMA HistoryEnds ==
  ASSUME MemoryInv, awaited, NEW c \in Calls, CommitEnds(c)
  PROVE  History!Next
<1> DEFINE cmd == call[c].cmd
           p == cmd.project
           before == Latest(revisions, p)
<1>1. /\ Waits(c) /\ cmd.kind # Raw /\ Accepted(c) /\ BaselineFits(c)
      /\ revisions' = WithRevision(revisions, cmd)
      /\ review' = [review EXCEPT ![p] =
           Reviewed(review[p], cmd, call[c].before)]
      /\ responses' = Answered(responses, review[p], cmd)
      /\ projects' = projects
  BY DEF CommitEnds, Waits
<1>2. ReadHolds(call[c], projects, revisions, responses)
      /\ cmd \in CallCommands
  BY <1>1 DEF MemoryInv, Awaiting, Allowed
<1>3. call[c].before = before
      /\ call[c].beforeSequence = SequenceOf(revisions, before)
  BY <1>2 DEF ReadHolds
<1>4. IsNext(cmd, before, SequenceOf(revisions, before))
  BY <1>1, <1>3 DEF Accepted
<1>5. /\ p \in projects /\ TargetFits(revisions, cmd)
      /\ cmd.key # None => responses[cmd.key] = NoResponse
  BY <1>1, <1>2 DEF ReadHolds
<1>6. /\ MetadataFits(review[p], cmd)
      /\ cmd.revision # None => revisions[cmd.revision] = Absent
      /\ \A q \in Projects :
           cmd.baseline # None => review[q].baseline # cmd.baseline
  BY <1>1 DEF Accepted, BaselineFits
<1>7. \A q \in Projects : cmd.change \notin ChangeIds(review[q])
  BY <1>1 DEF Accepted, MemoryInv, Indexed
<1>8. /\ History!WithRevision(revisions, cmd) = WithRevision(revisions, cmd)
      /\ History!Reviewed(review[p], cmd, before) =
           Reviewed(review[p], cmd, before)
      /\ History!Answered(responses, review[p], cmd) =
           Answered(responses, review[p], cmd)
      /\ History!MetadataFits(review[p], cmd)
      /\ History!TargetFits(revisions, cmd)
      /\ History!Latest(revisions, p) = before
      /\ History!None = None /\ History!NoResponse = NoResponse
      /\ History!Absent = Absent
  BY <1>5, <1>6, HistoryDoes, HistoryReads
<1>9. \A q \in Projects : cmd.change \notin History!ChangeIds(review[q])
  BY <1>7, HistoryDoes
<1> HIDE DEF before
<1>10. History!Commit(cmd)
  BY <1>1, <1>3, <1>5, <1>6, <1>8, <1>9 DEF History!Commit
<1> QED BY <1>1, <1>2, <1>4, <1>10, HistoryCommits DEF before

LEMMA HistoryStep ==
  ASSUME MemoryInv, [Next]_vars
  PROVE  [awaited => History!Next]_(History!vars)
<1>1. CASE UNCHANGED <<projects, revisions, review, responses>>
  BY <1>1 DEF History!vars
<1>2. ASSUME NEW p \in Projects, CreateProject(p)
      PROVE  History!Next
  BY <1>2 DEF CreateProject, History!Next, History!CreateProject
<1>3. ASSUME NEW p \in Projects, DeleteProject(p)
      PROVE  History!Next
  BY <1>3, HistoryDoes
     DEF DeleteProject, History!Next, History!DeleteProject
<1>4. ASSUME NEW c \in Calls, AppendEnds(c), awaited
      PROVE  \/ History!Next
             \/ UNCHANGED <<projects, revisions, review, responses>>
  <2>1. Waits(c) /\ call[c].cmd.kind = Raw
    BY <1>4 DEF AppendEnds, Waits
  <2>2. call[c].cmd \in RawCommands
    BY <2>1, CallFields DEF MemoryInv, Allowed
  <2>3. call[c].cmd.revision # None
    BY <2>2, RawFields, NamesAssumption
  <2>4. revisions[call[c].cmd.revision] = Absent
    BY <1>4, <2>1 DEF MemoryInv, Awaiting, ReadHolds
  <2> QED BY <1>4, <2>1, <2>3, <2>4, HistoryAppends DEF AppendEnds
<1>5. ASSUME NEW c \in Calls, CommitRefusedLate(c), awaited
      PROVE  \/ History!Next
             \/ UNCHANGED <<projects, revisions, review, responses>>
  <2>1. Waits(c) /\ Accepted(c)
    BY <1>5 DEF CommitRefusedLate, Waits
  <2>2. CASE call[c].cmd.revision = None
    BY <1>5, <2>2 DEF CommitRefusedLate, WithRevision
  <2>3. CASE call[c].cmd.revision # None
    BY <1>5, <2>1, <2>3, HistoryAppends DEF CommitRefusedLate, Accepted
  <2> QED BY <2>2, <2>3
<1>6. ASSUME NEW c \in Calls, NEW cmd \in CallCommands,
             CallBegins(c, cmd) \/ CommitRefused(c)
      PROVE  UNCHANGED <<projects, revisions, review, responses>>
  BY <1>6 DEF CallBegins, CommitRefused, store
<1>7. CASE UNCHANGED vars
  BY <1>1, <1>7 DEF vars, store
<1>8. ASSUME NEW c \in Calls, CommitRefused(c)
      PROVE  UNCHANGED <<projects, revisions, review, responses>>
  BY <1>8 DEF CommitRefused, store
<1> QED
  BY <1>1, <1>2, <1>3, <1>4, <1>5, <1>6, <1>7, <1>8, HistoryReplaces,
     HistoryEnds DEF Next

(* Callers who await each call see the atomic repository, though the       *)
(* latest revision is read before an await and the review state after it,  *)
(* and a refused readiness leaves its revision behind.                     *)
THEOREM AwaitedCallsAreAtomic == Spec => ImplementsHistory
<1>1. Init => (awaited => History!Init)
  BY HistoryBegins
<1>2. MemoryInv /\ [Next]_vars => [awaited => History!Next]_(History!vars)
  BY HistoryStep
<1> QED
  BY <1>1, <1>2, MemoryStart, MemoryStep, PTL DEF Spec, ImplementsHistory
=============================================================================
