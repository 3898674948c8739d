---------------------------- MODULE DesktopProofs ----------------------------
(***************************************************************************)
(* Proofs about the desktop's publishing, crash diagnostics and the edits  *)
(* on the canvas, for any attempts, contents, reports, capabilities and    *)
(* saves that fail.                                                        *)
(***************************************************************************)
EXTENDS DesktopMC, FiniteSetTheorems, TLAPS

-----------------------------------------------------------------------------
(* Publishing.                                                             *)
Repositories ==
  [exists : BOOLEAN, base : Publish!Commits \cup {Nobody},
   branch : [Publish!Contents -> Publish!Commits \cup {Nobody}],
   pulls : SUBSET Publish!Pulls]

PublishTyped ==
  /\ design \in Publish!Contents
  /\ dialog \in Publish!Contents \cup {Nobody}
  /\ consent \in Publish!Grants \cup {Nobody}
  /\ grants \subseteq Publish!Grants
  /\ given \in Seq(Publish!Contents) /\ Len(given) <= MaxConsents
  /\ publication \in [Publications -> Publish!Attempted]
  /\ remote \in Repositories

(* Grants are for what the user was shown, and one that was used is gone.  *)
GrantsAreGiven ==
  /\ dialog # Nobody => Len(given) < MaxConsents
  /\ consent # Nobody => consent.id \in 1..Len(given)
  /\ \A g \in grants : g.id \in 1..Len(given) /\ g.content = given[g.id]
Unprepared == {"idle", "queued"}
ConsentsSpent ==
  \A a \in Publications : publication[a].content # 0 =>
    /\ publication[a].step \notin Unprepared
    /\ publication[a].consent \in 1..Len(given)
    /\ publication[a].content = given[publication[a].consent]
    /\ \A g \in grants : g.id # publication[a].consent
    /\ \A b \in Publications \ {a} :
         publication[b].consent = publication[a].consent =>
           publication[b].content = 0
QueuedAreGiven ==
  \A a \in Publications :
    publication[a].step = "queued" => publication[a].consent \in 1..Len(given)

(* An attempt at work has its content, and from its commit on it has a     *)
(* base of this project and a commit of that content.                      *)
WorksOnContent ==
  \A a \in Publications :
    /\ publication[a].step \in Publish!Steps => publication[a].content # 0
    /\ publication[a].step \in {"commit", "ref", "verify", "pull", "open"} =>
         publication[a].base # Publish!Foreign
    /\ publication[a].step \in {"ref", "verify", "pull", "open"} =>
         publication[a].commit.content = publication[a].content

PublishInv ==
  PublishTyped /\ GrantsAreGiven /\ ConsentsSpent /\ QueuedAreGiven
    /\ WorksOnContent

LEMMA PublishBegin == Publish!Init => PublishInv
<1> SUFFICES ASSUME Publish!Init PROVE PublishInv
  OBVIOUS
<1>1. /\ design = 1 /\ dialog = Nobody /\ consent = Nobody /\ grants = {}
      /\ given = <<>>
      /\ publication = [a \in Publications |-> Publish!NotStarted]
  BY DEF Publish!Init
<1>2. /\ Publish!NotStarted \in Publish!Attempted
      /\ Publish!NotStarted.content = 0 /\ Publish!NotStarted.step = "idle"
  BY DEF Publish!NotStarted, Publish!Attempted
<1>3. 1 \in Publish!Contents
  BY NumbersAssumption DEF Publish!Contents
<1>4. remote \in Repositories
  <2>1. PICK there \in BOOLEAN, base \in {Nobody, Publish!Foreign} :
          remote = [exists |-> there, base |-> base, pulls |-> {},
                    branch |-> [c \in Publish!Contents |-> Nobody]]
    BY DEF Publish!Init
  <2>2. Publish!Foreign \in Publish!Commits
    BY DEF Publish!Foreign, Publish!Commits
  <2> QED BY <2>1, <2>2 DEF Repositories
<1>5. PublishTyped
  BY <1>1, <1>2, <1>3, <1>4, NumbersAssumption DEF PublishTyped
<1>6. GrantsAreGiven /\ ConsentsSpent /\ QueuedAreGiven /\ WorksOnContent
  BY <1>1, <1>2
  DEF GrantsAreGiven, ConsentsSpent, QueuedAreGiven, WorksOnContent,
      Publish!Steps
<1> QED BY <1>5, <1>6 DEF PublishInv

(* What a receipt says of the repository, and of a step that hands out     *)
(* none.                                                                   *)
Receipt(a) ==
  /\ publication[a].commit.content = given[publication[a].consent]
  /\ publication[a].base # Publish!Foreign
  /\ \E p \in remote'.pulls :
       p.open /\ p.content = publication[a].content
         /\ p.head = publication[a].commit
NoneSucceeds ==
  \A a \in Publications :
    publication'[a].step = "succeeded" => publication[a].step = "succeeded"

(* A step of the consents that spends none.                                *)
LEMMA ConsentsMove ==
  ASSUME PublishInv, PublishTyped', GrantsAreGiven',
         UNCHANGED publication,
         \/ UNCHANGED given /\ grants' \subseteq grants
         \/ \E c \in Publish!Contents :
              /\ given' = Append(given, c)
              /\ \A g \in grants' : g \in grants \/ g.id = Len(given) + 1
  PROVE  PublishInv'
<1>1. /\ Len(given) \in Nat /\ Len(given') \in Nat
      /\ Len(given) <= Len(given')
      /\ \A i \in 1..Len(given) : i \in 1..Len(given') /\ given'[i] = given[i]
      /\ \A g \in grants' : g \in grants \/ g.id \notin 1..Len(given)
  BY DEF PublishInv, PublishTyped
<1>2. ConsentsSpent' /\ QueuedAreGiven'
  BY <1>1 DEF PublishInv, ConsentsSpent, QueuedAreGiven
<1>3. WorksOnContent'
  BY DEF PublishInv, WorksOnContent
<1> QED BY <1>2, <1>3 DEF PublishInv

(* An attempt that goes on with its consent and content, or stops.         *)
LEMMA AttemptMoves ==
  ASSUME PublishInv, NEW a \in Publications,
         NEW y \in Publish!Attempted,
         UNCHANGED <<design, dialog, consent, grants, given>>,
         remote' \in Repositories,
         publication' = [publication EXCEPT ![a] = y],
         y.consent = publication[a].consent,
         y.content = publication[a].content,
         y.step \notin Unprepared,
         y.step \in Publish!Steps => y.content # 0,
         y.step \in {"commit", "ref", "verify", "pull", "open"} =>
           y.base # Publish!Foreign,
         y.step \in {"ref", "verify", "pull", "open"} =>
           y.commit.content = y.content
  PROVE  /\ PublishInv' /\ publication'[a] = y
         /\ \A b \in Publications : b # a => publication'[b] = publication[b]
<1>1. /\ publication' \in [Publications -> Publish!Attempted]
      /\ publication'[a] = y
      /\ \A b \in Publications : b # a => publication'[b] = publication[b]
  BY DEF PublishInv, PublishTyped
<1>2. PublishTyped' /\ GrantsAreGiven'
  BY <1>1 DEF PublishInv, PublishTyped, GrantsAreGiven
<1>3. \A b \in Publications :
        /\ publication'[b].consent = publication[b].consent
        /\ publication'[b].content = publication[b].content
        /\ publication'[b].step \in Unprepared =>
             b # a /\ publication'[b].step = publication[b].step
  BY <1>1
<1>4. ConsentsSpent' /\ QueuedAreGiven'
  BY <1>3 DEF PublishInv, ConsentsSpent, QueuedAreGiven, Unprepared
<1>5. WorksOnContent'
  <2>1. ASSUME NEW b \in Publications
        PROVE  /\ publication'[b].step \in Publish!Steps =>
                    publication'[b].content # 0
               /\ publication'[b].step \in
                    {"commit", "ref", "verify", "pull", "open"} =>
                    publication'[b].base # Publish!Foreign
               /\ publication'[b].step \in {"ref", "verify", "pull", "open"} =>
                    publication'[b].commit.content = publication'[b].content
    <3>1. CASE b = a
      BY <1>1, <3>1
    <3>2. CASE b # a
      BY <1>1, <3>2 DEF PublishInv, WorksOnContent
    <3> QED BY <3>1, <3>2
  <2> QED BY <2>1 DEF WorksOnContent
<1> QED BY <1>1, <1>2, <1>4, <1>5 DEF PublishInv

(* The same for an attempt that comes to another step.                     *)
LEMMA StepMoves ==
  ASSUME PublishInv, NEW a \in Publications,
         NEW s \in (Publish!Steps \cup {"succeeded", "failed"}),
         UNCHANGED <<design, dialog, consent, grants, given>>,
         remote' \in Repositories,
         Publish!To(a, s),
         publication[a].step \in Publish!Steps,
         s \in {"commit", "ref", "verify", "pull", "open"} =>
           publication[a].base # Publish!Foreign,
         s \in {"ref", "verify", "pull", "open"} =>
           publication[a].commit.content = publication[a].content
  PROVE  /\ PublishInv' /\ publication'[a].step = s
         /\ \A b \in Publications : b # a => publication'[b] = publication[b]
<1> DEFINE y == [publication[a] EXCEPT !.step = s]
<1>1. publication[a] \in Publish!Attempted
  BY DEF PublishInv, PublishTyped
<1>2. /\ y \in Publish!Attempted /\ y.step = s
      /\ y.consent = publication[a].consent
      /\ y.content = publication[a].content
      /\ y.base = publication[a].base /\ y.commit = publication[a].commit
  BY <1>1 DEF Publish!Attempted
<1>3. publication' = [publication EXCEPT ![a] = y]
  BY DEF Publish!To
<1>4. s \notin Unprepared /\ publication[a].content # 0
  BY DEF PublishInv, WorksOnContent, Publish!Steps, Unprepared
<1> HIDE DEF y
<1> QED BY <1>2, <1>3, <1>4, AttemptMoves

(* What others do in the repository leaves it a repository.                *)
Rebranched(c, head, pulls) ==
  [remote EXCEPT !.branch[c] = head, !.pulls = pulls]
Rebased(head, pulls) == [remote EXCEPT !.base = head, !.pulls = pulls]
Repulled(pulls) == [remote EXCEPT !.pulls = pulls]

LEMMA RepositoryChanges ==
  ASSUME remote \in Repositories, NEW c \in Publish!Contents,
         NEW head \in Publish!Commits \cup {Nobody},
         NEW pulls \in SUBSET Publish!Pulls
  PROVE  /\ Rebranched(c, head, pulls) \in Repositories
         /\ Rebased(head, pulls) \in Repositories
         /\ Repulled(pulls) \in Repositories
<1> DEFINE b == [remote.branch EXCEPT ![c] = head]
<1>1. b \in [Publish!Contents -> Publish!Commits \cup {Nobody}]
  BY DEF Repositories
<1>2. Rebranched(c, head, pulls) = [remote EXCEPT !.branch = b,
                                                  !.pulls = pulls]
  BY DEF Rebranched
<1> HIDE DEF b
<1>3. Rebranched(c, head, pulls) =
        [exists |-> remote.exists, base |-> remote.base, branch |-> b,
         pulls |-> pulls]
  BY <1>2 DEF Repositories
<1>4. Rebranched(c, head, pulls) \in Repositories
  BY <1>1, <1>3 DEF Repositories
<1> QED BY <1>4 DEF Rebased, Repulled, Repositories

LEMMA PullsHeaded ==
  ASSUME NEW pulls \in SUBSET Publish!Pulls, NEW c \in Publish!Contents,
         NEW head \in Publish!Commits
  PROVE  Publish!Headed(pulls, c, head) \in SUBSET Publish!Pulls
BY DEF Publish!Headed, Publish!Pulls

LEMMA PullsClosed ==
  ASSUME NEW pulls \in SUBSET Publish!Pulls, NEW c
  PROVE  Publish!Closed(pulls, c) \in SUBSET Publish!Pulls
<1> DEFINE x(p) == IF p.content = c THEN [p EXCEPT !.open = FALSE] ELSE p
<1>1. \A p \in pulls : x(p) \in Publish!Pulls
  BY DEF Publish!Pulls
<1>2. Publish!Closed(pulls, c) = {x(p) : p \in pulls}
  BY Zenon DEF Publish!Closed
<1> HIDE DEF x
<1> QED BY <1>1, <1>2

LEMMA OthersUse ==
  ASSUME PublishTyped, Publish!Others
  PROVE  remote' \in Repositories
<1> DEFINE headed(c) == Publish!Headed(remote.pulls, c, Publish!Foreign)
           closed(c) == Publish!Closed(remote.pulls, c)
<1>1. \/ remote' = [remote EXCEPT !.exists = TRUE]
      \/ remote' = [remote EXCEPT !.base = Publish!Foreign]
      \/ \E c \in Publish!Contents :
           \/ remote' = Rebranched(c, Publish!Foreign, headed(c))
           \/ remote' = Rebranched(c, Nobody, closed(c))
      \/ \E p \in remote.pulls :
           \/ remote' = Repulled(closed(p.content))
           \/ remote' = Rebased(p.head, closed(p.content))
  BY Zenon DEF Publish!Others, Rebranched, Rebased, Repulled
<1>2. /\ remote \in Repositories /\ Publish!Foreign \in Publish!Commits
      /\ remote.pulls \in SUBSET Publish!Pulls
      /\ \A p \in remote.pulls : p.head \in Publish!Commits
  BY DEF PublishTyped, Publish!Foreign, Publish!Commits, Repositories,
     Publish!Pulls
<1>3. /\ \A c \in Publish!Contents : headed(c) \in SUBSET Publish!Pulls
      /\ \A c : closed(c) \in SUBSET Publish!Pulls
  BY <1>2, PullsHeaded, PullsClosed
<1>4. /\ [remote EXCEPT !.exists = TRUE] \in Repositories
      /\ [remote EXCEPT !.base = Publish!Foreign] \in Repositories
  BY <1>2 DEF Repositories
<1>5. 1 \in Publish!Contents
  BY NumbersAssumption DEF Publish!Contents
<1> HIDE DEF headed, closed
<1>6. ASSUME NEW c \in Publish!Contents
      PROVE  /\ Rebranched(c, Publish!Foreign, headed(c)) \in Repositories
             /\ Rebranched(c, Nobody, closed(c)) \in Repositories
  BY <1>2, <1>3, RepositoryChanges
<1>7. ASSUME NEW p \in remote.pulls
      PROVE  /\ Repulled(closed(p.content)) \in Repositories
             /\ Rebased(p.head, closed(p.content)) \in Repositories
  BY <1>2, <1>3, <1>5, RepositoryChanges
<1> QED BY <1>1, <1>4, <1>6, <1>7

(* The host's side of publishing.                                          *)
LEMMA PublishHostStep ==
  ASSUME PublishInv,
         \/ Publish!Edit \/ Publish!RequestConsent \/ Publish!Allowed
         \/ Publish!Declined \/ Publish!Expires \/ Publish!PublishUnknown
  PROVE  PublishInv'
<1>0. PublishTyped
  BY DEF PublishInv
<1>1. CASE \/ Publish!Edit \/ Publish!RequestConsent \/ Publish!Declined
           \/ Publish!Expires \/ Publish!PublishUnknown
  <2>1. /\ UNCHANGED <<given, publication, remote>>
        /\ grants' \subseteq grants /\ consent' \in {consent, Nobody}
        /\ design' \in Publish!Contents
        /\ \/ dialog' \in {dialog, Nobody}
           \/ dialog' = design /\ Len(given) < MaxConsents
    BY <1>0, <1>1
    DEF Publish!Edit, Publish!RequestConsent, Publish!Declined,
        Publish!Expires, Publish!PublishUnknown, PublishTyped
  <2>2. PublishTyped' /\ GrantsAreGiven'
    BY <1>0, <2>1 DEF PublishTyped, PublishInv, GrantsAreGiven
  <2> QED BY <2>1, <2>2, ConsentsMove
<1>2. CASE Publish!Allowed
  <2> DEFINE g == [id |-> Len(given) + 1, content |-> dialog]
  <2>1. /\ dialog # Nobody /\ dialog' = Nobody /\ consent' = g
        /\ grants' = grants \cup {g} /\ given' = Append(given, dialog)
        /\ UNCHANGED <<design, publication, remote>>
    BY <1>2 DEF Publish!Allowed
  <2>2. /\ dialog \in Publish!Contents /\ Len(given) < MaxConsents
        /\ Len(given) \in Nat
    BY <1>0, <2>1 DEF PublishTyped, PublishInv, GrantsAreGiven
  <2>3. g \in Publish!Grants /\ g.id = Len(given) + 1 /\ g.content = dialog
    BY <2>2, NumbersAssumption DEF Publish!Grants, Publish!Consents
  <2> HIDE DEF g
  <2>4. /\ given' \in Seq(Publish!Contents) /\ Len(given') = Len(given) + 1
        /\ given'[Len(given) + 1] = dialog
        /\ \A i \in 1..Len(given) : given'[i] = given[i]
    BY <1>0, <2>1, <2>2 DEF PublishTyped
  <2>5. PublishTyped'
    BY <1>0, <2>1, <2>2, <2>3, <2>4, NumbersAssumption DEF PublishTyped
  <2>6. GrantsAreGiven'
    BY <2>1, <2>2, <2>3, <2>4 DEF PublishInv, GrantsAreGiven
  <2> QED BY <2>1, <2>2, <2>3, <2>5, <2>6, ConsentsMove
<1> QED BY <1>1, <1>2

(* A publish call, and its turn in the queue.                              *)
LEMMA PublishQueued ==
  ASSUME PublishInv, NEW a \in Publications, Publish!Publish(a)
  PROVE  PublishInv' /\ NoneSucceeds
<1>0. PublishTyped
  BY DEF PublishInv
<1>1. PICK p \in BOOLEAN :
        publication' = [publication EXCEPT ![a].step = "queued",
                                           ![a].consent = consent.id,
                                           ![a].provisioning = p]
  BY DEF Publish!Publish
<1> DEFINE y == [publication[a] EXCEPT !.step = "queued",
                                       !.consent = consent.id,
                                       !.provisioning = p]
<1>2. /\ publication[a].step = "idle" /\ consent # Nobody
      /\ UNCHANGED <<design, dialog, consent, grants, given, remote>>
  BY DEF Publish!Publish, Publish!host
<1>3. /\ consent.id \in Publish!Consents /\ consent.id \in 1..Len(given)
      /\ publication[a] \in Publish!Attempted
  BY <1>0, <1>2 DEF PublishTyped, PublishInv, GrantsAreGiven, Publish!Grants
<1>4. publication[a].content = 0
  BY <1>2 DEF PublishInv, ConsentsSpent, Unprepared
<1>5. publication' = [publication EXCEPT ![a] = y]
  BY <1>1
<1>6. /\ y \in Publish!Attempted /\ y.step = "queued" /\ y.content = 0
      /\ y.consent \in 1..Len(given)
  BY <1>3, <1>4 DEF Publish!Attempted
<1> HIDE DEF y
<1>7. /\ publication' \in [Publications -> Publish!Attempted]
      /\ publication'[a] = y
      /\ \A b \in Publications : b # a => publication'[b] = publication[b]
  BY <1>0, <1>5, <1>6 DEF PublishTyped
<1>8. PublishTyped' /\ GrantsAreGiven'
  BY <1>0, <1>2, <1>7 DEF PublishTyped, PublishInv, GrantsAreGiven
<1>9. ConsentsSpent'
  <2>1. ASSUME NEW b \in Publications, publication'[b].content # 0
        PROVE  /\ b # a /\ publication'[b] = publication[b]
               /\ publication[b].content # 0
    BY <1>6, <1>7, <2>1
  <2>2. ASSUME NEW b \in Publications, publication'[b].content # 0,
               NEW c \in Publications \ {b},
               publication'[c].consent = publication'[b].consent
        PROVE  publication'[c].content = 0
    BY <1>6, <1>7, <2>1, <2>2 DEF PublishInv, ConsentsSpent
  <2> QED
    BY <1>2, <2>1, <2>2 DEF PublishInv, ConsentsSpent
<1>10. QueuedAreGiven'
  BY <1>2, <1>6, <1>7 DEF PublishInv, QueuedAreGiven
<1>11. WorksOnContent'
  BY <1>6, <1>7 DEF PublishInv, WorksOnContent, Publish!Steps
<1>12. NoneSucceeds
  BY <1>6, <1>7 DEF NoneSucceeds
<1> QED BY <1>12, <1>8, <1>9, <1>10, <1>11 DEF PublishInv

LEMMA PublishPrepared ==
  ASSUME PublishInv, NEW a \in Publications, Publish!Prepare(a)
  PROVE  PublishInv' /\ NoneSucceeds
<1>0. PublishTyped /\ publication[a] \in Publish!Attempted
  BY DEF PublishInv, PublishTyped
<1> DEFINE id == publication[a].consent
           y == IF Publish!Consumes(a)
                THEN [publication[a] EXCEPT !.step = "repository",
                                            !.content = design]
                ELSE [publication[a] EXCEPT !.step = "failed"]
<1>1. /\ publication[a].step = "queued"
      /\ publication' = [publication EXCEPT ![a] = y]
      /\ grants' = {g \in grants : g.id # id}
      /\ consent' \in {consent, Nobody}
      /\ UNCHANGED <<design, dialog, given, remote>>
  BY DEF Publish!Prepare
<1>2. id \in 1..Len(given) /\ publication[a].content = 0
  BY <1>1 DEF PublishInv, QueuedAreGiven, ConsentsSpent, Unprepared
<1>3. Publish!Consumes(a) =>
        \E g \in grants : g.id = id /\ g.content = design
  BY DEF Publish!Consumes
<1>4. /\ y \in Publish!Attempted /\ y.consent = id
      /\ Publish!Consumes(a) => y.step = "repository" /\ y.content = design
      /\ ~Publish!Consumes(a) => y.step = "failed" /\ y.content = 0
  BY <1>0, <1>2 DEF Publish!Attempted, PublishTyped, Publish!Steps
<1>5. y.content # 0 =>
        /\ y.content = given[id]
        /\ \E g \in grants : g.id = id
  BY <1>3, <1>4 DEF PublishInv, GrantsAreGiven
<1> HIDE DEF y
<1>6. /\ publication' \in [Publications -> Publish!Attempted]
      /\ publication'[a] = y
      /\ \A b \in Publications : b # a => publication'[b] = publication[b]
  BY <1>0, <1>1, <1>4 DEF PublishTyped
<1>7. PublishTyped' /\ GrantsAreGiven'
  BY <1>0, <1>1, <1>6 DEF PublishTyped, PublishInv, GrantsAreGiven
<1>8. \A b \in Publications \ {a} :
        publication[b].content # 0 /\ publication[b].consent = id =>
          y.content = 0
  BY <1>5 DEF PublishInv, ConsentsSpent
<1> HIDE DEF id
<1>9. ConsentsSpent'
  <2>1. ASSUME NEW b \in Publications, publication'[b].content # 0
        PROVE  /\ publication'[b].step \notin Unprepared
               /\ publication'[b].consent \in 1..Len(given)
               /\ publication'[b].content = given[publication'[b].consent]
               /\ \A g \in grants' : g.id # publication'[b].consent
    <3>1. CASE b = a
      BY <1>1, <1>2, <1>4, <1>5, <1>6, <2>1, <3>1 DEF Unprepared
    <3>2. CASE b # a
      BY <1>1, <1>6, <2>1, <3>2 DEF PublishInv, ConsentsSpent
    <3> QED BY <3>1, <3>2
  <2>2. ASSUME NEW b \in Publications, publication'[b].content # 0,
               NEW c \in Publications \ {b},
               publication'[c].consent = publication'[b].consent
        PROVE  publication'[c].content = 0
    <3>1. CASE b = a
      BY <1>4, <1>6, <1>8, <2>2, <3>1
    <3>2. CASE c = a
      BY <1>4, <1>6, <1>8, <2>2, <3>2
    <3>3. CASE b # a /\ c # a
      BY <1>6, <2>2, <3>3 DEF PublishInv, ConsentsSpent
    <3> QED BY <3>1, <3>2, <3>3
  <2> QED BY <1>1, <2>1, <2>2 DEF ConsentsSpent
<1>10. QueuedAreGiven'
  BY <1>1, <1>4, <1>6 DEF PublishInv, QueuedAreGiven
<1>11. y.content # 0 \/ y.step = "failed"
  <2>1. design # 0
    BY <1>0 DEF PublishTyped, Publish!Contents
  <2> QED BY <1>4, <2>1
<1>12. WorksOnContent'
  <2>1. y.step \in {"repository", "failed"}
    BY <1>4
  <2>2. ASSUME NEW b \in Publications
        PROVE  /\ publication'[b].step \in Publish!Steps =>
                    publication'[b].content # 0
               /\ publication'[b].step \in
                    {"commit", "ref", "verify", "pull", "open"} =>
                    publication'[b].base # Publish!Foreign
               /\ publication'[b].step \in {"ref", "verify", "pull", "open"} =>
                    publication'[b].commit.content = publication'[b].content
    <3>1. CASE b = a
      BY <1>6, <1>11, <2>1, <3>1 DEF Publish!Steps
    <3>2. CASE b # a
      BY <1>6, <3>2 DEF PublishInv, WorksOnContent
    <3> QED BY <3>1, <3>2
  <2> QED BY <2>2 DEF WorksOnContent
<1>13. NoneSucceeds
  BY <1>4, <1>6 DEF NoneSucceeds
<1> QED BY <1>13, <1>7, <1>9, <1>10, <1>12 DEF PublishInv

LEMMA PublishCrash ==
  ASSUME PublishInv, Publish!Crash
  PROVE  PublishInv' /\ NoneSucceeds
<1>0. PublishTyped
  BY DEF PublishInv
<1> DEFINE y(a) == IF Publish!Running(a)
                   THEN [publication[a] EXCEPT !.step = "failed"]
                   ELSE publication[a]
<1>1. publication' = [a \in Publications |-> y(a)]
  BY Zenon DEF Publish!Crash
<1>2. ASSUME NEW a \in Publications
      PROVE  /\ y(a) \in Publish!Attempted
             /\ y(a).consent = publication[a].consent
             /\ y(a).content = publication[a].content
             /\ y(a).step \in {"failed", publication[a].step}
             /\ y(a).step \notin Publish!Steps \cup {"queued"}
  <2>1. publication[a] \in Publish!Attempted
    BY <1>0 DEF PublishTyped
  <2> QED BY <2>1 DEF Publish!Attempted, Publish!Steps, Publish!Running
<1> HIDE DEF y
<1>3. /\ publication' \in [Publications -> Publish!Attempted]
      /\ \A a \in Publications : publication'[a] = y(a)
  BY <1>1, <1>2
<1>4. /\ dialog' = Nobody /\ consent' = Nobody /\ grants' = {}
      /\ UNCHANGED <<design, given, remote>>
  BY DEF Publish!Crash
<1>5. PublishTyped' /\ GrantsAreGiven'
  BY <1>0, <1>3, <1>4 DEF PublishTyped, GrantsAreGiven
<1>6. ConsentsSpent' /\ QueuedAreGiven'
  BY <1>2, <1>3, <1>4
  DEF PublishInv, ConsentsSpent, QueuedAreGiven, Unprepared
<1>7. WorksOnContent'
  BY <1>2, <1>3 DEF WorksOnContent, Publish!Steps
<1>8. NoneSucceeds
  BY <1>2, <1>3 DEF NoneSucceeds
<1> QED BY <1>8, <1>5, <1>6, <1>7 DEF PublishInv

(* An attempt's work, remote call by remote call.                          *)
LEMMA AttemptWorks ==
  ASSUME PublishInv, NEW a \in Publications,
         Publish!Fails(a) \/ Publish!Adapter(a)
  PROVE  /\ PublishInv'
         /\ publication'[a].step = "succeeded" => Receipt(a)
         /\ \A b \in Publications : b # a => publication'[b] = publication[b]
<1> DEFINE Rest == \A b \in Publications :
                     b # a => publication'[b] = publication[b]
           Goal == /\ PublishInv'
                   /\ publication'[a].step = "succeeded" => Receipt(a)
                   /\ Rest
<1>0. /\ PublishTyped /\ publication[a] \in Publish!Attempted
      /\ remote \in Repositories
  BY DEF PublishInv, PublishTyped
<1>1. UNCHANGED <<design, dialog, consent, grants, given>>
  BY DEF Publish!Fails, Publish!Adapter, Publish!ReadRepository,
     Publish!CreateRepository, Publish!ReadBase, Publish!CreateBaseline,
     Publish!ReadOwner, Publish!CreateCommit, Publish!CreateRef,
     Publish!Verify, Publish!ReadPullRequest,
     Publish!CreateDraftPullRequest, Publish!host
<1> DEFINE Moves(s) ==
             /\ s \in Publish!Steps \cup {"succeeded", "failed"}
             /\ Publish!To(a, s)
             /\ s \in {"commit", "ref", "verify", "pull", "open"} =>
                  publication[a].base # Publish!Foreign
             /\ s \in {"ref", "verify", "pull", "open"} =>
                  publication[a].commit.content = publication[a].content
<1>2. ASSUME NEW s, Moves(s), publication[a].step \in Publish!Steps,
             remote' \in Repositories
      PROVE  /\ PublishInv' /\ Rest /\ publication'[a].step = s
             /\ s # "succeeded" => Goal
  BY <1>1, <1>2, StepMoves
<1>3. /\ publication[a].step \in {"commit", "ref", "verify", "pull", "open"} =>
           publication[a].base # Publish!Foreign
      /\ publication[a].step \in {"ref", "verify", "pull", "open"} =>
           publication[a].commit.content = publication[a].content
      /\ publication[a].step \in Publish!Steps => publication[a].content # 0
  BY DEF PublishInv, WorksOnContent
<1>4. CASE Publish!Fails(a)
  <2>1. Moves("failed") /\ publication[a].step \in Publish!Steps
    BY <1>4 DEF Publish!Fails
  <2>2. remote' \in Repositories
    BY <1>0, <1>4 DEF Publish!Fails
  <2> QED BY <1>2, <2>1, <2>2
<1>5. CASE Publish!ReadRepository(a)
  <2>1. PICK s \in {"base", "create"} : Publish!To(a, s)
    BY <1>5 DEF Publish!ReadRepository
  <2>2. Moves(s) /\ publication[a].step \in Publish!Steps
    BY <1>5, <2>1 DEF Publish!ReadRepository, Publish!In, Publish!Steps
  <2> QED BY <1>0, <1>2, <1>5, <2>2 DEF Publish!ReadRepository
<1>6. CASE Publish!CreateRepository(a)
  <2>1. remote' \in Repositories
    BY <1>0, <1>6 DEF Publish!CreateRepository, Repositories
  <2>2. publication[a].step = "create"
    BY <1>6 DEF Publish!CreateRepository, Publish!In
  <2>3. CASE Publish!To(a, "failed")
    <3>1. Moves("failed")
      BY <2>3
    <3> QED BY <1>2, <2>1, <2>2, <3>1 DEF Publish!Steps
  <2>4. CASE publication' = [publication EXCEPT ![a].step = "base",
                                                ![a].provisioned = TRUE]
    <3> DEFINE y == [publication[a] EXCEPT !.step = "base",
                                           !.provisioned = TRUE]
    <3>1. publication' = [publication EXCEPT ![a] = y]
      BY <2>4
    <3>2. /\ y \in Publish!Attempted /\ y.step = "base"
          /\ y.consent = publication[a].consent
          /\ y.content = publication[a].content
      BY <1>0 DEF Publish!Attempted, Publish!Steps
    <3> HIDE DEF y
    <3> QED
      BY <1>1, <1>3, <2>1, <2>2, <3>1, <3>2, AttemptMoves
      DEF Publish!Steps, Unprepared
  <2> QED BY <1>6, <2>3, <2>4 DEF Publish!CreateRepository
<1>7. ASSUME NEW b \in Publish!Commits, NEW s,
             s \in Publish!Steps, remote' \in Repositories,
             publication[a].step = s, s \in {"base", "baseline"},
             publication' = [publication EXCEPT ![a].step = "owner",
                                                ![a].base = b]
      PROVE  Goal
  <2> DEFINE y == [publication[a] EXCEPT !.step = "owner", !.base = b]
  <2>1. publication' = [publication EXCEPT ![a] = y]
    BY <1>7
  <2>2. /\ y \in Publish!Attempted /\ y.step = "owner"
        /\ y.consent = publication[a].consent
        /\ y.content = publication[a].content
    BY <1>0 DEF Publish!Attempted, Publish!Steps
  <2> HIDE DEF y
  <2> QED
    BY <1>1, <1>3, <1>7, <2>1, <2>2, AttemptMoves
    DEF Publish!Steps, Unprepared
<1>8. CASE Publish!ReadBase(a)
  <2>1. publication[a].step = "base" /\ remote' = remote
    BY <1>8 DEF Publish!ReadBase, Publish!In
  <2>2. CASE remote.base # Nobody
    <3>1. /\ publication' = [publication EXCEPT ![a].step = "owner",
                                                ![a].base = remote.base]
          /\ remote.base \in Publish!Commits
      BY <1>0, <1>8, <2>2 DEF Publish!ReadBase, Repositories
    <3> QED BY <1>0, <1>7, <2>1, <3>1 DEF Publish!Steps
  <2>3. CASE remote.base = Nobody
    <3>1. Moves("baseline")
      BY <1>8, <2>3 DEF Publish!ReadBase, Publish!Steps
    <3> QED BY <1>0, <1>2, <2>1, <3>1 DEF Publish!Steps
  <2> QED BY <2>2, <2>3
<1>9. CASE Publish!CreateBaseline(a)
  <2> DEFINE b == [content |-> 0, by |-> a]
  <2>1. b \in Publish!Commits
    BY DEF Publish!Commits
  <2>2. /\ publication[a].step = "baseline"
        /\ remote' = [remote EXCEPT !.base = b]
        /\ \/ publication' = [publication EXCEPT ![a].step = "owner",
                                                 ![a].base = b]
           \/ Publish!To(a, "failed")
    BY <1>9 DEF Publish!CreateBaseline, Publish!In
  <2> HIDE DEF b
  <2>3. remote' \in Repositories
    BY <1>0, <2>1, <2>2 DEF Repositories
  <2>4. CASE Publish!To(a, "failed")
    <3>1. Moves("failed")
      BY <2>4
    <3> QED BY <1>2, <2>2, <2>3, <3>1 DEF Publish!Steps
  <2> QED BY <1>7, <2>1, <2>2, <2>3, <2>4 DEF Publish!Steps
<1>10. CASE Publish!ReadOwner(a)
  <2>1. Moves("commit") /\ publication[a].step \in Publish!Steps
    BY <1>10 DEF Publish!ReadOwner, Publish!In, Publish!Steps
  <2> QED BY <1>0, <1>2, <1>10, <2>1 DEF Publish!ReadOwner
<1>11. CASE Publish!CreateCommit(a)
  <2> DEFINE k == [content |-> publication[a].content, by |-> a]
             y == [publication[a] EXCEPT !.step = "ref", !.commit = k]
  <2>1. /\ publication[a].step = "commit" /\ remote' = remote
        /\ publication' = [publication EXCEPT ![a] = y]
    BY <1>11 DEF Publish!CreateCommit, Publish!In
  <2>2. k \in Publish!Commits /\ k.content = publication[a].content
    BY <1>0 DEF Publish!Commits, Publish!Attempted
  <2> HIDE DEF k
  <2>3. /\ y \in Publish!Attempted /\ y.step = "ref" /\ y.commit = k
        /\ y.consent = publication[a].consent
        /\ y.content = publication[a].content
        /\ y.base = publication[a].base
    BY <1>0, <2>2 DEF Publish!Attempted, Publish!Steps
  <2> HIDE DEF y
  <2> QED
    BY <1>0, <1>1, <1>3, <2>1, <2>2, <2>3, AttemptMoves
    DEF Publish!Steps, Unprepared
<1>12. CASE Publish!CreateRef(a)
  <2> DEFINE k == publication[a].commit
             b == [remote.branch EXCEPT ![publication[a].content] = k]
  <2>1. /\ publication[a].step = "ref"
        /\ remote' = [remote EXCEPT !.branch = b]
        /\ Publish!To(a, "verify") \/ Publish!To(a, "failed")
    BY <1>12 DEF Publish!CreateRef, Publish!In, Publish!ToOrFails
  <2>2. /\ k \in Publish!Commits \cup {Nobody}
        /\ remote.branch \in
             [Publish!Contents -> Publish!Commits \cup {Nobody}]
    BY <1>0 DEF Publish!Attempted, Repositories
  <2> HIDE DEF k
  <2>3. b \in [Publish!Contents -> Publish!Commits \cup {Nobody}]
    BY <2>2
  <2> HIDE DEF b
  <2>4. remote' \in Repositories
    BY <1>0, <2>1, <2>3 DEF Repositories
  <2>5. Moves("verify") \/ Moves("failed")
    BY <1>3, <2>1 DEF Publish!Steps
  <2> QED BY <1>2, <2>1, <2>4, <2>5 DEF Publish!Steps
<1>13. CASE Publish!Verify(a)
  <2>1. Moves("pull") /\ publication[a].step \in Publish!Steps
    BY <1>3, <1>13 DEF Publish!Verify, Publish!In, Publish!Steps
  <2> QED BY <1>0, <1>2, <1>13, <2>1 DEF Publish!Verify
<1>14. publication[a].step \in {"pull", "open"} =>
         /\ publication[a].commit.content = given[publication[a].consent]
         /\ publication[a].base # Publish!Foreign
  BY <1>3 DEF PublishInv, ConsentsSpent, Publish!Steps
<1>15. CASE Publish!ReadPullRequest(a)
  <2>1. /\ Moves("open") \/ Moves("succeeded")
        /\ publication[a].step \in Publish!Steps
    BY <1>3, <1>15 DEF Publish!ReadPullRequest, Publish!In, Publish!Steps
  <2>2. /\ PublishInv' /\ Rest /\ remote' = remote
        /\ Moves("open") => Goal
    BY <1>0, <1>2, <1>15, <2>1 DEF Publish!ReadPullRequest
  <2>3. ASSUME NEW pull \in Publish!OpenPulls(a), Publish!Matches(a, pull)
        PROVE  Receipt(a)
    <3>1. /\ pull \in remote'.pulls /\ pull.open
          /\ pull.content = publication[a].content
          /\ pull.head = publication[a].commit
      BY <2>2, <2>3 DEF Publish!OpenPulls, Publish!Matches
    <3> QED BY <1>14, <2>1, <3>1, <1>15 DEF Receipt, Publish!ReadPullRequest,
       Publish!In
  <2>4. CASE Publish!To(a, "open")
    <3>1. Moves("open")
      BY <1>3, <1>15, <2>4
      DEF Publish!ReadPullRequest, Publish!In, Publish!Steps
    <3> QED BY <2>2, <3>1
  <2> HIDE DEF Moves
  <2> QED BY <1>15, <2>2, <2>3, <2>4 DEF Publish!ReadPullRequest
<1>16. CASE Publish!CreateDraftPullRequest(a)
  <2> DEFINE pull == [content |-> publication[a].content,
                      head |-> Publish!Branch(a), open |-> TRUE]
  <2>1. /\ publication[a].step = "open" /\ Publish!Branch(a) # Nobody
        /\ remote' = [remote EXCEPT !.pulls = @ \cup {pull}]
        /\ Moves("succeeded") \/ Moves("failed")
    BY <1>16 DEF Publish!CreateDraftPullRequest, Publish!In
  <2>2. publication[a].content \in Publish!Contents
    BY <1>0, <1>3, <2>1 DEF Publish!Attempted, Publish!Steps
  <2>3. Publish!Branch(a) \in Publish!Commits
    BY <1>0, <2>1, <2>2 DEF Publish!Branch, Repositories
  <2>4. pull \in Publish!Pulls
    BY <2>2, <2>3 DEF Publish!Pulls
  <2>5. /\ pull.open /\ pull.content = publication[a].content
        /\ pull.head = Publish!Branch(a)
    OBVIOUS
  <2>6. Publish!To(a, "failed") \/ Publish!Branch(a) = publication[a].commit
    BY <1>16 DEF Publish!CreateDraftPullRequest, Publish!Matches
  <2> HIDE DEF pull
  <2>7. remote' \in Repositories /\ pull \in remote'.pulls
    BY <1>0, <2>1, <2>4 DEF Repositories
  <2>8. CASE Publish!To(a, "failed")
    <3>1. Moves("failed")
      BY <2>8
    <3> QED BY <1>2, <2>1, <2>7, <3>1 DEF Publish!Steps
  <2>9. CASE Publish!Branch(a) = publication[a].commit
    <3>1. Receipt(a)
      BY <1>14, <2>1, <2>5, <2>7, <2>9 DEF Receipt
    <3>2. PublishInv' /\ Rest
      BY <1>2, <2>1, <2>7 DEF Publish!Steps
    <3> QED BY <3>1, <3>2
  <2> QED BY <2>6, <2>8, <2>9
<1> QED
  BY <1>4, <1>5, <1>6, <1>8, <1>9, <1>10, <1>11, <1>12, <1>13, <1>15, <1>16
  DEF Publish!Adapter

LEMMA PublishStep ==
  ASSUME PublishInv, [Publish!Next]_publishVars
  PROVE  /\ PublishInv'
         /\ \A a \in Publications :
              publication[a].step # "succeeded"
                /\ publication'[a].step = "succeeded" => Receipt(a)
<1>1. CASE Publish!Others
  <2>0. UNCHANGED <<Publish!host, publication>>
    BY <1>1, Zenon DEF Publish!Others
  <2>1. UNCHANGED <<design, dialog, consent, grants, given, publication>>
    BY <2>0 DEF Publish!host
  <2>2. remote' \in Repositories
    BY <1>1, OthersUse DEF PublishInv
  <2> QED
    BY <2>1, <2>2
    DEF PublishInv, PublishTyped, GrantsAreGiven, ConsentsSpent,
        QueuedAreGiven, WorksOnContent
<1>2. CASE UNCHANGED publishVars
  BY <1>2
  DEF publishVars, PublishInv, PublishTyped, GrantsAreGiven, ConsentsSpent,
      QueuedAreGiven, WorksOnContent
<1>3. CASE \/ Publish!Edit \/ Publish!RequestConsent \/ Publish!Allowed
           \/ Publish!Declined \/ Publish!Expires \/ Publish!PublishUnknown
  <2>1. UNCHANGED publication
    BY <1>3
    DEF Publish!Edit, Publish!RequestConsent, Publish!Allowed,
        Publish!Declined, Publish!Expires, Publish!PublishUnknown
  <2> QED BY <1>3, <2>1, PublishHostStep
<1>4. CASE \/ Publish!Crash
           \/ \E a \in Publications : Publish!Publish(a) \/ Publish!Prepare(a)
  BY <1>4, PublishQueued, PublishPrepared, PublishCrash DEF NoneSucceeds
<1>5. CASE \E a \in Publications : Publish!Fails(a) \/ Publish!Adapter(a)
  BY <1>5, AttemptWorks
<1> QED BY <1>1, <1>2, <1>3, <1>4, <1>5 DEF Publish!Next

(* What an attempt works on is what the user saw when consenting, and a    *)
(* consent was used by no other: a grant is consumed with the content it   *)
(* was given for, whatever was edited, retried or cut off in between.      *)
THEOREM PublishedAsConsented == Publish!Spec => []ConsentCoversPublish
<1>1. Publish!Init => PublishInv
  BY PublishBegin
<1>2. PublishInv /\ [Publish!Next]_publishVars => PublishInv'
  BY PublishStep
<1>3. PublishInv => ConsentCoversPublish
  BY DEF PublishInv, ConsentsSpent, ConsentCoversPublish,
     Publish!ConsentCoversPublish
<1>4. ASSUME [Publish!Next]_(Publish!vars) PROVE [Publish!Next]_publishVars
  BY <1>4 DEF publishVars, Publish!vars, Publish!host
<1>5. PublishInv /\ [Publish!Next]_(Publish!vars) => PublishInv'
  BY <1>2, <1>4
<1> QED BY <1>1, <1>3, <1>5, PTL DEF Publish!Spec

(* A publish that reports success has its commit at the head of an open    *)
(* pull request of its content, in a repository of this project, though    *)
(* others push, merge and close between its calls.                         *)
THEOREM ReceiptsAreTrue == Publish!Spec => ReceiptIsTrue
<1>1. Publish!Init => PublishInv
  BY PublishBegin
<1>2. ASSUME [Publish!Next]_(Publish!vars) PROVE [Publish!Next]_publishVars
  BY <1>2 DEF publishVars, Publish!vars, Publish!host
<1>3. PublishInv /\ [Publish!Next]_(Publish!vars) => PublishInv'
  BY <1>2, PublishStep
<1>4. PublishInv /\ [Publish!Next]_(Publish!vars) =>
        [\A a \in Publications :
           publication[a].step # "succeeded"
             /\ publication'[a].step = "succeeded" =>
           /\ publication[a].commit.content = given[publication[a].consent]
           /\ publication[a].base # Publish!Foreign
           /\ \E p \in remote'.pulls :
                p.open /\ p.content = publication[a].content
                  /\ p.head = publication[a].commit]_(Publish!vars)
  BY <1>2, PublishStep DEF Receipt
<1> QED BY <1>1, <1>3, <1>4, PTL DEF Publish!Spec, ReceiptIsTrue,
       Publish!ReceiptIsTrue
-----------------------------------------------------------------------------
(* The crash diagnostics.                                                  *)

Past == 1..captured
Waits == [kind : Crash!Kinds, by : Reports \cup {Nobody}]

CrashTyped ==
  /\ files \in [events : SUBSET Crash!Events, user : Crash!Users,
                delivery : Crash!Deliveries]
  /\ diagnostics \in
       [running : BOOLEAN, events : SUBSET Crash!Events, user : Crash!Users,
        delivery : Crash!Deliveries, withdrawn : BOOLEAN, cleanup : BOOLEAN,
        reporter : Reports \cup {Nobody}]
  /\ operations \in Seq(Waits)
  /\ erasing \in Crash!Operations \cup {Nobody}
  /\ report \in [Reports -> {"idle", "queued", "calling", "delivered",
                             "failed", "finishing"}]
  /\ bundle \in [Reports -> SUBSET Crash!Events]
  /\ captured \in 0..MaxEvents /\ failed \in BOOLEAN
  /\ erased \subseteq Past /\ acked \subseteq SUBSET Past /\ {} \notin acked
  /\ files.events \subseteq Past /\ diagnostics.events \subseteq Past
  /\ files.delivery.bundle \subseteq Past
  /\ diagnostics.delivery.bundle \subseteq Past
  /\ \A r \in Reports : bundle[r] \subseteq Past
  /\ \A i \in DOMAIN operations :
       operations[i].by \in Reports <=>
         operations[i].kind \in {"report", "finish"}
  /\ ~diagnostics.running =>
       /\ operations = <<>> /\ erasing = Nobody /\ diagnostics = Crash!Off
       /\ \A r \in Reports : report[r] = "idle"

Writes(phase) == erasing # Nobody /\ erasing.phase = phase

\* What a running operation is about to write.
EventsFit ==
  /\ erasing.kind = "capture" /\ erasing.by = Nobody
  /\ erasing.payload \subseteq Past /\ captured \in erasing.payload
  /\ captured \notin diagnostics.events
  /\ captured \notin diagnostics.delivery.bundle
  /\ \A r \in Reports : captured \notin bundle[r]
  /\ \A b \in acked : captured \notin b
DeliveryFits ==
  /\ erasing.by \in Reports /\ diagnostics.reporter = Nobody
  /\ erasing.payload \in Crash!Deliveries
  /\ erasing.payload.bundle \subseteq Past
  /\ erasing.payload.bundle # {}
  /\ \/ /\ erasing.kind = "report"
        /\ erasing.payload = Crash!Pending(erasing.payload.bundle)
        /\ Crash!Retried =>
             erasing.payload.bundle = diagnostics.delivery.bundle
     \/ /\ erasing.kind = "finish"
        /\ erasing.payload = Crash!Delivered(bundle[erasing.by])
WriteFits ==
  /\ Writes("events") => EventsFit
  /\ Writes("delivery") => DeliveryFits
  /\ Writes("consent") =>
       \/ /\ erasing.kind = "deny" /\ erasing.payload = "denied"
       \/ /\ erasing.kind = "grant" /\ erasing.payload = "granted"
          /\ ~diagnostics.cleanup
  /\ Writes("erase") =>
       \/ erasing.kind = "deny" /\ erasing.payload = "denied"
       \/ /\ erasing.kind = "grant" /\ erasing.payload = "granted"
          /\ diagnostics.cleanup
       \/ erasing.kind = "delete" /\ erasing.payload = Nobody
  /\ Writes("consent") \/ Writes("erase") => erasing.by = Nobody
  /\ erasing # Nobody /\ erasing.kind = "deny" => diagnostics.user = "denied"

(* No event that was erased is kept anywhere, or about to be written.      *)
HoldsOf(s) ==
  s.events \cup (IF s.delivery.state = "pending"
                 THEN s.delivery.bundle ELSE {})
Gone ==
  /\ HoldsOf(files) \cap erased = {} /\ HoldsOf(diagnostics) \cap erased = {}
  /\ Writes("events") => erasing.payload \cap erased = {}
  /\ Writes("delivery") /\ erasing.kind = "report" =>
       erasing.payload.bundle \cap erased = {}

(* Unless a refusal waits or is being carried out, or its erase is to be   *)
(* made up for, the files are as the memory.                               *)
Refusing ==
  \/ \E i \in DOMAIN operations : operations[i].kind = "deny"
  \/ erasing # Nobody /\ erasing.kind = "deny"
FilesAgree ==
  /\ diagnostics.cleanup => diagnostics.user = "denied"
  /\ diagnostics.running /\ ~failed =>
       /\ ~(Writes("consent") /\ erasing.kind = "deny") =>
            files.user = diagnostics.user
       /\ ~Refusing /\ ~diagnostics.cleanup =>
            /\ files.events = diagnostics.events
            /\ files.delivery = diagnostics.delivery

(* Events whose delivery was recorded are only there with the record of    *)
(* it, in the memory and on disk.                                          *)
Reporting ==
  \/ diagnostics.delivery.state = "pending" \/ Writes("delivery")
  \/ diagnostics.reporter # Nobody
Recorded ==
  /\ diagnostics.events \in acked =>
       diagnostics.delivery = Crash!Delivered(diagnostics.events)
  /\ files.events \in acked
       /\ (diagnostics.running \/ files.user = "granted") =>
       /\ files.delivery = Crash!Delivered(files.events)
       /\ diagnostics.running => diagnostics.events \in {files.events, {}}
  /\ Reporting => diagnostics.events \notin acked /\ files.events \notin acked
  /\ \A s \in {files, diagnostics} :
       s.delivery.state = "pending" => s.delivery.bundle \notin acked
  /\ Writes("delivery") /\ erasing.kind = "report" =>
       erasing.payload.bundle \notin acked
  /\ diagnostics.reporter # Nobody => bundle[diagnostics.reporter] # {}

(* When a save failed after its rename, the file has an event that nothing *)
(* else has.                                                               *)
Ahead ==
  diagnostics.running /\ files.events # {}
    /\ diagnostics.events \notin {files.events, {}} =>
    \E e \in files.events :
      /\ e \notin diagnostics.events /\ e \notin diagnostics.delivery.bundle
      /\ \A r \in Reports : e \notin bundle[r]
      /\ Writes("delivery") => e \notin erasing.payload.bundle

CrashInv ==
  /\ CrashTyped /\ WriteFits /\ Gone /\ FilesAgree /\ Recorded /\ Ahead

\* A call of the sink starts with a bundle whose delivery was not recorded,
\* the one on disk, and a retry with the one it had.
Offers ==
  \A r \in Reports :
    report[r] # "calling" /\ report'[r] = "calling" =>
      /\ bundle'[r] \notin acked
      /\ files'.delivery.bundle = bundle'[r]
      /\ Crash!Retried => bundle'[r] = diagnostics.delivery.bundle

CrashKept == CrashInv' /\ Offers

LEMMA CrashStart ==
  ASSUME Crash!Init
  PROVE  CrashInv
<1>1. /\ files = [events |-> {}, user |-> "unknown",
                  delivery |-> Crash!Nothing]
      /\ diagnostics = Crash!Off /\ operations = <<>> /\ erasing = Nobody
      /\ report = [r \in Reports |-> "idle"]
      /\ bundle = [r \in Reports |-> {}]
      /\ captured = 0 /\ erased = {} /\ acked = {} /\ failed = FALSE
  BY DEF Crash!Init
<1>2. Crash!Nothing \in Crash!Deliveries
  BY DEF Crash!Nothing, Crash!Deliveries
<1>3. CrashTyped
  <2>1. <<>> \in Seq(Waits)
    OBVIOUS
  <2>2. DOMAIN <<>> = {} /\ captured \in 0..MaxEvents
    BY <1>1, NumbersAssumption
  <2> QED
    BY <1>1, <1>2, <2>1, <2>2
       DEF CrashTyped, Past, Crash!Off, Crash!Users, Crash!Nothing
<1>4. WriteFits /\ Gone /\ FilesAgree
  BY <1>1
     DEF WriteFits, EventsFit, DeliveryFits, Writes, Gone, HoldsOf,
         FilesAgree, Crash!Off,
         Crash!Nothing
<1>5. Recorded /\ Ahead
  BY <1>1
     DEF Recorded, Reporting, Writes, Ahead, Crash!Off, Crash!Nothing
<1> QED BY <1>3, <1>4, <1>5 DEF CrashInv

(* What the invariant depends on beside the queue and the callers.         *)
LEMMA CrashSame ==
  ASSUME CrashInv, CrashTyped',
         UNCHANGED <<files, diagnostics, erasing, bundle, captured, erased,
                     acked, failed>>,
         \A i \in DOMAIN operations :
           operations[i].kind = "deny" =>
             \E j \in DOMAIN operations' : operations'[j].kind = "deny"
  PROVE  CrashInv'
<1>1. WriteFits'
  BY
     DEF CrashInv, WriteFits, EventsFit, DeliveryFits, Writes, Past,
         Crash!Retried
<1>2. Gone'
  BY DEF CrashInv, Gone, Writes, HoldsOf
<1>3. FilesAgree'
  BY DEF CrashInv, FilesAgree, Refusing, Writes
<1>4. Recorded'
  BY DEF CrashInv, Recorded, Reporting, Writes
<1>5. Ahead'
  BY DEF CrashInv, Ahead, Writes
<1> QED BY <1>1, <1>2, <1>3, <1>4, <1>5 DEF CrashInv

LEMMA QueueGrows ==
  ASSUME CrashTyped,
         NEW e \in Waits,
         operations' = Append(operations, e)
  PROVE  /\ operations' \in Seq(Waits)
         /\ \E j \in DOMAIN operations' : operations'[j] = e
         /\ \A i \in DOMAIN operations :
              i \in DOMAIN operations' /\ operations'[i] = operations[i]
         /\ \A i \in DOMAIN operations' :
              \/ i \in DOMAIN operations /\ operations'[i] = operations[i]
              \/ operations'[i] = e
<1>1. operations \in Seq(Waits)
  BY DEF CrashTyped
<1>2. /\ operations' \in Seq(Waits)
      /\ Len(operations') = Len(operations) + 1
      /\ operations'[Len(operations) + 1] = e
      /\ \A i \in 1..Len(operations) : operations'[i] = operations[i]
      /\ DOMAIN operations' = 1..Len(operations')
      /\ DOMAIN operations = 1..Len(operations)
      /\ Len(operations) \in Nat
  BY <1>1
<1> QED BY <1>2

LEMMA QueueShrinks ==
  ASSUME CrashTyped, operations # <<>>, operations' = Tail(operations)
  PROVE  /\ operations' \in Seq(Waits)
         /\ Head(operations) \in Waits
         /\ 1 \in DOMAIN operations /\ Head(operations) = operations[1]
         /\ \A i \in DOMAIN operations :
              i = 1 \/ \E j \in DOMAIN operations' :
                         operations'[j] = operations[i]
         /\ \A j \in DOMAIN operations' :
              \E i \in DOMAIN operations : operations'[j] = operations[i]
<1>1. operations \in Seq(Waits)
  BY DEF CrashTyped
<1>2. /\ operations' \in Seq(Waits)
      /\ Head(operations) = operations[1]
      /\ Len(operations') = Len(operations) - 1
      /\ DOMAIN operations' = 1..Len(operations')
      /\ DOMAIN operations = 1..Len(operations)
      /\ \A j \in 1..Len(operations') :
           operations'[j] = operations[j + 1]
      /\ Len(operations) \in Nat \ {0}
  BY <1>1
<1>3. 1 \in DOMAIN operations
        /\ operations[1] \in Waits
  BY <1>1, <1>2
<1>4. ASSUME NEW i \in DOMAIN operations, i # 1
      PROVE  \E j \in DOMAIN operations' : operations'[j] = operations[i]
  <2>1. i - 1 \in DOMAIN operations' /\ operations'[i - 1] = operations[i]
    BY <1>2, <1>4
  <2> QED BY <2>1
<1>5. ASSUME NEW j \in DOMAIN operations'
      PROVE  \E i \in DOMAIN operations : operations'[j] = operations[i]
  <2>1. j + 1 \in DOMAIN operations /\ operations'[j] = operations[j + 1]
    BY <1>2
  <2> QED BY <2>1
<1> QED BY <1>2, <1>3, <1>4, <1>5

LEMMA CallsKeep ==
  ASSUME CrashInv,
         \/ Crash!Ask
         \/ \E r \in Reports : \/ Crash!Report(r) \/ Crash!SinkAccepts(r)
                              \/ Crash!SinkFails(r) \/ Crash!Returns(r)
  PROVE  CrashKept
<1>0. CrashTyped
  BY DEF CrashInv
<1>1. ASSUME NEW kind \in Crash!Kinds \ {"deny"},
             NEW by \in Reports \cup {Nobody},
             by \in Reports <=> kind \in {"report", "finish"},
             operations' = Append(operations, Crash!Entry(kind, by)),
             diagnostics.running,
             report' \in [Reports -> {"idle", "queued", "calling",
                                     "delivered", "failed", "finishing"}],
             \A r \in Reports : report'[r] = "calling" =>
               report[r] = "calling",
             UNCHANGED <<files, diagnostics, erasing, bundle, captured,
                         erased, acked, failed>>
      PROVE  CrashKept
  <2> DEFINE e == Crash!Entry(kind, by)
  <2>1. e \in Waits /\ e.kind = kind /\ e.by = by
    BY DEF Crash!Entry, Waits
  <2>2. operations' = Append(operations, e)
    BY <1>1
  <2> HIDE DEF e
  <2>3. CrashTyped'
    BY <1>0, <1>1, <2>1, <2>2, QueueGrows DEF CrashTyped, Past
  <2>4. CrashInv'
    BY <1>0, <1>1, <2>1, <2>2, <2>3, QueueGrows, CrashSame
  <2> QED BY <1>1, <2>4 DEF CrashKept, Offers
<1>2. CASE Crash!Ask
  <2>1. PICK kind \in {"capture", "grant", "delete"} :
          operations' = Append(operations, Crash!Entry(kind, Nobody))
    BY <1>2 DEF Crash!Ask, Crash!Enqueue
  <2>2. /\ diagnostics.running
        /\ UNCHANGED <<files, diagnostics, erasing, report, bundle, captured,
                       erased, acked, failed>>
    BY <1>2 DEF Crash!Ask, Crash!Room, Crash!histories
  <2>3. report' = report /\ report' \in [Reports ->
          {"idle", "queued", "calling", "delivered", "failed", "finishing"}]
    BY <1>0, <2>2 DEF CrashTyped
  <2>4. kind \in Crash!Kinds \ {"deny"} /\ Nobody \notin Reports
    BY NobodyAssumption DEF Crash!Kinds
  <2> QED BY <1>1, <2>1, <2>2, <2>3, <2>4
<1>3. ASSUME NEW r \in Reports,
             Crash!Report(r) \/ Crash!Returns(r)
      PROVE  CrashKept
  <2>1. PICK kind \in {"report", "finish"} :
          operations' = Append(operations, Crash!Entry(kind, r))
    BY <1>3 DEF Crash!Report, Crash!Returns, Crash!Enqueue
  <2>2. /\ diagnostics.running
        /\ report' = report \/ report' = [report EXCEPT ![r] = "queued"]
        /\ UNCHANGED <<files, diagnostics, erasing, bundle, captured,
                       erased, acked, failed>>
    BY <1>0, <1>3
       DEF Crash!Report, Crash!Returns, Crash!Room, Crash!histories,
           CrashTyped
  <2>3. /\ report' \in [Reports ->
             {"idle", "queued", "calling", "delivered", "failed",
              "finishing"}]
        /\ \A q \in Reports : report'[q] = "calling" =>
             report[q] = "calling"
    BY <1>0, <2>2 DEF CrashTyped
  <2>4. kind \in Crash!Kinds \ {"deny"}
    BY DEF Crash!Kinds
  <2> QED BY <1>1, <2>1, <2>2, <2>3, <2>4
<1>4. ASSUME NEW r \in Reports,
             Crash!SinkAccepts(r) \/ Crash!SinkFails(r)
      PROVE  CrashKept
  <2>1. /\ report[r] = "calling"
        /\ \/ report' = [report EXCEPT ![r] = "delivered"]
           \/ report' = [report EXCEPT ![r] = "failed"]
        /\ UNCHANGED <<files, diagnostics, operations, erasing, bundle,
                       captured, erased, acked, failed>>
    BY <1>4 DEF Crash!SinkAccepts, Crash!SinkFails, Crash!histories
  <2>2. /\ report' \in [Reports ->
             {"idle", "queued", "calling", "delivered", "failed",
              "finishing"}]
        /\ \A q \in Reports : report'[q] = "calling" =>
             report[q] = "calling"
        /\ diagnostics.running
    BY <1>0, <2>1 DEF CrashTyped
  <2>3. CrashTyped'
    BY <1>0, <2>1, <2>2 DEF CrashTyped, Past
  <2> QED
    BY <2>1, <2>2, <2>3, CrashSame DEF CrashKept, Offers
<1> QED BY <1>2, <1>3, <1>4

LEMMA WaitPasses ==
  ASSUME NEW d \in Crash!Deliveries
  PROVE  /\ [d EXCEPT !.wait = FALSE] \in Crash!Deliveries
         /\ [d EXCEPT !.wait = FALSE].state = d.state
         /\ [d EXCEPT !.wait = FALSE].bundle = d.bundle
         /\ \A b : d = Crash!Delivered(b) => [d EXCEPT !.wait = FALSE] = d
<1> DEFINE y == [d EXCEPT !.wait = FALSE]
<1>1. /\ y \in Crash!Deliveries /\ y.state = d.state
      /\ y.bundle = d.bundle /\ y.wait = FALSE
  BY DEF Crash!Deliveries
<1> HIDE DEF y
<1>2. ~d.wait => y = d
  BY <1>1 DEF Crash!Deliveries
<1>3. \A b : Crash!Delivered(b).wait = FALSE
  BY DEF Crash!Delivered
<1> QED BY <1>1, <1>2, <1>3 DEF y

LEMMA BackoffKeeps ==
  ASSUME CrashInv, Crash!BackoffEnds
  PROVE  CrashKept
<1> DEFINE fd == [files.delivery EXCEPT !.wait = FALSE]
           dd == [diagnostics.delivery EXCEPT !.wait = FALSE]
<1>0. /\ CrashTyped
      /\ files.delivery \in Crash!Deliveries
      /\ diagnostics.delivery \in Crash!Deliveries
  BY DEF CrashInv, CrashTyped
<1>1. /\ files' = [files EXCEPT !.delivery = fd]
      /\ diagnostics' = [diagnostics EXCEPT !.delivery = dd]
  BY Zenon DEF Crash!BackoffEnds
<1>2. /\ UNCHANGED <<operations, erasing, report, bundle, captured, erased,
                     acked, failed>>
      /\ diagnostics.delivery.wait \/ files.delivery.wait
  BY DEF Crash!BackoffEnds, Crash!histories
<1>3. /\ fd \in Crash!Deliveries /\ dd \in Crash!Deliveries
      /\ fd.state = files.delivery.state
      /\ dd.state = diagnostics.delivery.state
      /\ fd.bundle = files.delivery.bundle
      /\ dd.bundle = diagnostics.delivery.bundle
      /\ \A b : files.delivery = Crash!Delivered(b) => fd = files.delivery
      /\ \A b : diagnostics.delivery = Crash!Delivered(b) =>
           dd = diagnostics.delivery
      /\ files.delivery = diagnostics.delivery => fd = dd
  BY <1>0, WaitPasses
<1> HIDE DEF fd, dd
<1>4. /\ files'.delivery = fd /\ diagnostics'.delivery = dd
      /\ files'.events = files.events /\ files'.user = files.user
      /\ diagnostics'.events = diagnostics.events
      /\ diagnostics'.running = diagnostics.running
      /\ diagnostics'.user = diagnostics.user
      /\ diagnostics'.withdrawn = diagnostics.withdrawn
      /\ diagnostics'.cleanup = diagnostics.cleanup
      /\ diagnostics'.reporter = diagnostics.reporter
  BY <1>0, <1>1 DEF CrashTyped
<1>5. CrashTyped'
  <2>1. ~diagnostics.running => diagnostics' = diagnostics
    BY <1>0, <1>1 DEF CrashTyped, Crash!Off, Crash!Nothing, dd
  <2> QED BY <1>0, <1>1, <1>2, <1>3, <1>4, <2>1 DEF CrashTyped, Past
<1>6. WriteFits'
  BY <1>2, <1>3, <1>4
     DEF CrashInv, WriteFits, EventsFit, DeliveryFits, Writes, Past,
         Crash!Retried
<1>7. Gone'
  BY <1>2, <1>3, <1>4 DEF CrashInv, Gone, HoldsOf, Writes
<1>8. FilesAgree'
  BY <1>2, <1>3, <1>4 DEF CrashInv, FilesAgree, Refusing, Writes
<1>9. Recorded'
  BY <1>2, <1>3, <1>4 DEF CrashInv, Recorded, Reporting, Writes
<1>10. Ahead'
  BY <1>2, <1>3, <1>4 DEF CrashInv, Ahead, Writes
<1> QED
  BY <1>2, <1>5, <1>6, <1>7, <1>8, <1>9, <1>10
     DEF CrashKept, CrashInv, Offers

LEMMA NothingTyped ==
  /\ Crash!Nothing \in Crash!Deliveries /\ Crash!Nothing.state = "none"
  /\ Crash!Nothing.bundle = {}
BY DEF Crash!Nothing, Crash!Deliveries

(* A refusal acts on the memory at once.                                   *)
LEMMA DenyKeeps ==
  ASSUME CrashInv, Crash!Deny
  PROVE  CrashKept
<1> DEFINE e == Crash!Entry("deny", Nobody)
           d == [diagnostics EXCEPT !.withdrawn = TRUE, !.events = {},
                                    !.delivery = Crash!Nothing,
                                    !.reporter = Nobody]
<1>0. CrashTyped
  BY DEF CrashInv
<1>1. /\ diagnostics.running /\ diagnostics' = d
      /\ operations' = Append(operations, e)
      /\ UNCHANGED <<files, erasing, bundle, captured, erased, acked, failed>>
  BY DEF Crash!Deny, Crash!Room, Crash!Enqueue
<1>2. report' = [r \in Reports |->
                   IF r = diagnostics.reporter /\ report[r] = "calling"
                   THEN "failed" ELSE report[r]]
  BY DEF Crash!Deny
<1>3. /\ d.events = {} /\ d.delivery = Crash!Nothing /\ d.reporter = Nobody
      /\ d.running = diagnostics.running /\ d.user = diagnostics.user
      /\ d.cleanup = diagnostics.cleanup
      /\ d \in [running : BOOLEAN, events : SUBSET Crash!Events,
                user : Crash!Users, delivery : Crash!Deliveries,
                withdrawn : BOOLEAN, cleanup : BOOLEAN,
                reporter : Reports \cup {Nobody}]
  BY <1>0, NothingTyped DEF CrashTyped
<1> HIDE DEF d
<1>4. e \in Waits /\ e.kind = "deny" /\ e.by \notin Reports
  BY NobodyAssumption DEF Crash!Entry, Waits, Crash!Kinds
<1> HIDE DEF e
<1>5. /\ report' \in [Reports -> {"idle", "queued", "calling", "delivered",
                                  "failed", "finishing"}]
      /\ \A r \in Reports : report'[r] = "calling" => report[r] = "calling"
  BY <1>0, <1>2 DEF CrashTyped
<1>6. CrashTyped'
  BY <1>0, <1>1, <1>3, <1>4, <1>5, NothingTyped, QueueGrows
     DEF CrashTyped, Past
<1>7. WriteFits'
  BY <1>0, <1>1, <1>3, NothingTyped
     DEF CrashInv, CrashTyped, WriteFits, EventsFit, DeliveryFits, Writes,
         Past, Crash!Retried
<1>8. Gone'
  BY <1>1, <1>3, NothingTyped DEF CrashInv, Gone, HoldsOf, Writes
<1>9. FilesAgree'
  <2>1. \E i \in DOMAIN operations' : operations'[i].kind = "deny"
    BY <1>0, <1>1, <1>4, QueueGrows
  <2> QED BY <1>1, <1>3, <2>1 DEF CrashInv, FilesAgree, Refusing, Writes
<1>10. Recorded'
  BY <1>0, <1>1, <1>3, NothingTyped
     DEF CrashInv, CrashTyped, Recorded, Reporting, Writes
<1>11. Ahead'
  BY <1>1, <1>3 DEF Ahead
<1> QED
  BY <1>5, <1>6, <1>7, <1>8, <1>9, <1>10, <1>11
     DEF CrashKept, CrashInv, Offers

-----------------------------------------------------------------------------
(* The process starts and dies.                                            *)

LEMMA EmptiedFiles ==
  ASSUME CrashTyped
  PROVE  /\ Crash!Emptied(files).events = {}
         /\ Crash!Emptied(files).delivery = Crash!Nothing
         /\ Crash!Emptied(files).user = files.user
         /\ Crash!Emptied(files) \in
              [events : SUBSET Crash!Events, user : Crash!Users,
               delivery : Crash!Deliveries]
         /\ [files EXCEPT !.events = {}].events = {}
         /\ [files EXCEPT !.events = {}].delivery = files.delivery
         /\ [files EXCEPT !.events = {}].user = files.user
         /\ [files EXCEPT !.events = {}] \in
              [events : SUBSET Crash!Events, user : Crash!Users,
               delivery : Crash!Deliveries]
         /\ [files EXCEPT !.delivery = Crash!Nothing].events = files.events
         /\ [files EXCEPT !.delivery = Crash!Nothing].delivery
              = Crash!Nothing
         /\ [files EXCEPT !.delivery = Crash!Nothing].user = files.user
         /\ [files EXCEPT !.delivery = Crash!Nothing] \in
              [events : SUBSET Crash!Events, user : Crash!Users,
               delivery : Crash!Deliveries]
<1> USE NothingTyped
<1>1. files \in [events : SUBSET Crash!Events, user : Crash!Users,
                 delivery : Crash!Deliveries]
  BY DEF CrashTyped
<1>2. [files EXCEPT !.events = {}] \in
        [events : SUBSET Crash!Events, user : Crash!Users,
         delivery : Crash!Deliveries]
  BY <1>1
<1>3. [files EXCEPT !.delivery = Crash!Nothing] \in
        [events : SUBSET Crash!Events, user : Crash!Users,
         delivery : Crash!Deliveries]
  BY <1>1
<1>4. Crash!Emptied(files) \in
        [events : SUBSET Crash!Events, user : Crash!Users,
         delivery : Crash!Deliveries]
  BY <1>1 DEF Crash!Emptied
<1> QED BY <1>1, <1>2, <1>3, <1>4 DEF Crash!Emptied

LEMMA InitializeKeeps ==
  ASSUME CrashInv, Crash!Initialize
  PROVE  CrashKept
<1>0. CrashTyped
  BY DEF CrashInv
<1>1. /\ ~diagnostics.running /\ failed' = FALSE
      /\ UNCHANGED <<operations, erasing, report, bundle, captured, erased,
                     acked>>
      /\ files' = IF files.user = "granted" THEN files
                  ELSE Crash!Emptied(files)
      /\ diagnostics' = [Crash!Off EXCEPT !.running = TRUE,
                           !.user = files.user, !.events = files'.events,
                           !.delivery = files'.delivery]
  BY DEF Crash!Initialize, Crash!histories
<1>2. /\ files'.user = files.user
      /\ files.user # "granted" =>
           files'.events = {} /\ files'.delivery = Crash!Nothing
      /\ files.user = "granted" => files' = files
      /\ files' \in [events : SUBSET Crash!Events, user : Crash!Users,
                     delivery : Crash!Deliveries]
  BY <1>0, <1>1, EmptiedFiles DEF CrashTyped
<1>3. /\ diagnostics'.running /\ diagnostics'.user = files.user
      /\ diagnostics'.events = files'.events
      /\ diagnostics'.delivery = files'.delivery
      /\ ~diagnostics'.cleanup /\ diagnostics'.reporter = Nobody
      /\ diagnostics' \in
           [running : BOOLEAN, events : SUBSET Crash!Events,
            user : Crash!Users, delivery : Crash!Deliveries,
            withdrawn : BOOLEAN, cleanup : BOOLEAN,
            reporter : Reports \cup {Nobody}]
  BY <1>1, <1>2 DEF Crash!Off
<1>4. erasing = Nobody /\ operations = <<>>
  BY <1>0, <1>1 DEF CrashTyped
<1>5. CrashTyped'
  <2>1. /\ files'.events \subseteq Past
        /\ files'.delivery.bundle \subseteq Past
    BY <1>0, <1>2, NothingTyped DEF CrashTyped
  <2>2. /\ operations' \in Seq(Waits)
        /\ erasing' \in Crash!Operations \cup {Nobody}
        /\ report' \in [Reports -> {"idle", "queued", "calling",
                                    "delivered", "failed", "finishing"}]
        /\ bundle' \in [Reports -> SUBSET Crash!Events]
        /\ captured' \in 0..MaxEvents /\ failed' \in BOOLEAN
        /\ erased' \subseteq Past /\ acked' \subseteq SUBSET Past
        /\ {} \notin acked' /\ Past' = Past
        /\ \A r \in Reports : bundle'[r] \subseteq Past
        /\ operations' = <<>>
    BY <1>0, <1>1, <1>4 DEF CrashTyped, Past
  <2> QED BY <1>2, <1>3, <2>1, <2>2 DEF CrashTyped
<1>6. WriteFits'
  BY <1>1, <1>4 DEF WriteFits, EventsFit, DeliveryFits, Writes
<1>7. Gone'
  BY <1>1, <1>2, <1>3, <1>4, NothingTyped DEF CrashInv, Gone, HoldsOf, Writes
<1>8. FilesAgree'
  BY <1>1, <1>2, <1>3 DEF FilesAgree
<1>9. Recorded'
  <2>1. {} \notin acked /\ acked' = acked /\ erasing' = Nobody
    BY <1>0, <1>1, <1>4 DEF CrashTyped
  <2>2. CASE files.user = "granted"
    <3>1. files' = files
      BY <1>2, <2>2
    <3>2. Crash!Delivered(files.events).state = "delivered"
      BY DEF Crash!Delivered
    <3>3. files.events \in acked =>
            files.delivery = Crash!Delivered(files.events)
      BY <2>2 DEF CrashInv, Recorded
    <3>4. files.delivery.state = "pending" =>
            files.delivery.bundle \notin acked
      BY DEF CrashInv, Recorded
    <3> QED
      BY <1>3, <2>1, <3>1, <3>2, <3>3, <3>4 DEF Recorded, Reporting, Writes
  <2>3. CASE files.user # "granted"
    BY <1>2, <1>3, <2>1, <2>3, NothingTyped DEF Recorded, Reporting, Writes
  <2> QED BY <2>2, <2>3
<1>10. Ahead'
  BY <1>3 DEF Ahead
<1> QED
  BY <1>1, <1>5, <1>6, <1>7, <1>8, <1>9, <1>10
     DEF CrashKept, CrashInv, Offers

LEMMA InitializeFailsKeeps ==
  ASSUME CrashInv, Crash!InitializeFails
  PROVE  CrashKept
<1>0. CrashTyped
  BY DEF CrashInv
<1>1. /\ ~diagnostics.running /\ files.user # "granted"
      /\ files' \in {[files EXCEPT !.events = {}],
                     [files EXCEPT !.delivery = Crash!Nothing]}
      /\ UNCHANGED <<diagnostics, operations, erasing, report, bundle,
                     captured, erased, acked, failed>>
  BY DEF Crash!InitializeFails, Crash!histories
<1>2. /\ files'.user = files.user
      /\ files'.events = {} \/ files'.events = files.events
      /\ files'.delivery = Crash!Nothing \/ files'.delivery = files.delivery
      /\ files' \in [events : SUBSET Crash!Events, user : Crash!Users,
                     delivery : Crash!Deliveries]
  BY <1>0, <1>1, EmptiedFiles
<1>3. /\ erasing = Nobody /\ diagnostics = Crash!Off
      /\ Crash!Off.delivery = Crash!Nothing /\ Crash!Off.events = {}
      /\ Crash!Off.reporter = Nobody
  BY <1>0, <1>1 DEF CrashTyped, Crash!Off
<1>4. CrashTyped'
  BY <1>0, <1>1, <1>2, NothingTyped DEF CrashTyped, Past
<1>5. WriteFits' /\ FilesAgree' /\ Ahead'
  BY <1>1, <1>3
     DEF CrashInv, WriteFits, EventsFit, DeliveryFits, Writes, FilesAgree,
         Ahead
<1>6. Gone'
  BY <1>1, <1>2, <1>3, NothingTyped DEF CrashInv, Gone, HoldsOf, Writes
<1>7. Recorded'
  BY <1>0, <1>1, <1>2, <1>3, NothingTyped
     DEF CrashInv, CrashTyped, Recorded, Reporting, Writes
<1> QED
  BY <1>1, <1>4, <1>5, <1>6, <1>7 DEF CrashKept, CrashInv, Offers

\* The files, and what one write makes of them.
Files == [events : SUBSET Crash!Events, user : Crash!Users,
          delivery : Crash!Deliveries]

LEMMA Written ==
  ASSUME CrashTyped
  PROVE  /\ \A x \in SUBSET Crash!Events :
              /\ [files EXCEPT !.events = x] \in Files
              /\ [files EXCEPT !.events = x].events = x
              /\ [files EXCEPT !.events = x].user = files.user
              /\ [files EXCEPT !.events = x].delivery = files.delivery
         /\ \A x \in Crash!Deliveries :
              /\ [files EXCEPT !.delivery = x] \in Files
              /\ [files EXCEPT !.delivery = x].events = files.events
              /\ [files EXCEPT !.delivery = x].user = files.user
              /\ [files EXCEPT !.delivery = x].delivery = x
         /\ \A x \in Crash!Users :
              /\ [files EXCEPT !.user = x] \in Files
              /\ [files EXCEPT !.user = x].events = files.events
              /\ [files EXCEPT !.user = x].user = x
              /\ [files EXCEPT !.user = x].delivery = files.delivery
<1>1. files \in Files
  BY DEF CrashTyped, Files
<1> QED BY <1>1 DEF Files

LEMMA PastEvents ==
  ASSUME CrashTyped
  PROVE  Past \subseteq Crash!Events
BY NumbersAssumption DEF CrashTyped, Past, Crash!Events

\* What the files may hold when the process dies, after a save that was done
\* or not.
Survives(f) ==
  /\ f \in Files /\ f.events \subseteq Past /\ f.delivery.bundle \subseteq Past
  /\ HoldsOf(f) \cap erased = {}
  /\ f.events \in acked => f.delivery = Crash!Delivered(f.events)
  /\ f.delivery.state = "pending" => f.delivery.bundle \notin acked

LEMMA WritesSurvive ==
  ASSUME CrashInv, diagnostics.running
  PROVE  /\ Survives(files)
         /\ Writes("events") =>
              Survives([files EXCEPT !.events = erasing.payload])
         /\ Writes("delivery") =>
              Survives([files EXCEPT !.delivery = erasing.payload])
         /\ Writes("consent") =>
              Survives([files EXCEPT !.user = erasing.payload])
<1>0. CrashTyped /\ WriteFits /\ Gone /\ Recorded
  BY DEF CrashInv
<1>1. Survives(files)
  BY <1>0 DEF Survives, Files, CrashTyped, Gone, Recorded
<1>2. ASSUME Writes("events")
      PROVE  Survives([files EXCEPT !.events = erasing.payload])
  <2> DEFINE f == [files EXCEPT !.events = erasing.payload]
  <2>1. /\ erasing.payload \in SUBSET Crash!Events
        /\ erasing.payload \in SUBSET Past /\ erasing.payload \notin acked
    BY <1>0, <1>2, PastEvents DEF WriteFits, EventsFit, DeliveryFits
  <2>2. erasing.payload \cap erased = {}
    BY <1>0, <1>2 DEF Gone
  <2>3. /\ f \in Files /\ f.events = erasing.payload
        /\ f.delivery = files.delivery
    BY <1>0, <2>1, Written
  <2> HIDE DEF f
  <2>4. Survives(f)
    BY <1>1, <2>1, <2>2, <2>3 DEF Survives, HoldsOf
  <2> QED BY <2>4 DEF f
<1>3. ASSUME Writes("delivery")
      PROVE  Survives([files EXCEPT !.delivery = erasing.payload])
  <2> DEFINE f == [files EXCEPT !.delivery = erasing.payload]
  <2>1. /\ erasing.payload \in Crash!Deliveries
        /\ erasing.payload.bundle \in SUBSET Past
        /\ \/ erasing.kind = "report"
           \/ erasing.payload.state = "delivered"
    BY <1>0, <1>3 DEF WriteFits, EventsFit, DeliveryFits, Crash!Delivered
  <2>2. /\ erasing.kind = "report" =>
             /\ erasing.payload.bundle \cap erased = {}
             /\ erasing.payload.bundle \notin acked
        /\ files.events \notin acked
    BY <1>0, <1>3 DEF Gone, Recorded, Reporting
  <2>3. /\ f \in Files /\ f.events = files.events
        /\ f.delivery = erasing.payload
    BY <1>0, <2>1, Written
  <2> HIDE DEF f
  <2>4. Survives(f)
    BY <1>1, <2>1, <2>2, <2>3 DEF Survives, HoldsOf
  <2> QED BY <2>4 DEF f
<1>4. ASSUME Writes("consent")
      PROVE  Survives([files EXCEPT !.user = erasing.payload])
  <2> DEFINE f == [files EXCEPT !.user = erasing.payload]
  <2>1. erasing.payload \in Crash!Users
    BY <1>0, <1>4 DEF WriteFits, EventsFit, DeliveryFits, Crash!Users
  <2>2. /\ f \in Files /\ f.events = files.events
        /\ f.delivery = files.delivery
    BY <1>0, <2>1, Written
  <2> HIDE DEF f
  <2>3. Survives(f)
    BY <1>1, <2>2 DEF Survives, HoldsOf
  <2> QED BY <2>3 DEF f
<1> QED BY <1>1, <1>2, <1>3, <1>4

LEMMA DiagnosticsCrashKeeps ==
  ASSUME CrashInv, Crash!Crash
  PROVE  CrashKept
<1>0. CrashTyped
  BY DEF CrashInv
<1>1. /\ diagnostics.running /\ diagnostics' = Crash!Off
      /\ operations' = <<>> /\ erasing' = Nobody
      /\ report' = [r \in Reports |-> "idle"] /\ failed' = FALSE
      /\ UNCHANGED <<bundle, captured, erased>>
      /\ acked' = IF Writes("erase") THEN {} ELSE acked
  BY DEF Crash!Crash, Crash!At, Writes
<1>2. /\ files' \in Files /\ files'.events \subseteq Past
      /\ files'.delivery.bundle \subseteq Past
      /\ HoldsOf(files') \cap erased = {}
      /\ files'.events \in acked' =>
           files'.delivery = Crash!Delivered(files'.events)
      /\ files'.delivery.state = "pending" =>
           files'.delivery.bundle \notin acked'
  <2>1. CASE ~Writes("erase")
    <3>1. \/ files' = files
          \/ /\ Writes("events")
             /\ files' = [files EXCEPT !.events = erasing.payload]
          \/ /\ Writes("delivery")
             /\ files' = [files EXCEPT !.delivery = erasing.payload]
          \/ /\ Writes("consent")
             /\ files' = [files EXCEPT !.user = erasing.payload]
      BY <2>1 DEF Crash!Crash, Crash!At, Writes
    <3>2. Survives(files')
      BY <1>1, <3>1, WritesSurvive
    <3> QED BY <1>1, <2>1, <3>2 DEF Survives
  <2>2. CASE Writes("erase")
    <3>1. \/ files' = files \/ files' = [files EXCEPT !.events = {}]
          \/ files' = [files EXCEPT !.delivery = Crash!Nothing]
      BY <2>2 DEF Crash!Crash, Crash!At, Writes
    <3>2. /\ files' \in Files /\ files'.events \subseteq files.events
          /\ files'.delivery \in {files.delivery, Crash!Nothing}
      BY <1>0, <3>1, EmptiedFiles DEF Files, CrashTyped
    <3>3. Survives(files)
      BY <1>1, WritesSurvive
    <3>4. /\ files'.delivery.bundle \subseteq Past
          /\ HoldsOf(files') \subseteq HoldsOf(files)
      BY <3>2, <3>3, NothingTyped DEF Survives, HoldsOf
    <3> QED BY <1>1, <2>2, <3>2, <3>3, <3>4 DEF Survives
  <2> QED BY <2>1, <2>2
<1>3. /\ Crash!Off.events = {} /\ Crash!Off.delivery = Crash!Nothing
      /\ ~Crash!Off.running /\ Crash!Off.reporter = Nobody
      /\ ~Crash!Off.cleanup
      /\ Crash!Off \in
           [running : BOOLEAN, events : SUBSET Crash!Events,
            user : Crash!Users, delivery : Crash!Deliveries,
            withdrawn : BOOLEAN, cleanup : BOOLEAN,
            reporter : Reports \cup {Nobody}]
  BY NothingTyped DEF Crash!Off, Crash!Users
<1>4. acked' \subseteq acked
  BY <1>1
<1>5. CrashTyped'
  <2>1. operations' \in Seq(Waits) /\ DOMAIN operations' = {}
    BY <1>1
  <2>2. Crash!Off' = Crash!Off
    BY DEF Crash!Off, Crash!Nothing
  <2> QED
    BY <1>0, <1>1, <1>2, <1>3, <1>4, <2>1, <2>2, NothingTyped
       DEF CrashTyped, Past, Files
<1>6. WriteFits' /\ FilesAgree' /\ Ahead'
  BY <1>1, <1>3
     DEF WriteFits, EventsFit, DeliveryFits, Writes, FilesAgree, Ahead
<1>7. Gone'
  <2>1. HoldsOf(files)' = HoldsOf(files')
    BY DEF HoldsOf
  <2>2. HoldsOf(diagnostics)' = {}
    BY <1>1, <1>3, NothingTyped DEF HoldsOf
  <2> QED BY <1>1, <1>2, <2>1, <2>2 DEF Gone, Writes
<1>8. Recorded'
  BY <1>0, <1>1, <1>2, <1>3, <1>4, NothingTyped
     DEF CrashTyped, Recorded, Reporting, Writes
<1> QED
  BY <1>1, <1>5, <1>6, <1>7, <1>8 DEF CrashKept, CrashInv, Offers

-----------------------------------------------------------------------------
(* The operations' turns.                                                  *)

LEMMA WriteStarts ==
  ASSUME NEW e \in Waits, NEW phase \in Crash!Phases,
         NEW payload \in Crash!Payloads(phase),
         erasing' = [kind |-> e.kind, by |-> e.by, phase |-> phase,
                     payload |-> payload]
  PROVE  /\ erasing' \in Crash!Operations /\ erasing' # Nobody
         /\ erasing'.kind = e.kind /\ erasing'.by = e.by
         /\ erasing'.phase = phase /\ erasing'.payload = payload
<1>1. erasing' \in Crash!Operations
  BY DEF Waits, Crash!Operations
<1> QED BY <1>1, RecordsAssumption

LEMMA TurnFacts ==
  ASSUME CrashInv, NEW kind, Crash!Turn(kind), operations' = Tail(operations)
  PROVE  /\ erasing = Nobody /\ diagnostics.running
         /\ Head(operations) \in Waits /\ Head(operations).kind = kind
         /\ Head(operations).by \in Reports <=> kind \in {"report", "finish"}
         /\ Head(operations).by \notin Reports => Head(operations).by = Nobody
         /\ operations' \in Seq(Waits)
         /\ \A i \in DOMAIN operations' :
              operations'[i].by \in Reports <=>
                operations'[i].kind \in {"report", "finish"}
         /\ kind # "deny" =>
              \A i \in DOMAIN operations : operations[i].kind = "deny" =>
                \E j \in DOMAIN operations' : operations'[j].kind = "deny"
<1>1. CrashTyped /\ operations # <<>> /\ erasing = Nobody
      /\ Head(operations).kind = kind
  BY DEF CrashInv, Crash!Turn
<1> QED BY <1>1, QueueShrinks DEF CrashTyped, Waits

LEMMA GrantDeleteKeep ==
  ASSUME CrashInv, Crash!Grant \/ Crash!Delete
  PROVE  CrashKept
<1>0. CrashTyped
  BY DEF CrashInv
<1>1. PICK kind \in {"grant", "delete"}, phase \in {"consent", "erase"},
           payload \in {"granted", Nobody} :
        /\ Crash!Turn(kind) /\ operations' = Tail(operations)
        /\ erasing' = [kind |-> Head(operations).kind,
                       by |-> Head(operations).by,
                       phase |-> phase, payload |-> payload]
        /\ kind = "grant" =>
             /\ payload = "granted"
             /\ phase = IF diagnostics.cleanup THEN "erase" ELSE "consent"
        /\ kind = "delete" => phase = "erase" /\ payload = Nobody
  BY DEF Crash!Grant, Crash!Delete, Crash!Runs
<1>2. UNCHANGED <<files, diagnostics, report, bundle, captured, erased,
                  acked, failed>>
  BY DEF Crash!Grant, Crash!Delete, Crash!histories
<1> DEFINE e == Head(operations)
<1>3. /\ erasing = Nobody /\ diagnostics.running
      /\ e \in Waits /\ e.kind = kind /\ e.by = Nobody
      /\ operations' \in Seq(Waits)
  BY <1>1, TurnFacts
<1>4. /\ erasing' \in Crash!Operations /\ erasing' # Nobody
      /\ erasing'.kind = kind /\ erasing'.by = Nobody
      /\ erasing'.phase = phase /\ erasing'.payload = payload
  <2>1. phase \in Crash!Phases /\ payload \in Crash!Payloads(phase)
    BY <1>1 DEF Crash!Phases, Crash!Payloads
  <2>2. erasing' = [kind |-> e.kind, by |-> e.by, phase |-> phase,
                    payload |-> payload]
    BY <1>1
  <2> HIDE DEF e
  <2> QED BY <1>3, <2>1, <2>2, WriteStarts
<1>5. CrashTyped'
  BY <1>0, <1>1, <1>2, <1>3, <1>4, TurnFacts DEF CrashTyped, Past
<1>6. WriteFits'
  BY <1>1, <1>2, <1>4 DEF WriteFits, EventsFit, DeliveryFits, Writes
<1>7. Gone'
  BY <1>2, <1>4 DEF CrashInv, Gone, HoldsOf, Writes
<1>8. FilesAgree'
  BY <1>1, <1>2, <1>3, <1>4, TurnFacts
     DEF CrashInv, FilesAgree, Refusing, Writes
<1>9. Recorded' /\ Ahead'
  BY <1>2, <1>4 DEF CrashInv, Recorded, Reporting, Writes, Ahead
<1> QED
  BY <1>2, <1>5, <1>6, <1>7, <1>8, <1>9 DEF CrashKept, CrashInv, Offers

LEMMA RefusalKeeps ==
  ASSUME CrashInv, Crash!Refusal
  PROVE  CrashKept
<1> DEFINE e == Head(operations)
           d == [diagnostics EXCEPT !.user = "denied"]
<1>0. CrashTyped
  BY DEF CrashInv
<1>1. /\ Crash!Turn("deny") /\ operations' = Tail(operations)
      /\ erasing' = [kind |-> e.kind, by |-> e.by, phase |-> "consent",
                     payload |-> "denied"]
      /\ diagnostics' = d
      /\ UNCHANGED <<files, report, bundle, captured, erased, acked, failed>>
  BY DEF Crash!Refusal, Crash!Runs, Crash!histories
<1>2. /\ d.user = "denied" /\ d.running = diagnostics.running
      /\ d.events = diagnostics.events /\ d.delivery = diagnostics.delivery
      /\ d.withdrawn = diagnostics.withdrawn
      /\ d.cleanup = diagnostics.cleanup
      /\ d.reporter = diagnostics.reporter
      /\ d \in [running : BOOLEAN, events : SUBSET Crash!Events,
                user : Crash!Users, delivery : Crash!Deliveries,
                withdrawn : BOOLEAN, cleanup : BOOLEAN,
                reporter : Reports \cup {Nobody}]
  BY <1>0 DEF CrashTyped, Crash!Users
<1> HIDE DEF d
<1>3. /\ erasing = Nobody /\ diagnostics.running
      /\ e \in Waits /\ e.kind = "deny" /\ e.by = Nobody
      /\ operations' \in Seq(Waits)
  BY <1>1, TurnFacts
<1>4. /\ erasing' \in Crash!Operations /\ erasing' # Nobody
      /\ erasing'.kind = "deny" /\ erasing'.by = Nobody
      /\ erasing'.phase = "consent" /\ erasing'.payload = "denied"
  <2>1. "consent" \in Crash!Phases /\ "denied" \in Crash!Payloads("consent")
    BY DEF Crash!Phases, Crash!Payloads
  <2> HIDE DEF e
  <2> QED BY <1>1, <1>3, <2>1, WriteStarts
<1>5. CrashTyped'
  BY <1>0, <1>1, <1>2, <1>3, <1>4, TurnFacts DEF CrashTyped, Past
<1>6. WriteFits'
  BY <1>1, <1>2, <1>4 DEF WriteFits, EventsFit, DeliveryFits, Writes
<1>7. Gone'
  BY <1>1, <1>2, <1>4 DEF CrashInv, Gone, HoldsOf, Writes
<1>8. FilesAgree'
  BY <1>1, <1>2, <1>4 DEF FilesAgree, Refusing, Writes
<1>9. Recorded' /\ Ahead'
  BY <1>1, <1>2, <1>4 DEF CrashInv, Recorded, Reporting, Writes, Ahead
<1> QED
  BY <1>1, <1>5, <1>6, <1>7, <1>8, <1>9 DEF CrashKept, CrashInv, Offers

(* The newest event is kept, whatever falls out of the queue.              *)
LEMMA NewestFits ==
  ASSUME CrashTyped
  PROVE  /\ Crash!Newest(diagnostics.events \cup {captured + 1})
              \subseteq diagnostics.events \cup {captured + 1}
         /\ captured + 1 \in
              Crash!Newest(diagnostics.events \cup {captured + 1})
<1> DEFINE s == diagnostics.events \cup {captured + 1}
<1>1. captured \in Nat /\ \A f \in s : ~(f > captured + 1)
  BY NumbersAssumption DEF CrashTyped, Past
<1>2. {f \in s : f > captured + 1} = {}
  BY <1>1
<1>3. Crash!Cardinality({}) = Cardinality({})
  BY DEF Cardinality, Crash!Cardinality
<1>4. Crash!Cardinality({f \in s : f > captured + 1}) < Kept
  BY <1>2, <1>3, FS_EmptySet, NumbersAssumption
<1> QED BY <1>4 DEF Crash!Newest

LEMMA CaptureKeeps ==
  ASSUME CrashInv, Crash!Capture
  PROVE  CrashKept
<1> DEFINE e == Head(operations)
           s == Crash!Newest(diagnostics.events \cup {captured + 1})
<1>0. CrashTyped
  BY DEF CrashInv
<1>1. /\ Crash!Turn("capture") /\ operations' = Tail(operations)
      /\ UNCHANGED <<files, diagnostics, report, bundle, erased, acked,
                     failed>>
  BY DEF Crash!Capture
<1>2. /\ erasing = Nobody /\ diagnostics.running
      /\ e \in Waits /\ e.kind = "capture" /\ e.by = Nobody
      /\ operations' \in Seq(Waits)
  BY <1>1, TurnFacts
<1>3. CASE UNCHANGED <<erasing, captured>>
  <2>1. CrashTyped'
    BY <1>0, <1>1, <1>2, <1>3, TurnFacts DEF CrashTyped, Past
  <2>2. CrashInv'
    BY <1>1, <1>3, <2>1, TurnFacts, CrashSame
  <2> QED BY <1>1, <2>2 DEF CrashKept, Offers
<1>4. CASE /\ captured < MaxEvents /\ captured' = captured + 1
           /\ erasing' = [kind |-> e.kind, by |-> e.by, phase |-> "events",
                          payload |-> s]
  <2>1. /\ s \subseteq diagnostics.events \cup {captured + 1}
        /\ captured + 1 \in s
    BY <1>0, NewestFits
  <2> HIDE DEF e, s
  <2>2. /\ captured \in Nat /\ captured' \in 0..MaxEvents
        /\ Past' = Past \cup {captured + 1} /\ captured + 1 \notin Past
        /\ Past' \subseteq Crash!Events
    BY <1>0, <1>4, NumbersAssumption DEF CrashTyped, Past, Crash!Events
  <2>3. s \subseteq Past'
    BY <1>0, <2>1, <2>2 DEF CrashTyped
  <2>4. /\ erasing' \in Crash!Operations /\ erasing' # Nobody
        /\ erasing'.kind = "capture" /\ erasing'.by = Nobody
        /\ erasing'.phase = "events" /\ erasing'.payload = s
    <3>1. "events" \in Crash!Phases /\ s \in Crash!Payloads("events")
      BY <2>2, <2>3 DEF Crash!Phases, Crash!Payloads
    <3> QED BY <1>2, <1>4, <3>1, WriteStarts
  <2>5. CrashTyped'
    BY <1>0, <1>1, <1>2, <2>2, <2>4, TurnFacts DEF CrashTyped
  <2>6. WriteFits'
    BY <1>0, <1>1, <1>4, <2>1, <2>2, <2>3, <2>4
       DEF WriteFits, EventsFit, DeliveryFits, Writes, CrashTyped
  <2>7. Gone'
    BY <1>0, <1>1, <2>1, <2>2, <2>4
       DEF CrashInv, Gone, HoldsOf, Writes, CrashTyped
  <2>8. FilesAgree'
    BY <1>1, <1>2, <2>4, TurnFacts
       DEF CrashInv, FilesAgree, Refusing, Writes
  <2>9. Recorded' /\ Ahead'
    BY <1>1, <2>4 DEF CrashInv, Recorded, Reporting, Writes, Ahead
  <2> QED
    BY <1>1, <2>5, <2>6, <2>7, <2>8, <2>9 DEF CrashKept, CrashInv, Offers
<1> QED BY <1>3, <1>4 DEF Crash!Capture, Crash!Runs

LEMMA AdmitKeeps ==
  ASSUME CrashInv, Crash!Admit
  PROVE  CrashKept
<1> DEFINE e == Head(operations)
           b == Crash!Offered
           y == Crash!Pending(b)
<1>0. CrashTyped /\ Gone /\ Recorded
  BY DEF CrashInv
<1>1. /\ Crash!Turn("report") /\ operations' = Tail(operations)
      /\ UNCHANGED <<files, diagnostics, bundle, captured, erased, acked,
                     failed>>
  BY DEF Crash!Admit, Crash!histories
<1>2. /\ erasing = Nobody /\ diagnostics.running
      /\ e \in Waits /\ e.kind = "report" /\ e.by \in Reports
      /\ operations' \in Seq(Waits)
  BY <1>1, TurnFacts
<1>3. \/ /\ report' = [report EXCEPT ![e.by] = "idle"]
         /\ erasing' = erasing
      \/ /\ report' = report
         /\ diagnostics.reporter = Nobody /\ Crash!ToSend
         /\ erasing' = [kind |-> e.kind, by |-> e.by, phase |-> "delivery",
                        payload |-> y]
  BY DEF Crash!Admit, Crash!Runs
<1>4. ASSUME report' = [report EXCEPT ![e.by] = "idle"],
             erasing' = erasing
      PROVE  CrashKept
  <2>1. /\ report' \in [Reports -> {"idle", "queued", "calling",
                                    "delivered", "failed", "finishing"}]
        /\ \A r \in Reports : report'[r] \in {report[r], "idle"}
    BY <1>0, <1>4 DEF CrashTyped
  <2>2. CrashTyped'
    BY <1>0, <1>1, <1>2, <1>4, <2>1, TurnFacts DEF CrashTyped, Past
  <2>3. CrashInv'
    BY <1>1, <1>4, <2>2, TurnFacts, CrashSame
  <2> QED BY <2>1, <2>3 DEF CrashKept, Offers
<1>5. ASSUME report' = report, diagnostics.reporter = Nobody, Crash!ToSend,
             erasing' = [kind |-> e.kind, by |-> e.by, phase |-> "delivery",
                         payload |-> y]
      PROVE  CrashKept
  <2>1. /\ b # {} /\ b \subseteq Past /\ b \in SUBSET Crash!Events
        /\ b \cap erased = {}
        /\ Crash!Retried => b = diagnostics.delivery.bundle
        /\ ~Crash!Retried => b = diagnostics.events
    BY <1>0, <1>5
       DEF Crash!ToSend, Crash!Offered, CrashTyped, Gone, HoldsOf,
           Crash!Retried, Crash!Deliveries
  <2>2. b \notin acked
    BY <1>0, <1>5, <2>1 DEF Recorded, Crash!Retried, Crash!ToSend
  <2>3. diagnostics.events \notin acked /\ files.events \notin acked
    <3>1. CASE Crash!Retried
      BY <1>0, <3>1 DEF Recorded, Reporting, Crash!Retried
    <3>2. CASE ~Crash!Retried
      BY <1>0, <1>2, <2>1, <2>2, <3>2 DEF Recorded
    <3> QED BY <3>1, <3>2
  <2>4. /\ y \in Crash!Deliveries /\ y.bundle = b
        /\ y = Crash!Pending(y.bundle)
    BY <2>1 DEF Crash!Pending, Crash!Deliveries
  <2> HIDE DEF e, b, y
  <2>6. /\ erasing' \in Crash!Operations /\ erasing' # Nobody
        /\ erasing'.kind = "report" /\ erasing'.by = e.by
        /\ erasing'.phase = "delivery" /\ erasing'.payload = y
    <3>1. "delivery" \in Crash!Phases /\ y \in Crash!Payloads("delivery")
      BY <2>4 DEF Crash!Phases, Crash!Payloads
    <3> QED BY <1>2, <1>5, <3>1, WriteStarts
  <2>7. CrashTyped'
    BY <1>0, <1>1, <1>2, <1>5, <2>6, TurnFacts DEF CrashTyped, Past
  <2>8. WriteFits'
    <3>1. DeliveryFits'
      BY <1>1, <1>2, <1>5, <2>1, <2>4, <2>6
         DEF DeliveryFits, Past, Crash!Retried, Crash!Pending
    <3> QED BY <2>6, <3>1 DEF WriteFits, Writes
  <2>9. Gone'
    BY <1>0, <1>1, <2>1, <2>4, <2>6 DEF Gone, HoldsOf, Writes
  <2>10. FilesAgree'
    BY <1>1, <1>2, <2>6, TurnFacts
       DEF CrashInv, FilesAgree, Refusing, Writes
  <2>11. Recorded'
    BY <1>0, <1>1, <2>2, <2>3, <2>4, <2>6 DEF Recorded, Reporting, Writes
  <2>12. Ahead'
    BY <1>1, <2>1, <2>4, <2>6 DEF CrashInv, Ahead, Writes
  <2> QED
    BY <1>5, <2>7, <2>8, <2>9, <2>10, <2>11, <2>12
       DEF CrashKept, CrashInv, Offers
<1> QED BY <1>3, <1>4, <1>5

LEMMA FinishKeeps ==
  ASSUME CrashInv, Crash!Finish
  PROVE  CrashKept
<1> DEFINE e == Head(operations)
           r == e.by
           y == Crash!Delivered(bundle[r])
<1>0. CrashTyped /\ Gone /\ Recorded
  BY DEF CrashInv
<1>1. /\ Crash!Turn("finish") /\ operations' = Tail(operations)
      /\ UNCHANGED <<files, bundle, captured, erased, acked, failed>>
      /\ \/ /\ diagnostics.reporter = r
            /\ diagnostics' = [diagnostics EXCEPT !.reporter = Nobody]
         \/ diagnostics.reporter # r /\ diagnostics' = diagnostics
  BY DEF Crash!Finish, Crash!histories
<1>2. /\ erasing = Nobody /\ diagnostics.running
      /\ e \in Waits /\ e.kind = "finish" /\ r \in Reports
      /\ operations' \in Seq(Waits)
  BY <1>1, TurnFacts
<1>3. \/ /\ report' = [report EXCEPT ![r] = "idle"]
         /\ erasing' = erasing
      \/ /\ report' = [report EXCEPT ![r] = "finishing"]
         /\ diagnostics.reporter = r
         /\ erasing' = [kind |-> e.kind, by |-> e.by, phase |-> "delivery",
                        payload |-> y]
  BY DEF Crash!Finish, Crash!Runs
<1>4. /\ diagnostics' \in
           [running : BOOLEAN, events : SUBSET Crash!Events,
            user : Crash!Users, delivery : Crash!Deliveries,
            withdrawn : BOOLEAN, cleanup : BOOLEAN,
            reporter : Reports \cup {Nobody}]
      /\ diagnostics'.running = diagnostics.running
      /\ diagnostics'.events = diagnostics.events
      /\ diagnostics'.user = diagnostics.user
      /\ diagnostics'.delivery = diagnostics.delivery
      /\ diagnostics'.cleanup = diagnostics.cleanup
      /\ diagnostics'.reporter \in {diagnostics.reporter, Nobody}
      /\ diagnostics.reporter = r => diagnostics'.reporter = Nobody
  BY <1>0, <1>1 DEF CrashTyped
<1>5. /\ report' \in [Reports -> {"idle", "queued", "calling",
                                  "delivered", "failed", "finishing"}]
      /\ \A q \in Reports : report'[q] \in {report[q], "idle", "finishing"}
  BY <1>0, <1>3 DEF CrashTyped
<1>6. Offers
  BY <1>5 DEF Offers
<1>7. ASSUME erasing' = erasing
      PROVE  CrashInv'
  <2>1. CrashTyped'
    BY <1>0, <1>1, <1>2, <1>4, <1>5, <1>7, TurnFacts DEF CrashTyped, Past
  <2>2. WriteFits' /\ Gone'
    BY <1>0, <1>1, <1>2, <1>4, <1>7
       DEF WriteFits, EventsFit, DeliveryFits, Writes, Gone, HoldsOf
  <2>3. FilesAgree'
    BY <1>1, <1>2, <1>4, <1>7, TurnFacts
       DEF CrashInv, FilesAgree, Refusing, Writes
  <2>4. Recorded' /\ Ahead'
    BY <1>0, <1>1, <1>2, <1>4, <1>7
       DEF CrashInv, Recorded, Reporting, Writes, Ahead
  <2> QED BY <2>1, <2>2, <2>3, <2>4 DEF CrashInv
<1>8. ASSUME diagnostics.reporter = r,
             erasing' = [kind |-> e.kind, by |-> e.by, phase |-> "delivery",
                         payload |-> y]
      PROVE  CrashInv'
  <2>1. /\ bundle[r] # {} /\ bundle[r] \subseteq Past
        /\ bundle[r] \in SUBSET Crash!Events
        /\ diagnostics.events \notin acked /\ files.events \notin acked
    <3>1. r # Nobody
      BY <1>2, NobodyAssumption
    <3> QED BY <1>0, <1>2, <1>8, <3>1 DEF CrashTyped, Recorded, Reporting
  <2>2. y \in Crash!Deliveries /\ y.bundle = bundle[r]
    BY <2>1 DEF Crash!Delivered, Crash!Deliveries
  <2>3. /\ erasing' \in Crash!Operations /\ erasing' # Nobody
        /\ erasing'.kind = "finish" /\ erasing'.by = r
        /\ erasing'.phase = "delivery" /\ erasing'.payload = y
    <3>1. "delivery" \in Crash!Phases /\ y \in Crash!Payloads("delivery")
      BY <2>2 DEF Crash!Phases, Crash!Payloads
    <3> HIDE DEF e, y
    <3> QED BY <1>2, <1>8, <3>1, WriteStarts
  <2>4. Crash!Delivered(bundle'[erasing'.by]) = y
    BY <1>1, <2>3
  <2> HIDE DEF y
  <2>5. CrashTyped'
    BY <1>0, <1>1, <1>2, <1>4, <1>5, <2>3, TurnFacts DEF CrashTyped, Past
  <2>6. WriteFits'
    <3>1. DeliveryFits'
      BY <1>1, <1>2, <1>4, <1>8, <2>1, <2>2, <2>3, <2>4
         DEF DeliveryFits, Past, Crash!Delivered
    <3> QED BY <2>3, <3>1 DEF WriteFits, Writes
  <2>7. Gone'
    BY <1>0, <1>1, <1>4, <2>3 DEF Gone, HoldsOf, Writes
  <2>8. FilesAgree'
    BY <1>1, <1>2, <1>4, <2>3, TurnFacts
       DEF CrashInv, FilesAgree, Refusing, Writes
  <2>9. Recorded'
    BY <1>0, <1>1, <1>4, <1>8, <2>1, <2>3 DEF Recorded, Reporting, Writes
  <2>10. Ahead'
    BY <1>1, <1>2, <1>4, <2>2, <2>3 DEF CrashInv, Ahead, Writes
  <2> QED BY <2>5, <2>6, <2>7, <2>8, <2>9, <2>10 DEF CrashInv
<1> QED BY <1>3, <1>6, <1>7, <1>8 DEF CrashKept

-----------------------------------------------------------------------------
(* The writes.                                                             *)

\* What the memory of the process is.
Memories ==
  [running : BOOLEAN, events : SUBSET Crash!Events, user : Crash!Users,
   delivery : Crash!Deliveries, withdrawn : BOOLEAN, cleanup : BOOLEAN,
   reporter : Reports \cup {Nobody}]

LEMMA WritingFacts ==
  ASSUME CrashInv, erasing # Nobody
  PROVE  /\ files \in Files /\ diagnostics \in Memories
         /\ diagnostics.running
         /\ erasing.by \in Reports \cup {Nobody}
BY DEF CrashInv, CrashTyped, Files, Memories, Crash!Operations

LEMMA EventsSavedKeeps ==
  ASSUME CrashInv, Crash!EventsSaved
  PROVE  CrashKept
<1> DEFINE x == erasing.payload
<1>0. CrashTyped /\ Gone /\ Recorded /\ WriteFits
  BY DEF CrashInv
<1>1. /\ Writes("events")
      /\ files' = [files EXCEPT !.events = x]
      /\ diagnostics' = [diagnostics EXCEPT !.events = x]
      /\ erasing' = Nobody
      /\ UNCHANGED <<operations, report, bundle, captured, erased, acked,
                     failed>>
  BY DEF Crash!EventsSaved, Crash!At, Crash!histories, Writes
<1>2. /\ x \in SUBSET Crash!Events /\ x \subseteq Past /\ x \notin acked
      /\ x \cap erased = {} /\ erasing.kind = "capture"
  BY <1>0, <1>1, PastEvents DEF WriteFits, EventsFit, Gone
<1>3. /\ files \in Files /\ diagnostics \in Memories /\ diagnostics.running
  BY <1>1, WritingFacts DEF Writes
<1> HIDE DEF x
<1>4. /\ files' \in Files /\ files'.events = x
      /\ files'.user = files.user /\ files'.delivery = files.delivery
  BY <1>0, <1>1, <1>2, Written
<1>5. /\ diagnostics' \in Memories /\ diagnostics'.events = x
      /\ diagnostics'.user = diagnostics.user
      /\ diagnostics'.delivery = diagnostics.delivery
      /\ diagnostics'.running = diagnostics.running
      /\ diagnostics'.cleanup = diagnostics.cleanup
      /\ diagnostics'.reporter = diagnostics.reporter
  BY <1>1, <1>2, <1>3 DEF Memories
<1>6. CrashTyped'
  BY <1>0, <1>1, <1>2, <1>3, <1>4, <1>5
     DEF CrashTyped, Past, Files, Memories
<1>7. WriteFits' /\ Gone'
  BY <1>0, <1>1, <1>2, <1>4, <1>5 DEF WriteFits, Writes, Gone, HoldsOf
<1>8. FilesAgree'
  BY <1>1, <1>2, <1>4, <1>5 DEF CrashInv, FilesAgree, Refusing, Writes
<1>9. Recorded' /\ Ahead'
  BY <1>0, <1>1, <1>2, <1>4, <1>5 DEF Recorded, Reporting, Writes, Ahead
<1> QED
  BY <1>1, <1>6, <1>7, <1>8, <1>9 DEF CrashKept, CrashInv, Offers

LEMMA ConsentSavedKeeps ==
  ASSUME CrashInv, Crash!ConsentSaved
  PROVE  CrashKept
<1> DEFINE x == erasing.payload
<1>0. CrashTyped /\ WriteFits
  BY DEF CrashInv
<1>1. /\ Writes("consent")
      /\ files' = [files EXCEPT !.user = x]
      /\ \/ /\ x = "denied" /\ diagnostics' = diagnostics
            /\ erasing' = [erasing EXCEPT !.phase = "erase"]
         \/ /\ x # "denied" /\ erasing' = Nobody
            /\ diagnostics' = [diagnostics EXCEPT !.user = "granted",
                                                  !.withdrawn = FALSE]
      /\ UNCHANGED <<operations, report, bundle, captured, erased, acked,
                     failed>>
  BY DEF Crash!ConsentSaved, Crash!At, Crash!histories, Writes
<1>2. /\ files \in Files /\ diagnostics \in Memories /\ diagnostics.running
      /\ erasing.by = Nobody
      /\ \/ x = "denied" /\ erasing.kind = "deny"
         \/ x = "granted" /\ erasing.kind = "grant" /\ ~diagnostics.cleanup
      /\ x \in Crash!Users
  BY <1>0, <1>1, WritingFacts
     DEF WriteFits, Writes, Crash!Users
<1>3. /\ files' \in Files /\ files'.events = files.events
      /\ files'.user = x /\ files'.delivery = files.delivery
  BY <1>0, <1>1, <1>2, Written
<1>4. CASE /\ x = "denied" /\ diagnostics' = diagnostics
           /\ erasing' = [erasing EXCEPT !.phase = "erase"]
  <2>1. /\ erasing' \in Crash!Operations /\ erasing' # Nobody
        /\ erasing'.kind = "deny" /\ erasing'.by = Nobody
        /\ erasing'.phase = "erase" /\ erasing'.payload = "denied"
    <3>1. erasing \in Crash!Operations /\ erasing.kind = "deny"
      BY <1>0, <1>1, <1>2, <1>4 DEF CrashTyped, Writes
    <3>2. erasing' \in Crash!Operations
      BY <1>4, <3>1 DEF Crash!Operations, Crash!Phases
    <3> QED BY <1>2, <1>4, <3>1, <3>2, RecordsAssumption
            DEF Crash!Operations
  <2> HIDE DEF x
  <2>2. diagnostics.user = "denied"
    BY <1>0, <1>1, <1>2, <1>4 DEF WriteFits, Writes
  <2>3. CrashTyped'
    BY <1>0, <1>1, <1>2, <1>3, <1>4, <2>1 DEF CrashTyped, Past, Files
  <2>4. WriteFits'
    BY <1>4, <2>1, <2>2 DEF WriteFits, Writes
  <2>5. Gone'
    BY <1>1, <1>3, <1>4, <2>1 DEF CrashInv, Gone, HoldsOf, Writes
  <2>6. FilesAgree'
    BY <1>1, <1>2, <1>3, <1>4, <2>1, <2>2
       DEF CrashInv, FilesAgree, Refusing, Writes
  <2>7. Recorded' /\ Ahead'
    BY <1>1, <1>2, <1>3, <1>4, <2>1
       DEF CrashInv, Recorded, Reporting, Writes, Ahead
  <2> QED
    BY <1>1, <2>3, <2>4, <2>5, <2>6, <2>7 DEF CrashKept, CrashInv, Offers
<1>5. CASE /\ x # "denied" /\ erasing' = Nobody
           /\ diagnostics' = [diagnostics EXCEPT !.user = "granted",
                                                 !.withdrawn = FALSE]
  <2>1. /\ diagnostics' \in Memories /\ diagnostics'.user = "granted"
        /\ diagnostics'.events = diagnostics.events
        /\ diagnostics'.delivery = diagnostics.delivery
        /\ diagnostics'.running = diagnostics.running
        /\ diagnostics'.cleanup = diagnostics.cleanup
        /\ diagnostics'.reporter = diagnostics.reporter
    BY <1>2, <1>5 DEF Memories, Crash!Users
  <2>2. x = "granted" /\ erasing.kind = "grant" /\ ~diagnostics.cleanup
    BY <1>2, <1>5
  <2> HIDE DEF x
  <2>3. CrashTyped'
    BY <1>0, <1>1, <1>2, <1>3, <1>5, <2>1
       DEF CrashTyped, Past, Files, Memories
  <2>4. WriteFits' /\ Gone'
    BY <1>1, <1>3, <1>5, <2>1
       DEF CrashInv, WriteFits, Writes, Gone, HoldsOf
  <2>5. FilesAgree'
    BY <1>1, <1>3, <1>5, <2>1, <2>2
       DEF CrashInv, FilesAgree, Refusing, Writes
  <2>6. Recorded' /\ Ahead'
    BY <1>1, <1>2, <1>3, <1>5, <2>1
       DEF CrashInv, Recorded, Reporting, Writes, Ahead
  <2> QED
    BY <1>1, <2>3, <2>4, <2>5, <2>6 DEF CrashKept, CrashInv, Offers
<1> QED BY <1>1, <1>4, <1>5

LEMMA DeliverySavedKeeps ==
  ASSUME CrashInv, Crash!DeliverySaved
  PROVE  CrashKept
<1> DEFINE x == erasing.payload
           r == erasing.by
<1>0. CrashTyped /\ Gone /\ Recorded /\ WriteFits /\ Ahead /\ FilesAgree
  BY DEF CrashInv
<1>1. /\ Writes("delivery") /\ erasing' = Nobody
      /\ files' = [files EXCEPT !.delivery = x]
      /\ UNCHANGED <<operations, captured, erased, failed>>
  BY DEF Crash!DeliverySaved, Crash!At, Writes
<1>2. /\ r \in Reports /\ diagnostics.reporter = Nobody
      /\ x \in Crash!Deliveries /\ x.bundle \subseteq Past /\ x.bundle # {}
      /\ erasing.kind \in {"report", "finish"}
      /\ erasing.kind = "report" =>
           /\ x = Crash!Pending(x.bundle)
           /\ Crash!Retried => x.bundle = diagnostics.delivery.bundle
           /\ x.bundle \notin acked /\ x.bundle \cap erased = {}
      /\ erasing.kind = "finish" => x = Crash!Delivered(bundle[r])
      /\ diagnostics.events \notin acked /\ files.events \notin acked
  BY <1>0, <1>1
     DEF WriteFits, DeliveryFits, Recorded, Reporting, Writes, Gone
<1>3. /\ files \in Files /\ diagnostics \in Memories /\ diagnostics.running
      /\ r # Nobody
  BY <1>1, <1>2, WritingFacts, NobodyAssumption DEF Writes
<1>4. /\ files' \in Files /\ files'.events = files.events
      /\ files'.user = files.user /\ files'.delivery = x
  BY <1>0, <1>1, <1>2, Written
<1>5. CASE erasing.kind = "report"
  <2>1. /\ report' = [report EXCEPT ![r] = "calling"]
        /\ bundle' = [bundle EXCEPT ![r] = x.bundle]
        /\ acked' = acked
        /\ diagnostics' = [diagnostics EXCEPT !.delivery = x,
                                              !.reporter = r]
    BY <1>5 DEF Crash!DeliverySaved
  <2> HIDE DEF x, r
  <2>2. /\ diagnostics' \in Memories /\ diagnostics'.delivery = x
        /\ diagnostics'.reporter = r
        /\ diagnostics'.events = diagnostics.events
        /\ diagnostics'.user = diagnostics.user
        /\ diagnostics'.running = diagnostics.running
        /\ diagnostics'.cleanup = diagnostics.cleanup
    BY <1>2, <1>3, <2>1 DEF Memories
  <2>3. /\ report' \in [Reports -> {"idle", "queued", "calling",
                                    "delivered", "failed", "finishing"}]
        /\ \A q \in Reports : q # r => report'[q] = report[q]
        /\ bundle' \in [Reports -> SUBSET Crash!Events]
        /\ bundle'[r] = x.bundle
        /\ \A q \in Reports : q # r => bundle'[q] = bundle[q]
    BY <1>0, <1>2, <2>1, PastEvents DEF CrashTyped
  <2>4. x.state = "pending"
    BY <1>2, <1>5 DEF Crash!Pending
  <2>5. CrashTyped'
    BY <1>0, <1>1, <1>2, <1>3, <1>4, <2>1, <2>2, <2>3
       DEF CrashTyped, Past, Files, Memories
  <2>6. WriteFits' /\ Gone'
    BY <1>0, <1>1, <1>2, <1>4, <1>5, <2>2, <2>4
       DEF WriteFits, Writes, Gone, HoldsOf
  <2>7. FilesAgree'
    BY <1>0, <1>1, <1>4, <1>5, <2>2 DEF FilesAgree, Refusing, Writes
  <2>8. Recorded'
    BY <1>0, <1>1, <1>2, <1>3, <1>4, <1>5, <2>1, <2>2, <2>3, <2>4
       DEF Recorded, Reporting, Writes
  <2>9. Ahead'
    <3>1. SUFFICES ASSUME files.events # {},
                          diagnostics.events \notin {files.events, {}}
                   PROVE  Ahead'
      BY <1>4, <2>2 DEF Ahead
    <3>2. PICK f \in files.events :
            /\ f \notin diagnostics.events /\ f \notin x.bundle
            /\ \A q \in Reports : f \notin bundle[q]
      BY <1>0, <1>1, <1>3, <3>1 DEF Ahead, x
    <3>3. \A q \in Reports : f \notin bundle'[q]
      BY <2>3, <3>2
    <3> QED
      BY <1>1, <1>4, <2>2, <3>2, <3>3 DEF Ahead, Writes
  <2>10. Offers
    BY <1>2, <1>4, <1>5, <2>3 DEF Offers
  <2> QED
    BY <2>5, <2>6, <2>7, <2>8, <2>9, <2>10 DEF CrashKept, CrashInv
<1>6. CASE erasing.kind = "finish"
  <2>1. /\ report' = [report EXCEPT ![r] = "idle"]
        /\ bundle' = bundle
        /\ acked' = acked \cup {x.bundle}
        /\ diagnostics' = [diagnostics EXCEPT
                             !.delivery = x,
                             !.reporter = diagnostics.reporter]
    BY <1>6 DEF Crash!DeliverySaved
  <2>2. /\ diagnostics' \in Memories /\ diagnostics'.delivery = x
        /\ diagnostics'.reporter = Nobody
        /\ diagnostics'.events = diagnostics.events
        /\ diagnostics'.user = diagnostics.user
        /\ diagnostics'.running = diagnostics.running
        /\ diagnostics'.cleanup = diagnostics.cleanup
    BY <1>2, <1>3, <2>1 DEF Memories
  <2>3. /\ report' \in [Reports -> {"idle", "queued", "calling",
                                    "delivered", "failed", "finishing"}]
        /\ \A q \in Reports : report'[q] \in {report[q], "idle"}
    BY <1>0, <1>2, <2>1 DEF CrashTyped
  <2>4. /\ x.state = "delivered" /\ x.bundle = bundle[r]
        /\ x = Crash!Delivered(x.bundle)
    <3> DEFINE b == bundle[r]
    <3>1. x = Crash!Delivered(b)
      BY <1>2, <1>6
    <3> HIDE DEF x, b
    <3>2. x.state = "delivered" /\ x.bundle = b
      BY <3>1 DEF Crash!Delivered
    <3> QED BY <3>1, <3>2 DEF b
  <2> HIDE DEF x, r
  <2>5. CrashTyped'
    BY <1>0, <1>1, <1>2, <1>3, <1>4, <2>1, <2>2, <2>3
       DEF CrashTyped, Past, Files, Memories
  <2>6. WriteFits' /\ Gone'
    BY <1>0, <1>1, <1>4, <2>2, <2>4
       DEF WriteFits, Writes, Gone, HoldsOf
  <2>7. FilesAgree'
    BY <1>0, <1>1, <1>4, <1>6, <2>2 DEF FilesAgree, Refusing, Writes
  <2>8. files.events = x.bundle => diagnostics.events \in {files.events, {}}
    BY <1>0, <1>2, <1>3, <2>4 DEF Ahead
  <2>9. Recorded'
    <3>1. diagnostics.events \in acked' =>
            diagnostics.delivery' = Crash!Delivered(diagnostics.events)
      BY <1>2, <2>1, <2>2, <2>4
    <3>2. files.events \in acked' =>
            /\ files'.delivery = Crash!Delivered(files.events)
            /\ diagnostics.events \in {files.events, {}}
      BY <1>2, <1>4, <2>1, <2>4, <2>8
    <3>3. Crash!Delivered(diagnostics.events)' =
            Crash!Delivered(diagnostics'.events)
          /\ Crash!Delivered(files.events)' = Crash!Delivered(files'.events)
      BY DEF Crash!Delivered
    <3>4. ~Reporting'
      BY <1>1, <2>2, <2>4 DEF Reporting, Writes
    <3> QED
      BY <1>1, <1>4, <2>2, <2>4, <3>1, <3>2, <3>3, <3>4 DEF Recorded, Writes
  <2>10. Ahead'
    BY <1>0, <1>1, <1>2, <1>3, <1>4, <2>1, <2>2, <2>4 DEF Ahead, Writes
  <2>11. Offers
    BY <2>3 DEF Offers
  <2> QED
    BY <2>5, <2>6, <2>7, <2>9, <2>10, <2>11 DEF CrashKept, CrashInv
<1> QED BY <1>2, <1>5, <1>6

LEMMA ErasedKeeps ==
  ASSUME CrashInv, Crash!Erased
  PROVE  CrashKept
<1>0. CrashTyped /\ WriteFits /\ FilesAgree
  BY DEF CrashInv
<1>1. /\ Writes("erase") /\ files' = Crash!Emptied(files)
      /\ erased' = Past /\ acked' = {}
      /\ UNCHANGED <<operations, report, bundle, captured, failed>>
      /\ diagnostics' =
           IF erasing.payload = Nobody THEN Crash!MemoryErased
           ELSE [Crash!MemoryErased EXCEPT !.cleanup = FALSE]
      /\ erasing' = IF erasing.payload = "granted"
                    THEN [erasing EXCEPT !.phase = "consent"] ELSE Nobody
  BY DEF Crash!Erased, Crash!At, Writes, Past
<1>2. /\ files \in Files /\ diagnostics \in Memories /\ diagnostics.running
      /\ erasing.by = Nobody
      /\ \/ erasing.payload = "granted" /\ erasing.kind = "grant"
            /\ diagnostics.cleanup /\ erasing.payload # Nobody
         \/ erasing.payload = Nobody /\ erasing.kind = "delete"
         \/ erasing.payload = "denied" /\ erasing.kind = "deny"
            /\ erasing.payload # Nobody
  BY <1>0, <1>1, WritingFacts, RecordsAssumption
     DEF WriteFits, Writes, Crash!Users
<1>3. /\ files' \in Files /\ files'.events = {} /\ files'.user = files.user
      /\ files'.delivery = Crash!Nothing
  BY <1>1, <1>2, NothingTyped DEF Crash!Emptied, Files
<1>4. /\ diagnostics' \in Memories /\ diagnostics'.events = {}
      /\ diagnostics'.delivery = Crash!Nothing
      /\ diagnostics'.user = diagnostics.user
      /\ diagnostics'.running = diagnostics.running
      /\ diagnostics'.cleanup \in {diagnostics.cleanup, FALSE}
      /\ erasing.payload # Nobody => diagnostics'.cleanup = FALSE
      /\ diagnostics'.reporter = diagnostics.reporter
  BY <1>1, <1>2, NothingTyped DEF Crash!MemoryErased, Memories
<1>5. /\ erasing' \in Crash!Operations \cup {Nobody}
      /\ erasing' # Nobody =>
           /\ erasing'.kind = "grant" /\ erasing'.by = Nobody
           /\ erasing'.phase = "consent" /\ erasing'.payload = "granted"
           /\ ~diagnostics'.cleanup
  <2>1. CASE erasing.payload = "granted"
    <3>1. erasing \in Crash!Operations /\ erasing.payload # Nobody
      BY <1>0, <1>1, <2>1, RecordsAssumption
         DEF CrashTyped, Writes, Crash!Users
    <3>2. erasing' = [erasing EXCEPT !.phase = "consent"]
      BY <1>1, <2>1
    <3>3. erasing.kind = "grant"
      BY <1>2, <2>1, RecordsAssumption DEF Crash!Users
    <3> QED
      BY <1>2, <1>4, <2>1, <3>1, <3>2, <3>3
         DEF Crash!Operations, Crash!Phases
  <2>2. CASE erasing.payload # "granted"
    BY <1>1, <2>2
  <2> QED BY <2>1, <2>2
<1>6. CrashTyped'
  BY <1>0, <1>1, <1>2, <1>3, <1>4, <1>5, NothingTyped
     DEF CrashTyped, Past, Files, Memories
<1>7. WriteFits' /\ Gone'
  BY <1>3, <1>4, <1>5, NothingTyped DEF WriteFits, Writes, Gone, HoldsOf
<1>8. FilesAgree'
  BY <1>0, <1>1, <1>2, <1>3, <1>4, <1>5
     DEF FilesAgree, Refusing, Writes
<1>9. Recorded' /\ Ahead'
  BY <1>1, <1>3, <1>4, <1>5, NothingTyped
     DEF CrashInv, Recorded, Reporting, Writes, Ahead
<1> QED
  BY <1>1, <1>6, <1>7, <1>8, <1>9 DEF CrashKept, CrashInv, Offers

LEMMA EraseFailsKeeps ==
  ASSUME CrashInv, Crash!EraseFails
  PROVE  CrashKept
<1>0. CrashTyped /\ WriteFits /\ FilesAgree /\ Ahead
  BY DEF CrashInv
<1>1. /\ Writes("erase") /\ erasing' = Nobody /\ acked' = {}
      /\ files' \in {files, [files EXCEPT !.events = {}],
                     [files EXCEPT !.delivery = Crash!Nothing],
                     Crash!Emptied(files)}
      /\ diagnostics' = [diagnostics EXCEPT !.cleanup = Crash!NeedsCleanup]
      /\ failed' = (failed \/ erasing.payload = Nobody)
      /\ UNCHANGED <<operations, report, bundle, captured, erased>>
  BY DEF Crash!EraseFails, Crash!At, Writes
<1>2. /\ files \in Files /\ diagnostics \in Memories /\ diagnostics.running
      /\ Crash!NeedsCleanup \in BOOLEAN
      /\ \/ erasing.payload = "granted" /\ diagnostics.cleanup
            /\ erasing.kind = "grant"
         \/ erasing.payload = Nobody /\ Nobody # "denied"
         \/ erasing.payload = "denied" /\ diagnostics.user = "denied"
      /\ diagnostics.cleanup => Crash!NeedsCleanup
      /\ erasing.payload = "denied" => Crash!NeedsCleanup
      /\ Crash!NeedsCleanup =>
           diagnostics.cleanup \/ erasing.payload = "denied"
  <2>1. /\ files \in Files /\ diagnostics \in Memories
        /\ diagnostics.running
    BY <1>1, WritingFacts DEF Writes
  <2>2. diagnostics.cleanup \in BOOLEAN
    BY <2>1 DEF Memories
  <2>3. Nobody # "denied"
    BY RecordsAssumption DEF Crash!Users
  <2> QED
    BY <1>0, <1>1, <2>1, <2>2, <2>3 DEF WriteFits, Writes, Crash!NeedsCleanup
<1>3. /\ files' \in Files
      /\ files'.events = {} \/ files'.events = files.events
      /\ files'.delivery = Crash!Nothing \/ files'.delivery = files.delivery
      /\ files'.user = files.user
  BY <1>0, <1>1, <1>2, EmptiedFiles DEF Files
<1> DEFINE c == Crash!NeedsCleanup
<1>4. /\ diagnostics' \in Memories /\ diagnostics'.cleanup = c
      /\ diagnostics'.events = diagnostics.events
      /\ diagnostics'.delivery = diagnostics.delivery
      /\ diagnostics'.user = diagnostics.user
      /\ diagnostics'.running = diagnostics.running
      /\ diagnostics'.reporter = diagnostics.reporter
  <2>1. c \in BOOLEAN /\ diagnostics' = [diagnostics EXCEPT !.cleanup = c]
    BY <1>1, <1>2
  <2> HIDE DEF c
  <2> QED BY <1>2, <2>1 DEF Memories
<1>5. CrashTyped'
  BY <1>0, <1>1, <1>2, <1>3, <1>4, NothingTyped
     DEF CrashTyped, Past, Files, Memories
<1>6. WriteFits' /\ Gone'
  BY <1>1, <1>3, <1>4, NothingTyped
     DEF CrashInv, WriteFits, Writes, Gone, HoldsOf
<1>7. FilesAgree'
  <2> HIDE DEF c
  <2>1. diagnostics'.cleanup => diagnostics'.user = "denied"
    BY <1>0, <1>2, <1>4 DEF FilesAgree, c
  <2>2. ~failed' => c
    BY <1>1, <1>2 DEF c
  <2>3. ~failed' => files.user = diagnostics.user
    BY <1>0, <1>1, <1>2 DEF FilesAgree, Writes
  <2> QED
    BY <1>1, <1>3, <1>4, <2>1, <2>2, <2>3 DEF FilesAgree, Writes
<1>8. Recorded' /\ Ahead'
  BY <1>0, <1>1, <1>2, <1>3, <1>4, NothingTyped
     DEF CrashInv, Recorded, Reporting, Writes, Ahead
<1> QED
  BY <1>1, <1>5, <1>6, <1>7, <1>8 DEF CrashKept, CrashInv, Offers

LEMMA SaveFailsKeeps ==
  ASSUME CrashInv, Crash!SaveFails
  PROVE  CrashKept
<1> DEFINE x == erasing.payload
<1>0. /\ CrashTyped /\ WriteFits /\ Gone /\ Recorded /\ Ahead
      /\ FilesAgree
  BY DEF CrashInv
<1>1. /\ erasing # Nobody /\ erasing' = Nobody /\ failed' = TRUE
      /\ \/ files' = files
         \/ Writes("events") /\ files' = [files EXCEPT !.events = x]
         \/ Writes("delivery") /\ files' = [files EXCEPT !.delivery = x]
         \/ Writes("consent") /\ files' = [files EXCEPT !.user = x]
      /\ \/ report' = report
         \/ /\ erasing.by # Nobody
            /\ report' = [report EXCEPT ![erasing.by] = "idle"]
      /\ UNCHANGED <<diagnostics, operations, bundle, captured, erased,
                     acked>>
  <2>1. erasing.phase \in {"events", "delivery", "consent"}
    BY <1>0 DEF Crash!SaveFails, CrashTyped, Crash!Operations, Crash!Phases
  <2> QED BY <2>1 DEF Crash!SaveFails, Crash!histories, Writes
<1>2. /\ diagnostics \in Memories /\ diagnostics.running
      /\ erasing.by \in Reports \cup {Nobody}
      /\ report' \in [Reports -> {"idle", "queued", "calling",
                                  "delivered", "failed", "finishing"}]
      /\ \A q \in Reports : report'[q] \in {report[q], "idle"}
  BY <1>0, <1>1, WritingFacts DEF CrashTyped
<1>3. Survives(files')
  BY <1>1, <1>2, WritesSurvive
<1>4. /\ Writes("events") =>
           /\ x \in SUBSET Crash!Events /\ captured \in x /\ x \notin acked
           /\ captured \notin diagnostics.events
           /\ captured \notin diagnostics.delivery.bundle
           /\ \A r \in Reports : captured \notin bundle[r]
      /\ Writes("delivery") =>
           /\ x \in Crash!Deliveries
           /\ diagnostics.events \notin acked /\ files.events \notin acked
      /\ Writes("consent") => x \in Crash!Users
  <2>1. Writes("events") => x \in SUBSET Crash!Events
    BY <1>0, PastEvents DEF WriteFits, EventsFit
  <2> QED
    BY <1>0, <2>1
       DEF WriteFits, EventsFit, DeliveryFits, Recorded, Reporting,
           Crash!Users
<1> HIDE DEF x
<1>5. /\ files'.events = files.events /\ files'.delivery = files.delivery
      \/ /\ Writes("events") /\ files'.events = x
         /\ files'.delivery = files.delivery
      \/ /\ Writes("delivery") /\ files'.events = files.events
         /\ files'.delivery = x
  <2>1. CASE files' = files
    BY <2>1
  <2>2. CASE Writes("events") /\ files' = [files EXCEPT !.events = x]
    BY <1>0, <1>4, <2>2, Written
  <2>3. CASE Writes("delivery") /\ files' = [files EXCEPT !.delivery = x]
    BY <1>0, <1>4, <2>3, Written
  <2>4. CASE Writes("consent") /\ files' = [files EXCEPT !.user = x]
    BY <1>0, <1>4, <2>4, Written
  <2> QED BY <1>1, <2>1, <2>2, <2>3, <2>4
<1>6. CrashTyped'
  BY <1>0, <1>1, <1>2, <1>3
     DEF CrashTyped, Past, Files, Memories, Survives
<1>7. WriteFits' /\ Gone'
  <2>1. HoldsOf(files)' = HoldsOf(files')
    BY DEF HoldsOf
  <2> QED
    BY <1>0, <1>1, <1>3, <2>1
       DEF WriteFits, Writes, Gone, HoldsOf, Survives
<1>8. FilesAgree'
  BY <1>0, <1>1 DEF FilesAgree
<1>9. Recorded'
  <2>1. files'.events \in acked => files'.events = files.events
    BY <1>4, <1>5
  <2>2. files'.events \in acked =>
          files'.delivery = Crash!Delivered(files'.events)
    BY <1>3 DEF Survives
  <2>3. files'.delivery.state = "pending" =>
          files'.delivery.bundle \notin acked
    BY <1>3 DEF Survives
  <2>4. Crash!Delivered(files.events)' = Crash!Delivered(files'.events)
    BY DEF Crash!Delivered
  <2>5. Reporting' => Reporting
    BY <1>1 DEF Reporting, Writes
  <2> QED
    BY <1>0, <1>1, <1>2, <2>1, <2>2, <2>3, <2>4, <2>5 DEF Recorded, Writes
<1>10. Ahead'
  <2>1. CASE files'.events = files.events
    BY <1>0, <1>1, <1>2, <2>1 DEF Ahead, Writes
  <2>2. CASE Writes("events") /\ files'.events = x
    BY <1>1, <1>4, <2>2 DEF Ahead, Writes
  <2> QED BY <1>5, <2>1, <2>2
<1> QED
  BY <1>2, <1>6, <1>7, <1>8, <1>9, <1>10 DEF CrashKept, CrashInv, Offers

-----------------------------------------------------------------------------
(* What follows.                                                           *)

LEMMA CrashStep ==
  ASSUME CrashInv, [Crash!Next]_(Crash!vars)
  PROVE  CrashKept
<1>1. CASE Crash!Initialize
  BY <1>1, InitializeKeeps
<1>2. CASE Crash!InitializeFails
  BY <1>2, InitializeFailsKeeps
<1>3. CASE \/ Crash!Ask
           \/ \E r \in Reports : \/ Crash!Report(r) \/ Crash!SinkAccepts(r)
                                \/ Crash!SinkFails(r) \/ Crash!Returns(r)
  BY <1>3, CallsKeep
<1>4. CASE Crash!Deny \/ Crash!BackoffEnds
  BY <1>4, DenyKeeps, BackoffKeeps
<1>5. CASE Crash!Capture \/ Crash!Refusal
  BY <1>5, CaptureKeeps, RefusalKeeps
<1>6. CASE Crash!Grant \/ Crash!Delete
  BY <1>6, GrantDeleteKeep
<1>7. CASE Crash!Admit \/ Crash!Finish
  BY <1>7, AdmitKeeps, FinishKeeps
<1>8. CASE Crash!EventsSaved \/ Crash!DeliverySaved \/ Crash!ConsentSaved
  BY <1>8, EventsSavedKeeps, DeliverySavedKeeps, ConsentSavedKeeps
<1>9. CASE Crash!Erased \/ Crash!EraseFails \/ Crash!SaveFails
  BY <1>9, ErasedKeeps, EraseFailsKeeps, SaveFailsKeeps
<1>10. CASE Crash!Crash
  BY <1>10, DiagnosticsCrashKeeps
<1>11. CASE UNCHANGED Crash!vars
  <2>1. UNCHANGED <<files, diagnostics, operations, erasing, report, bundle,
                    captured, erased, acked, failed>>
    BY <1>11 DEF Crash!vars, Crash!histories
  <2>2. CrashTyped'
    BY <2>1 DEF CrashInv, CrashTyped, Past
  <2>3. CrashInv'
    BY <2>1, <2>2, CrashSame
  <2> QED BY <2>1, <2>3 DEF CrashKept, Offers
<1> QED
  BY <1>1, <1>2, <1>3, <1>4, <1>5, <1>6, <1>7, <1>8, <1>9, <1>10, <1>11
     DEF Crash!Next

(* An erase is for good and is all that is lost: what it removed is        *)
(* nowhere, and unless a save or a delete() failed a restart finds what    *)
(* the process knew.                                                       *)
THEOREM ErasuresAreFinal == Crash!Spec => []ErasuresLast
<1>1. Crash!Init => CrashInv
  BY CrashStart
<1>2. CrashInv /\ [Crash!Next]_(Crash!vars) => CrashInv'
  BY CrashStep DEF CrashKept
<1>3. CrashInv => ErasuresLast
  <2> SUFFICES ASSUME CrashInv PROVE ErasuresLast
    OBVIOUS
  <2>1. Crash!ErasedStaysErased
    BY DEF CrashInv, Gone, HoldsOf, Crash!ErasedStaysErased
  <2>2. Crash!RestartFindsTheSame
    BY DEF CrashInv, FilesAgree, Refusing, Writes,
           Crash!RestartFindsTheSame, Crash!Collecting
  <2> QED BY <2>1, <2>2 DEF ErasuresLast, Crash!ErasuresLast
<1> QED BY <1>1, <1>2, <1>3, PTL DEF Crash!Spec

(* A bundle whose delivery was recorded is never handed to the sink again, *)
(* and the sink is given what the retry record on disk holds.              *)
THEOREM DeliveriesAreRecorded == Crash!Spec => DeliveredOnce
<1>1. Crash!Init => CrashInv
  BY CrashStart
<1>2. CrashInv /\ [Crash!Next]_(Crash!vars) => CrashInv'
  BY CrashStep DEF CrashKept
<1>3. CrashInv /\ [Crash!Next]_(Crash!vars) =>
        [\A r \in Reports :
           report[r] # "calling" /\ report'[r] = "calling" =>
             /\ bundle'[r] \notin acked
             /\ files'.delivery.bundle = bundle'[r]
             /\ Crash!Retried =>
                  bundle'[r] = diagnostics.delivery.bundle]_(Crash!vars)
  BY CrashStep DEF CrashKept, Offers
<1> QED BY <1>1, <1>2, <1>3, PTL DEF Crash!Spec, DeliveredOnce,
       Crash!DeliveredOnce

-----------------------------------------------------------------------------
(* The edits on the canvas.                                                *)

Entries == [mark : Edit!Marks, base : Nat, target : Nat, head : Nat,
            life : Edit!Lives]

\* No content holds two edits of one capability.
EachOnce(content) ==
  \A i, j \in DOMAIN content :
    content[i].by = content[j].by /\ content[i].by # Nobody => i = j

(* An entry leads from the content before its edit to the one after; what  *)
(* is undone comes after what is applied; and what is applied ends the     *)
(* last content.                                                           *)
JournalFits(versions, journal) ==
  /\ versions # <<>>
  /\ \A r \in DOMAIN versions : EachOnce(versions[r])
  /\ \A i \in DOMAIN journal :
       /\ journal[i].base \in DOMAIN versions
       /\ journal[i].target \in DOMAIN versions
       /\ versions[journal[i].target]
            = Append(versions[journal[i].base], journal[i].mark)
  /\ \A i, j \in DOMAIN journal :
       journal[i].life = "applied" /\ journal[j].life = "undone" => i < j
  /\ Edit!AppliedLast(journal, versions[Len(versions)])

Histories == Seq(Seq(Edit!Marks))

LEMMA RevisionAdded ==
  ASSUME NEW h \in Histories, NEW content \in Seq(Edit!Marks)
  PROVE  LET g == Append(h, content) IN
         /\ g \in Histories /\ g # <<>>
         /\ Len(h) \in Nat /\ Len(g) = Len(h) + 1 /\ DOMAIN h = 1..Len(h)
         /\ DOMAIN g = DOMAIN h \cup {Len(h) + 1} /\ g[Len(h) + 1] = content
         /\ \A r \in DOMAIN h : g[r] = h[r]
<1> DEFINE g == Append(h, content)
<1>1. h \in Seq(Seq(Edit!Marks))
  BY DEF Histories
<1>2. /\ g \in Seq(Seq(Edit!Marks))
      /\ Len(h) \in Nat /\ Len(g) = Len(h) + 1 /\ DOMAIN h = 1..Len(h)
      /\ DOMAIN g = 1..(Len(h) + 1) /\ g[Len(h) + 1] = content
  BY <1>1
<1>3. \A r \in DOMAIN h : g[r] = h[r]
  BY <1>1
<1>4. /\ 1..(Len(h) + 1) = 1..Len(h) \cup {Len(h) + 1}
      /\ 1 \in 1..(Len(h) + 1)
  <2>1. Len(h) \in Nat
    BY <1>2
  <2> HIDE DEF g
  <2> QED BY <2>1
<1> HIDE DEF g
<1>5. g # <<>>
  <2>1. 1 \in DOMAIN g
    BY <1>2, <1>4
  <2> QED BY <2>1
<1>6. DOMAIN g = DOMAIN h \cup {Len(h) + 1}
  BY <1>2, <1>4
<1> QED BY <1>2, <1>3, <1>5, <1>6 DEF Histories, g

LEMMA EmptyFits ==
  ASSUME NEW h \in Histories, h # <<>>, \A r \in DOMAIN h : EachOnce(h[r])
  PROVE  JournalFits(h, <<>>)
<1> DEFINE place == [i \in {} |-> 1]
<1>1. Edit!AppliedLast(<<>>, h[Len(h)])
  <2>1. {i \in DOMAIN <<>> : (<<>>)[i].life = "applied"} = {}
    OBVIOUS
  <2>2. place \in [{} -> DOMAIN h[Len(h)]]
    OBVIOUS
  <2> QED BY <2>1, <2>2 DEF Edit!AppliedLast
<1> QED BY <1>1 DEF JournalFits

(* The journal forgets its oldest entries.                                 *)
LEMMA ForgettingFits ==
  ASSUME NEW h \in Histories, NEW j \in Seq(Entries), JournalFits(h, j),
         NEW d \in 0..Len(j), NEW t \in Seq(Entries),
         Len(t) = Len(j) - d, \A i \in 1..Len(t) : t[i] = j[i + d]
  PROVE  JournalFits(h, t)
<1> DEFINE inEffect(s) == {i \in DOMAIN s : s[i].life = "applied"}
           edits == h[Len(h)]
<1>0. DOMAIN edits \subseteq Nat
  <2>1. h \in Seq(Seq(Edit!Marks)) /\ h # <<>>
    BY DEF JournalFits, Histories
  <2>2. edits \in Seq(Edit!Marks)
    BY <2>1
  <2> QED BY <2>2
<1>1. PICK place \in [inEffect(j) -> DOMAIN edits] :
        \A i \in inEffect(j) :
          /\ edits[place[i]] = j[i].mark
          /\ \A k \in inEffect(j) : i < k => place[i] < place[k]
          /\ \A k \in DOMAIN edits :
               place[i] < k => \E l \in inEffect(j) : place[l] = k
  BY DEF JournalFits, Edit!AppliedLast
<1>2. /\ Len(j) \in Nat /\ Len(t) \in Nat /\ d \in Nat
      /\ DOMAIN j = 1..Len(j) /\ DOMAIN t = 1..Len(t)
      /\ \A i \in DOMAIN t : i \in Nat /\ i + d \in DOMAIN j /\ t[i] = j[i + d]
  <2>1. /\ Len(j) \in Nat /\ Len(t) \in Nat /\ d \in Nat
        /\ DOMAIN j = 1..Len(j) /\ DOMAIN t = 1..Len(t)
    OBVIOUS
  <2> QED BY <2>1
<1>3. \A i \in inEffect(t) : i + d \in inEffect(j) /\ t[i] = j[i + d]
  BY <1>2
<1>4. \A l \in inEffect(j) : l > d => l - d \in inEffect(t)
  <2> TAKE l \in inEffect(j)
  <2> HAVE l > d
  <2>1. l - d \in DOMAIN t /\ (l - d) + d = l
    BY <1>2
  <2> QED BY <1>2, <2>1
<1> DEFINE moved == [i \in inEffect(t) |-> place[i + d]]
<1>5. moved \in [inEffect(t) -> DOMAIN edits]
  BY <1>3
<1>6. ASSUME NEW i \in inEffect(t)
      PROVE  /\ edits[moved[i]] = t[i].mark
             /\ \A k \in inEffect(t) : i < k => moved[i] < moved[k]
             /\ \A k \in DOMAIN edits :
                  moved[i] < k => \E l \in inEffect(t) : moved[l] = k
  <2>1. edits[moved[i]] = t[i].mark
    BY <1>1, <1>3
  <2>2. \A k \in inEffect(t) : i < k => moved[i] < moved[k]
    <3> TAKE k \in inEffect(t)
    <3> HAVE i < k
    <3>1. i + d < k + d
      BY <1>2
    <3> QED BY <1>1, <1>3, <3>1
  <2>3. ASSUME NEW k \in DOMAIN edits, moved[i] < k
        PROVE  \E l \in inEffect(t) : moved[l] = k
    <3>1. PICK l \in inEffect(j) : place[l] = k
      BY <1>1, <1>3, <2>3
    <3>2. place[i + d] \in Nat /\ k \in Nat /\ place[i + d] < k
      <4>1. DOMAIN edits \subseteq Nat
        BY <1>0
      <4> QED BY <1>1, <1>3, <2>3, <4>1
    <3>3. ~(l <= i + d)
      <4>1. l = i + d => place[l] = place[i + d]
        OBVIOUS
      <4>2. l < i + d => place[l] < place[i + d]
        BY <1>1, <1>3
      <4>3. l \in Nat /\ i + d \in Nat
        BY <1>2
      <4> QED BY <3>1, <3>2, <4>1, <4>2, <4>3
    <3>4. l - d \in inEffect(t) /\ (l - d) + d = l
      BY <1>2, <1>4, <3>3
    <3> QED BY <3>1, <3>4
  <2> QED BY <2>1, <2>2, <2>3
<1>7. Edit!AppliedLast(t, edits)
  BY <1>5, <1>6 DEF Edit!AppliedLast
<1>8. \A i \in DOMAIN t :
        /\ t[i].base \in DOMAIN h /\ t[i].target \in DOMAIN h
        /\ h[t[i].target] = Append(h[t[i].base], t[i].mark)
  BY <1>2 DEF JournalFits
<1>9. \A i, k \in DOMAIN t :
        t[i].life = "applied" /\ t[k].life = "undone" => i < k
  <2> TAKE i, k \in DOMAIN t
  <2> HAVE t[i].life = "applied" /\ t[k].life = "undone"
  <2>1. i + d < k + d
    BY <1>2 DEF JournalFits
  <2> QED BY <1>2, <2>1
<1> QED BY <1>7, <1>8, <1>9 DEF JournalFits

LEMMA Abandoning ==
  ASSUME NEW e \in Entries
  PROVE  LET f == Edit!NoLongerRedoable(e) IN
         /\ f \in Entries
         /\ f.mark = e.mark /\ f.base = e.base /\ f.target = e.target
         /\ f.life # "undone" /\ (f.life = "applied" <=> e.life = "applied")
BY DEF Edit!NoLongerRedoable, Entries, Edit!Lives

(* A new edit: what was undone is abandoned, the entry comes last.         *)
LEMMA EditingFits ==
  ASSUME NEW h \in Histories, NEW j \in Seq(Entries), JournalFits(h, j),
         NEW mark \in Edit!Marks, EachOnce(Append(h[Len(h)], mark)),
         NEW entry \in Entries, entry.mark = mark, entry.base = Len(h),
         entry.target = Len(h) + 1, entry.life = "applied",
         NEW kept \in Seq(Entries), Len(kept) = Len(j),
         \A i \in 1..Len(j) : kept[i] = Edit!NoLongerRedoable(j[i])
  PROVE  JournalFits(Append(h, Append(h[Len(h)], mark)), Append(kept, entry))
<1> DEFINE inEffect(s) == {i \in DOMAIN s : s[i].life = "applied"}
           edits == h[Len(h)]
           more == Append(edits, mark)
           g == Append(h, more)
           t == Append(kept, entry)
           n == Len(j) + 1
<1>1. /\ Len(h) \in Nat \ {0} /\ DOMAIN h = 1..Len(h)
      /\ edits \in Seq(Edit!Marks)
  BY DEF JournalFits, Histories
<1>2. /\ more \in Seq(Edit!Marks) /\ Len(more) = Len(edits) + 1
      /\ Len(edits) \in Nat /\ DOMAIN edits = 1..Len(edits)
      /\ DOMAIN more = DOMAIN edits \cup {Len(edits) + 1}
      /\ more[Len(edits) + 1] = mark
      /\ \A k \in DOMAIN edits : more[k] = edits[k]
  BY <1>1
<1>3. /\ g \in Seq(Seq(Edit!Marks)) /\ Len(g) = Len(h) + 1
      /\ DOMAIN g = DOMAIN h \cup {Len(h) + 1} /\ g[Len(h) + 1] = more
      /\ \A r \in DOMAIN h : g[r] = h[r]
  BY <1>1, <1>2 DEF Histories
<1>4. /\ Len(j) \in Nat /\ DOMAIN j = 1..Len(j)
      /\ Len(t) = n /\ DOMAIN t = DOMAIN j \cup {n} /\ t[n] = entry
      /\ \A i \in DOMAIN j : t[i] = Edit!NoLongerRedoable(j[i])
  OBVIOUS
<1>5. \A i \in DOMAIN j :
        /\ t[i].mark = j[i].mark /\ t[i].base = j[i].base
        /\ t[i].target = j[i].target /\ t[i].life # "undone"
        /\ t[i].life = "applied" <=> j[i].life = "applied"
  <2> TAKE i \in DOMAIN j
  <2>1. j[i] \in Entries /\ t[i] = Edit!NoLongerRedoable(j[i])
    BY <1>4
  <2> QED BY <2>1, Abandoning
<1> HIDE DEF edits, more, g, t
<1>6. inEffect(t) = inEffect(j) \cup {n}
  BY <1>4, <1>5
<1>7. PICK place \in [inEffect(j) -> DOMAIN edits] :
        \A i \in inEffect(j) :
          /\ edits[place[i]] = j[i].mark
          /\ \A k \in inEffect(j) : i < k => place[i] < place[k]
          /\ \A k \in DOMAIN edits :
               place[i] < k => \E l \in inEffect(j) : place[l] = k
  BY DEF JournalFits, Edit!AppliedLast, edits
<1> DEFINE moved == [i \in inEffect(t) |->
                       IF i = n THEN Len(edits) + 1 ELSE place[i]]
<1>8. moved \in [inEffect(t) -> DOMAIN more]
  BY <1>2, <1>6
<1>9. ASSUME NEW i \in inEffect(t)
      PROVE  /\ more[moved[i]] = t[i].mark
             /\ \A k \in inEffect(t) : i < k => moved[i] < moved[k]
             /\ \A k \in DOMAIN more :
                  moved[i] < k => \E l \in inEffect(t) : moved[l] = k
  <2>1. more[moved[i]] = t[i].mark
    BY <1>2, <1>4, <1>5, <1>6, <1>7
  <2>2. ASSUME NEW k \in inEffect(t), i < k PROVE moved[i] < moved[k]
    <3>1. i \in inEffect(j)
      BY <1>4, <1>6, <2>2
    <3>2. CASE k = n
      BY <1>2, <1>4, <3>1, <3>2
    <3>3. CASE k \in inEffect(j)
      BY <1>4, <1>6, <1>7, <2>2, <3>1, <3>3
    <3> QED BY <1>6, <3>2, <3>3
  <2>3. ASSUME NEW k \in DOMAIN more, moved[i] < k
        PROVE  \E l \in inEffect(t) : moved[l] = k
    <3>1. CASE k = Len(edits) + 1
      BY <1>6, <3>1
    <3>2. CASE k \in DOMAIN edits
      <4>1. i \in inEffect(j) /\ i # n
        BY <1>2, <1>4, <1>6, <2>3, <3>2
      <4>2. PICK l \in inEffect(j) : place[l] = k
        BY <1>6, <1>7, <2>3, <3>2, <4>1
      <4> QED BY <1>4, <1>6, <4>2
    <3> QED BY <1>2, <3>1, <3>2
  <2> QED BY <2>1, <2>2, <2>3
<1>10. Edit!AppliedLast(t, more)
  BY <1>8, <1>9 DEF Edit!AppliedLast
<1>11. \A r \in DOMAIN g : EachOnce(g[r])
  <2>1. EachOnce(more)
    BY DEF more, edits
  <2>2. \A r \in DOMAIN h : EachOnce(h[r])
    BY DEF JournalFits
  <2> QED BY <1>3, <2>1, <2>2
<1>12. \A i \in DOMAIN t :
         /\ t[i].base \in DOMAIN g /\ t[i].target \in DOMAIN g
         /\ g[t[i].target] = Append(g[t[i].base], t[i].mark)
  <2> TAKE i \in DOMAIN t
  <2>1. CASE i = n
    <3>1. g[Len(h)] = edits /\ more = Append(edits, mark)
      BY <1>1, <1>3 DEF edits, more
    <3>2. Len(h) \in DOMAIN g /\ Len(h) + 1 \in DOMAIN g
      <4>1. Len(h) \in DOMAIN h
        BY <1>1
      <4> QED BY <1>3, <4>1
    <3>3. /\ t[i].mark = mark /\ t[i].base = Len(h)
          /\ t[i].target = Len(h) + 1
      BY <1>4, <2>1
    <3>4. g[Len(h) + 1] = more
      BY <1>3
    <3> QED BY <3>1, <3>2, <3>3, <3>4, Zenon
  <2>2. CASE i \in DOMAIN j
    <3>1. /\ j[i].base \in DOMAIN h /\ j[i].target \in DOMAIN h
          /\ h[j[i].target] = Append(h[j[i].base], j[i].mark)
      BY <2>2 DEF JournalFits
    <3>2. /\ t[i].mark = j[i].mark /\ t[i].base = j[i].base
          /\ t[i].target = j[i].target
      BY <1>5, <2>2
    <3>3. /\ j[i].base \in DOMAIN g /\ j[i].target \in DOMAIN g
          /\ g[j[i].base] = h[j[i].base] /\ g[j[i].target] = h[j[i].target]
      BY <1>3, <3>1
    <3> QED BY <3>1, <3>2, <3>3
  <2> QED BY <1>4, <2>1, <2>2
<1>13. \A i, k \in DOMAIN t :
         t[i].life = "applied" /\ t[k].life = "undone" => i < k
  BY <1>4, <1>5
<1>14. g # <<>> /\ g[Len(g)] = more
  BY <1>1, <1>3
<1> QED
  <2> HIDE DEF g, t, more, edits
  <2>1. JournalFits(g, t)
    BY <1>10, <1>11, <1>12, <1>13, <1>14 DEF JournalFits
  <2> QED BY <2>1 DEF g, t, more, edits

(* The last edit in effect is undone: the content is the one before it.    *)
LEMMA UndoingFits ==
  ASSUME NEW h \in Histories, NEW j \in Seq(Entries), JournalFits(h, j),
         NEW i \in DOMAIN j, j[i].life = "applied",
         \A k \in DOMAIN j : j[k].life = "applied" => k <= i,
         h[j[i].target] = h[Len(h)],
         NEW head \in Nat
  PROVE  JournalFits(Append(h, h[j[i].base]),
                     [j EXCEPT ![i].life = "undone", ![i].head = head])
<1> DEFINE inEffect(s) == {k \in DOMAIN s : s[k].life = "applied"}
           edits == h[Len(h)]
           less == h[j[i].base]
           g == Append(h, less)
           t == [j EXCEPT ![i].life = "undone", ![i].head = head]
<1>1. /\ Len(h) \in Nat \ {0} /\ DOMAIN h = 1..Len(h)
      /\ \A r \in DOMAIN h : h[r] \in Seq(Edit!Marks) /\ EachOnce(h[r])
      /\ j[i].base \in DOMAIN h /\ j[i].target \in DOMAIN h
      /\ edits = Append(less, j[i].mark)
  <2>1. h \in Seq(Seq(Edit!Marks))
    BY DEF Histories
  <2>2. /\ Len(h) \in Nat /\ DOMAIN h = 1..Len(h)
        /\ \A r \in DOMAIN h : h[r] \in Seq(Edit!Marks)
    BY <2>1
  <2>3. h # <<>> /\ \A r \in DOMAIN h : EachOnce(h[r])
    BY DEF JournalFits
  <2>4. Len(h) # 0
    BY <2>1, <2>3
  <2>5. /\ j[i].base \in DOMAIN h /\ j[i].target \in DOMAIN h
        /\ h[j[i].target] = Append(h[j[i].base], j[i].mark)
    BY DEF JournalFits
  <2> QED BY <2>2, <2>3, <2>4, <2>5
<1>2. j[i].mark \in Edit!Marks
  <2>1. j[i] \in Entries
    OBVIOUS
  <2> QED BY <2>1 DEF Entries
<1>3. /\ less \in Seq(Edit!Marks) /\ Len(less) \in Nat
      /\ Len(edits) = Len(less) + 1
      /\ DOMAIN less = 1..Len(less) /\ DOMAIN edits = 1..(Len(less) + 1)
      /\ \A k \in DOMAIN less : less[k] = edits[k]
  BY <1>1, <1>2
<1>4. /\ Len(g) = Len(h) + 1 /\ DOMAIN g = DOMAIN h \cup {Len(h) + 1}
      /\ g[Len(h) + 1] = less /\ g # <<>>
      /\ \A r \in DOMAIN h : g[r] = h[r]
  BY <1>3, RevisionAdded
<1>5. /\ DOMAIN t = DOMAIN j /\ t[i].life = "undone"
      /\ \A k \in DOMAIN j :
           /\ t[k].mark = j[k].mark /\ t[k].base = j[k].base
           /\ t[k].target = j[k].target
           /\ k # i => t[k].life = j[k].life
  <2> DEFINE undone == [j[i] EXCEPT !.life = "undone", !.head = head]
  <2>1. \A k \in DOMAIN j : j[k] \in Entries
    OBVIOUS
  <2>2. t = [j EXCEPT ![i] = undone]
    OBVIOUS
  <2>3. /\ undone.life = "undone" /\ undone.mark = j[i].mark
        /\ undone.base = j[i].base /\ undone.target = j[i].target
    BY <2>1 DEF Entries
  <2> QED BY <2>2, <2>3
<1> HIDE DEF edits, less, g, t
<1>6. inEffect(t) = inEffect(j) \ {i}
  BY <1>5
<1>7. PICK place \in [inEffect(j) -> DOMAIN edits] :
        \A k \in inEffect(j) :
          /\ edits[place[k]] = j[k].mark
          /\ \A l \in inEffect(j) : k < l => place[k] < place[l]
          /\ \A m \in DOMAIN edits :
               place[k] < m => \E l \in inEffect(j) : place[l] = m
  BY DEF JournalFits, Edit!AppliedLast, edits
<1>8. \A k \in DOMAIN j : k \in Nat
  OBVIOUS
<1>9. \A k \in inEffect(t) : k \in inEffect(j) /\ k < i
  BY <1>6, <1>8
<1>10. \A k \in inEffect(t) : place[k] \in DOMAIN less
  <2> TAKE k \in inEffect(t)
  <2>1. place[k] < place[i] /\ place[k] \in DOMAIN edits
        /\ place[i] \in DOMAIN edits
    BY <1>7, <1>9
  <2> QED BY <1>3, <2>1
<1> DEFINE left == [k \in inEffect(t) |-> place[k]]
<1>11. left \in [inEffect(t) -> DOMAIN less]
  BY <1>10
<1>12. place[i] = Len(edits)
  <2>1. i \in inEffect(j) /\ place[i] \in DOMAIN edits
    BY <1>7
  <2>2. ASSUME place[i] < Len(edits) PROVE FALSE
    <3>1. Len(edits) \in DOMAIN edits
      BY <1>3
    <3>2. PICK l \in inEffect(j) : place[l] = Len(edits)
      BY <1>7, <2>1, <2>2, <3>1
    <3>3. l <= i /\ l # i
      BY <1>3, <2>2, <3>2
    <3>4. place[l] < place[i]
      BY <1>7, <1>8, <2>1, <3>3
    <3> QED BY <1>3, <2>1, <2>2, <3>2, <3>4
  <2> QED BY <1>3, <2>1, <2>2
<1>13. ASSUME NEW k \in inEffect(t)
       PROVE  /\ less[left[k]] = t[k].mark
              /\ \A l \in inEffect(t) : k < l => left[k] < left[l]
              /\ \A m \in DOMAIN less :
                   left[k] < m => \E l \in inEffect(t) : left[l] = m
  <2>1. less[left[k]] = t[k].mark
    BY <1>3, <1>5, <1>7, <1>9, <1>10
  <2>2. \A l \in inEffect(t) : k < l => left[k] < left[l]
    BY <1>7, <1>9
  <2>3. ASSUME NEW m \in DOMAIN less, left[k] < m
        PROVE  \E l \in inEffect(t) : left[l] = m
    <3>1. m \in DOMAIN edits /\ m # Len(edits)
      BY <1>3
    <3>2. PICK l \in inEffect(j) : place[l] = m
      BY <1>7, <1>9, <2>3, <3>1
    <3>3. l # i
      BY <1>12, <3>1, <3>2
    <3> QED BY <1>6, <3>2, <3>3
  <2> QED BY <2>1, <2>2, <2>3
<1>14. Edit!AppliedLast(t, less)
  BY <1>11, <1>13 DEF Edit!AppliedLast
<1>15. \A r \in DOMAIN g : EachOnce(g[r])
  BY <1>1, <1>4 DEF less
<1>16. \A k \in DOMAIN t :
         /\ t[k].base \in DOMAIN g /\ t[k].target \in DOMAIN g
         /\ g[t[k].target] = Append(g[t[k].base], t[k].mark)
  <2> TAKE k \in DOMAIN t
  <2>1. /\ j[k].base \in DOMAIN h /\ j[k].target \in DOMAIN h
        /\ h[j[k].target] = Append(h[j[k].base], j[k].mark)
    BY <1>5 DEF JournalFits
  <2> QED BY <1>4, <1>5, <2>1
<1>17. ASSUME NEW k \in DOMAIN t, NEW l \in DOMAIN t,
              t[k].life = "applied", t[l].life = "undone"
       PROVE  k < l
  <2>1. k \in inEffect(t) /\ k \in DOMAIN j /\ l \in DOMAIN j
    BY <1>5, <1>17
  <2>2. k \in inEffect(j) /\ k < i
    BY <1>9, <2>1
  <2>3. CASE l = i
    BY <2>2, <2>3
  <2>4. CASE l # i
    <3>1. j[k].life = "applied" /\ j[l].life = "undone"
      BY <1>5, <1>17, <2>1, <2>2, <2>4
    <3> QED BY <2>1, <3>1 DEF JournalFits
  <2> QED BY <2>3, <2>4
<1> QED
  <2> HIDE DEF g, t, less
  <2>1. JournalFits(g, t)
    BY <1>4, <1>14, <1>15, <1>16, <1>17 DEF JournalFits
  <2> QED BY <2>1 DEF g, t, less

(* The first edit undone is redone: it comes to the end of the content.    *)
LEMMA RedoingFits ==
  ASSUME NEW h \in Histories, NEW j \in Seq(Entries), JournalFits(h, j),
         NEW i \in DOMAIN j, j[i].life = "undone",
         \A k \in DOMAIN j : j[k].life = "undone" => i <= k,
         h[j[i].base] = h[Len(h)],
         NEW head \in Nat
  PROVE  JournalFits(Append(h, h[j[i].target]),
                     [j EXCEPT ![i].life = "applied", ![i].head = head])
<1> DEFINE inEffect(s) == {k \in DOMAIN s : s[k].life = "applied"}
           edits == h[Len(h)]
           more == h[j[i].target]
           g == Append(h, more)
           t == [j EXCEPT ![i].life = "applied", ![i].head = head]
<1>1. /\ Len(h) \in Nat \ {0} /\ DOMAIN h = 1..Len(h)
      /\ \A r \in DOMAIN h : h[r] \in Seq(Edit!Marks) /\ EachOnce(h[r])
      /\ j[i].base \in DOMAIN h /\ j[i].target \in DOMAIN h
      /\ more = Append(edits, j[i].mark)
  <2>1. h \in Seq(Seq(Edit!Marks))
    BY DEF Histories
  <2>2. /\ Len(h) \in Nat /\ DOMAIN h = 1..Len(h)
        /\ \A r \in DOMAIN h : h[r] \in Seq(Edit!Marks)
    BY <2>1
  <2>3. h # <<>> /\ \A r \in DOMAIN h : EachOnce(h[r])
    BY DEF JournalFits
  <2>4. Len(h) # 0
    BY <2>1, <2>3
  <2>5. /\ j[i].base \in DOMAIN h /\ j[i].target \in DOMAIN h
        /\ h[j[i].target] = Append(h[j[i].base], j[i].mark)
    BY DEF JournalFits
  <2> QED BY <2>2, <2>3, <2>4, <2>5
<1>2. edits \in Seq(Edit!Marks) /\ j[i].mark \in Edit!Marks
  <2>1. j[i] \in Entries
    OBVIOUS
  <2>2. Len(h) \in DOMAIN h
    BY <1>1
  <2> QED BY <1>1, <2>1, <2>2 DEF Entries
<1>3. /\ more \in Seq(Edit!Marks) /\ Len(edits) \in Nat
      /\ DOMAIN edits = 1..Len(edits)
      /\ DOMAIN more = DOMAIN edits \cup {Len(edits) + 1}
      /\ more[Len(edits) + 1] = j[i].mark
      /\ \A k \in DOMAIN edits : more[k] = edits[k]
  BY <1>1, <1>2
<1>4. /\ Len(g) = Len(h) + 1 /\ DOMAIN g = DOMAIN h \cup {Len(h) + 1}
      /\ g[Len(h) + 1] = more /\ g # <<>>
      /\ \A r \in DOMAIN h : g[r] = h[r]
  BY <1>3, RevisionAdded
<1>5. /\ DOMAIN t = DOMAIN j /\ t[i].life = "applied"
      /\ \A k \in DOMAIN j :
           /\ t[k].mark = j[k].mark /\ t[k].base = j[k].base
           /\ t[k].target = j[k].target
           /\ k # i => t[k].life = j[k].life
  <2> DEFINE again == [j[i] EXCEPT !.life = "applied", !.head = head]
  <2>1. \A k \in DOMAIN j : j[k] \in Entries
    OBVIOUS
  <2>2. t = [j EXCEPT ![i] = again]
    OBVIOUS
  <2>3. /\ again.life = "applied" /\ again.mark = j[i].mark
        /\ again.base = j[i].base /\ again.target = j[i].target
    BY <2>1 DEF Entries
  <2> QED BY <2>2, <2>3
<1> HIDE DEF edits, more, g, t
<1>6. inEffect(t) = inEffect(j) \cup {i}
  BY <1>5
<1>7. PICK place \in [inEffect(j) -> DOMAIN edits] :
        \A k \in inEffect(j) :
          /\ edits[place[k]] = j[k].mark
          /\ \A l \in inEffect(j) : k < l => place[k] < place[l]
          /\ \A m \in DOMAIN edits :
               place[k] < m => \E l \in inEffect(j) : place[l] = m
  BY DEF JournalFits, Edit!AppliedLast, edits
<1>8. \A k \in DOMAIN j : k \in Nat
  OBVIOUS
<1>9. /\ i \notin inEffect(j)
      /\ \A k \in inEffect(j) : k < i
  BY DEF JournalFits
<1> DEFINE moved == [k \in inEffect(t) |->
                       IF k = i THEN Len(edits) + 1 ELSE place[k]]
<1>10. moved \in [inEffect(t) -> DOMAIN more]
  BY <1>3, <1>6
<1>11. ASSUME NEW k \in inEffect(t)
       PROVE  /\ more[moved[k]] = t[k].mark
              /\ \A l \in inEffect(t) : k < l => moved[k] < moved[l]
              /\ \A m \in DOMAIN more :
                   moved[k] < m => \E l \in inEffect(t) : moved[l] = m
  <2>1. more[moved[k]] = t[k].mark
    BY <1>3, <1>5, <1>6, <1>7
  <2>2. ASSUME NEW l \in inEffect(t), k < l PROVE moved[k] < moved[l]
    <3>1. k \in inEffect(j) /\ k # i
      BY <1>6, <1>8, <1>9, <2>2
    <3>2. place[k] \in Nat /\ place[k] <= Len(edits)
      BY <1>3, <3>1
    <3>3. CASE l = i
      BY <1>3, <3>1, <3>2, <3>3
    <3>4. CASE l \in inEffect(j)
      BY <1>7, <1>9, <2>2, <3>1, <3>4
    <3> QED BY <1>6, <3>3, <3>4
  <2>3. ASSUME NEW m \in DOMAIN more, moved[k] < m
        PROVE  \E l \in inEffect(t) : moved[l] = m
    <3>1. CASE m = Len(edits) + 1
      BY <1>6, <3>1
    <3>2. CASE m \in DOMAIN edits
      <4>1. k # i
        BY <1>3, <2>3, <3>2
      <4>2. k \in inEffect(j) /\ place[k] < m
        BY <1>6, <2>3, <4>1
      <4>3. PICK l \in inEffect(j) : place[l] = m
        BY <1>7, <3>2, <4>2
      <4> QED BY <1>6, <1>9, <4>3
    <3> QED BY <1>3, <3>1, <3>2
  <2> QED BY <2>1, <2>2, <2>3
<1>12. Edit!AppliedLast(t, more)
  BY <1>10, <1>11 DEF Edit!AppliedLast
<1>13. \A r \in DOMAIN g : EachOnce(g[r])
  BY <1>1, <1>4 DEF more
<1>14. \A k \in DOMAIN t :
         /\ t[k].base \in DOMAIN g /\ t[k].target \in DOMAIN g
         /\ g[t[k].target] = Append(g[t[k].base], t[k].mark)
  <2> TAKE k \in DOMAIN t
  <2>1. /\ j[k].base \in DOMAIN h /\ j[k].target \in DOMAIN h
        /\ h[j[k].target] = Append(h[j[k].base], j[k].mark)
    BY <1>5 DEF JournalFits
  <2> QED BY <1>4, <1>5, <2>1
<1>15. \A k, l \in DOMAIN t :
         t[k].life = "applied" /\ t[l].life = "undone" => k < l
  <2> TAKE k, l \in DOMAIN t
  <2> HAVE t[k].life = "applied" /\ t[l].life = "undone"
  <2>1. l # i /\ j[l].life = "undone" /\ i < l
    BY <1>5, <1>8
  <2>2. k = i \/ k < i
    BY <1>5, <1>9
  <2> QED BY <1>5, <1>8, <2>1, <2>2
<1> QED
  <2> HIDE DEF g, t, more
  <2>1. JournalFits(g, t)
    BY <1>4, <1>12, <1>13, <1>14, <1>15 DEF JournalFits
  <2> QED BY <2>1 DEF g, t, more

Grants == [kind : Edit!Kinds, base : Nat, mint : Int,
           used : Settings \cup {Nobody, TRUE}]

(* What an edit is by has been minted, for a revision before the edit.     *)
MarksKnown(versions, granted, mints) ==
  \A r \in DOMAIN versions : \A i \in DOMAIN versions[r] :
    LET c == versions[r][i].by IN
    c # Nobody =>
      c \in mints /\ (granted[c] # Nobody => granted[c].base < r)

RecordFits(value, granted, mints) ==
  /\ value \in [history : Histories, authority : Int \cup {Nobody},
                journal : Seq(Entries), pending : BOOLEAN]
  /\ JournalFits(value.history, value.journal)
  /\ MarksKnown(value.history, granted, mints)

EditsInv ==
  /\ minted \subseteq Capabilities
  /\ capability \in [Capabilities -> Grants \cup {Nobody}]
  /\ \A c \in Capabilities : capability[c] # Nobody => c \in minted
  /\ RecordFits(record, capability, minted)
  /\ RecordFits(held, capability, minted)
  /\ edited # Nobody =>
       \E i \in DOMAIN Edit!Content(held) : Edit!Content(held)[i] = edited

LEMMA EditsStart == Edit!Init => EditsInv
<1> SUFFICES ASSUME Edit!Init PROVE EditsInv
  OBVIOUS
<1> DEFINE created == [history |-> <<<<>>>>, authority |-> 1,
                       journal |-> <<>>, pending |-> FALSE]
<1>1. /\ record = created /\ held = created
      /\ capability = [c \in Capabilities |-> Nobody]
      /\ minted = {} /\ edited = Nobody
  BY DEF Edit!Init, Edit!Created
<1>2. /\ created.history \in Histories /\ created.history # <<>>
      /\ DOMAIN created.history = {1} /\ created.history[1] = <<>>
  BY DEF Histories
<1>3. JournalFits(created.history, created.journal)
  <2>1. EachOnce(<<>>)
    BY DEF EachOnce
  <2> QED BY <1>2, <2>1, EmptyFits
<1>4. MarksKnown(created.history, capability, minted)
  BY <1>2 DEF MarksKnown
<1>5. RecordFits(created, capability, minted)
  BY <1>2, <1>3, <1>4 DEF RecordFits
<1> QED BY <1>1, <1>5 DEF EditsInv

(* Grants that are used or forgotten, and those newly minted, are for no   *)
(* edit there is.                                                          *)
LEMMA GrantsGoOn ==
  ASSUME NEW value, NEW granted, NEW mints, NEW next, NEW after,
         RecordFits(value, granted, mints), mints \subseteq after,
         \A c \in mints :
           next[c] # Nobody =>
             granted[c] # Nobody /\ next[c].base = granted[c].base
  PROVE  RecordFits(value, next, after)
BY DEF RecordFits, MarksKnown

LEMMA SavingKeeps ==
  ASSUME EditsInv, NEW next, RecordFits(next, capability, minted),
         Edit!Save(next), UNCHANGED <<capability, minted>>
  PROVE  EditsInv'
<1>1. /\ record' = record \/ record' = next
      /\ held' = held \/ held' = next
      /\ edited' = Nobody
  BY DEF Edit!Save, Edit!Done, Edit!Unsure, Edit!Lost
<1>2. /\ RecordFits(record', capability', minted')
      /\ RecordFits(held', capability', minted')
  BY <1>1 DEF EditsInv
<1> QED BY <1>1, <1>2 DEF EditsInv

(* A revision that repeats a content, or adds no edit of a capability.     *)
LEMMA MarksStayKnown ==
  ASSUME NEW h \in Histories, h # <<>>, NEW granted, NEW mints,
         MarksKnown(h, granted, mints), NEW content \in Seq(Edit!Marks),
         \A i \in DOMAIN content :
           LET c == content[i].by IN
           c # Nobody =>
             \/ c \in mints /\ (granted[c] # Nobody =>
                                 /\ granted[c].base \in Nat
                                 /\ granted[c].base <= Len(h))
             \/ \E r \in DOMAIN h : \E k \in DOMAIN h[r] : h[r][k].by = c,
         \A c \in mints : granted[c] # Nobody => granted[c].base \in Nat
  PROVE  MarksKnown(Append(h, content), granted, mints)
<1> DEFINE g == Append(h, content)
<1>1. /\ Len(h) \in Nat \ {0} /\ DOMAIN h = 1..Len(h)
      /\ DOMAIN g = DOMAIN h \cup {Len(h) + 1} /\ g[Len(h) + 1] = content
      /\ \A r \in DOMAIN h : g[r] = h[r]
  BY DEF Histories
<1> HIDE DEF g
<1>2. ASSUME NEW i \in DOMAIN content, NEW c, c = content[i].by, c # Nobody
      PROVE  /\ c \in mints
             /\ granted[c] # Nobody => granted[c].base < Len(h) + 1
  <2>1. CASE c \in mints /\ (granted[c] # Nobody =>
                                 /\ granted[c].base \in Nat
                                 /\ granted[c].base <= Len(h))
    BY <1>1, <2>1
  <2>2. CASE \E r \in DOMAIN h : \E k \in DOMAIN h[r] : h[r][k].by = c
    <3>1. PICK r \in DOMAIN h : \E k \in DOMAIN h[r] : h[r][k].by = c
      BY <2>2
    <3>2. c \in mints /\ (granted[c] # Nobody => granted[c].base < r)
      BY <1>2, <3>1 DEF MarksKnown
    <3> QED BY <1>1, <3>2
  <2> QED BY <1>2, <2>1, <2>2
<1> QED BY <1>1, <1>2 DEF MarksKnown, g

(* The records that operations other than edits save.                      *)
LEMMA RevokedFits ==
  ASSUME EditsInv
  PROVE  RecordFits(Edit!Revoked(held), capability, minted)
<1>1. RecordFits(held, capability, minted)
  BY DEF EditsInv
<1>2. JournalFits(held.history, <<>>)
  BY <1>1, EmptyFits DEF RecordFits, JournalFits
<1>3. Edit!Revoked(held).history = held.history
  BY <1>1 DEF RecordFits, Edit!Revoked
<1>4. Edit!Revoked(held).journal = <<>>
  BY <1>1 DEF RecordFits, Edit!Revoked
<1>5. Edit!Revoked(held) \in [history : Histories,
        authority : Int \cup {Nobody}, journal : Seq(Entries),
        pending : BOOLEAN]
  <2>1. /\ held \in [history : Histories, authority : Int \cup {Nobody},
                     journal : Seq(Entries), pending : BOOLEAN]
        /\ <<>> \in Seq(Entries)
    BY <1>1 DEF RecordFits
  <2> QED BY <2>1 DEF Edit!Revoked
<1> QED BY <1>1, <1>2, <1>3, <1>4, <1>5 DEF RecordFits

(* A revision is added and the journal archived.                           *)
LEMMA ArchivedFits ==
  ASSUME EditsInv, NEW content \in Seq(Edit!Marks), EachOnce(content),
         \A i \in DOMAIN content :
           content[i].by # Nobody =>
             \E r \in DOMAIN held.history : \E k \in DOMAIN held.history[r] :
               held.history[r][k].by = content[i].by,
         NEW next \in [history : {Append(held.history, content)},
                       authority : {Nobody}, journal : {<<>>},
                       pending : BOOLEAN]
  PROVE  RecordFits(next, capability, minted)
<1> DEFINE h == held.history
           g == Append(h, content)
<1>1. /\ RecordFits(held, capability, minted)
      /\ h \in Histories /\ h # <<>>
      /\ \A r \in DOMAIN h : EachOnce(h[r])
  BY DEF EditsInv, RecordFits, JournalFits
<1>2. g \in Histories /\ g # <<>> /\ \A r \in DOMAIN g : EachOnce(g[r])
  <2>1. /\ g \in Histories /\ g # <<>>
        /\ DOMAIN g = DOMAIN h \cup {Len(h) + 1} /\ g[Len(h) + 1] = content
        /\ \A r \in DOMAIN h : g[r] = h[r]
    BY <1>1, RevisionAdded
  <2> QED BY <1>1, <2>1
<1>3. JournalFits(g, <<>>)
  BY <1>2, EmptyFits
<1>4. \A c \in minted : capability[c] # Nobody => capability[c].base \in Nat
  BY DEF EditsInv, Grants
<1>5. MarksKnown(g, capability, minted)
  BY <1>1, <1>4, MarksStayKnown DEF RecordFits
<1>6. next.history = g /\ next.journal = <<>>
  OBVIOUS
<1>7. next \in [history : Histories, authority : Int \cup {Nobody},
                journal : Seq(Entries), pending : BOOLEAN]
  <2>1. <<>> \in Seq(Entries) /\ g \in Histories
    BY <1>2
  <2> HIDE DEF g
  <2>2. next \in [history : {g}, authority : {Nobody}, journal : {<<>>},
                  pending : BOOLEAN]
    BY DEF g
  <2> QED BY <2>1, <2>2
<1> QED BY <1>3, <1>5, <1>6, <1>7 DEF RecordFits

LEMMA ReviewsKeep ==
  ASSUME EditsInv,
         \/ Edit!Stage \/ Edit!Reject \/ Edit!Accept \/ Edit!UndoAIChange
         \/ Edit!Revoke \/ Edit!Activate
  PROVE  EditsInv'
<1>1. /\ RecordFits(held, capability, minted)
      /\ held.history \in Histories /\ held.history # <<>>
      /\ \A r \in DOMAIN held.history : EachOnce(held.history[r])
  BY DEF EditsInv, RecordFits, JournalFits
<1>2. UNCHANGED <<capability, minted>>
  BY DEF Edit!Stage, Edit!Reject, Edit!Accept, Edit!UndoAIChange,
    Edit!Revoke, Edit!Activate
<1>3. ASSUME NEW b \in BOOLEAN, Edit!Save([held EXCEPT !.pending = b])
      PROVE  EditsInv'
  <2>1. RecordFits([held EXCEPT !.pending = b], capability, minted)
    BY <1>1 DEF RecordFits
  <2> QED BY <1>2, <1>3, <2>1, SavingKeeps
<1>4. CASE Edit!Stage \/ Edit!Reject
  BY <1>3, <1>4 DEF Edit!Stage, Edit!Reject
<1>5. CASE Edit!Revoke
  BY <1>2, <1>5, RevokedFits, SavingKeeps DEF Edit!Revoke
<1>6. CASE Edit!Activate
  <2>1. PICK m \in 1..MaxMints :
          Edit!Save([Edit!Revoked(held) EXCEPT !.authority = m])
    BY <1>6 DEF Edit!Activate
  <2>2. m \in Int
    OBVIOUS
  <2>3. RecordFits(Edit!Revoked(held), capability, minted)
    BY RevokedFits
  <2>4. RecordFits([Edit!Revoked(held) EXCEPT !.authority = m], capability,
                   minted)
    BY <2>2, <2>3 DEF RecordFits
  <2> QED BY <1>2, <2>1, <2>4, SavingKeeps
<1> DEFINE last == held.history[Len(held.history)]
<1>7. last \in Seq(Edit!Marks) /\ Len(held.history) \in DOMAIN held.history
  BY <1>1 DEF Histories
<1>8. CASE Edit!Accept
  <2> DEFINE foreign == Edit!Mark(Nobody, Nobody)
             content == Append(last, foreign)
  <2>1. foreign \in Edit!Marks /\ foreign.by = Nobody
    BY DEF Edit!Mark, Edit!Marks
  <2>2. /\ content \in Seq(Edit!Marks)
        /\ DOMAIN content = DOMAIN last \cup {Len(last) + 1}
        /\ \A i \in DOMAIN last : content[i] = last[i]
        /\ content[Len(last) + 1] = foreign
    BY <1>7, <2>1
  <2>3. EachOnce(content)
    <3>1. EachOnce(last)
      BY <1>1, <1>7
    <3> QED BY <2>1, <2>2, <3>1 DEF EachOnce
  <2>4. \A i \in DOMAIN content :
          content[i].by # Nobody =>
            \E k \in DOMAIN last : last[k].by = content[i].by
    BY <2>1, <2>2
  <2> DEFINE next == [Edit!Revoked(held) EXCEPT
                        !.history = Append(@, content), !.pending = FALSE]
  <2>5. next \in [history : {Append(held.history, content)},
                  authority : {Nobody}, journal : {<<>>}, pending : BOOLEAN]
    BY <1>1 DEF RecordFits, Edit!Revoked
  <2>6. RecordFits(next, capability, minted)
    BY <1>7, <2>2, <2>3, <2>4, <2>5, ArchivedFits
  <2>7. Edit!Save(next)
    BY <1>8 DEF Edit!Accept, Edit!Content, Edit!Source
  <2> QED BY <1>2, <2>6, <2>7, SavingKeeps
<1>9. CASE Edit!UndoAIChange
  <2> DEFINE n == Len(held.history) - 1
             before == held.history[n]
             next == [Edit!Revoked(held) EXCEPT !.history = Append(@, before)]
  <2>1. n \in DOMAIN held.history
    BY <1>1, <1>7, <1>9 DEF Edit!UndoAIChange, Edit!Source, Histories
  <2>2. before \in Seq(Edit!Marks) /\ EachOnce(before)
    BY <1>1, <2>1 DEF Histories
  <2>3. next \in [history : {Append(held.history, before)},
                  authority : {Nobody}, journal : {<<>>}, pending : BOOLEAN]
    BY <1>1 DEF RecordFits, Edit!Revoked
  <2>4. RecordFits(next, capability, minted)
    BY <2>1, <2>2, <2>3, ArchivedFits
  <2>5. Edit!Save(next)
    BY <1>9 DEF Edit!UndoAIChange, Edit!Source
  <2> QED BY <1>2, <2>4, <2>5, SavingKeeps
<1> QED BY <1>4, <1>5, <1>6, <1>8, <1>9

LEMMA Turned ==
  ASSUME NEW e \in Entries, NEW life \in Edit!Lives, NEW head \in Nat
  PROVE  [e EXCEPT !.life = life, !.head = head] \in Entries
BY DEF Entries

(* Undo and redo.                                                          *)
LEMMA RestoringKeeps ==
  ASSUME EditsInv, Edit!Undo \/ Edit!Redo
  PROVE  EditsInv'
<1> DEFINE h == held.history
           j == held.journal
<1>1. /\ RecordFits(held, capability, minted)
      /\ h \in Histories /\ h # <<>> /\ j \in Seq(Entries)
      /\ JournalFits(h, j) /\ MarksKnown(h, capability, minted)
      /\ \A c \in minted : capability[c] # Nobody => capability[c].base \in Nat
  BY DEF EditsInv, RecordFits, JournalFits, Grants
<1>2. UNCHANGED <<capability, minted>>
  BY DEF Edit!Undo, Edit!Redo, Edit!Restore
<1>3. ASSUME NEW i \in DOMAIN j, NEW r \in DOMAIN h, NEW life \in Edit!Lives,
             JournalFits(Append(h, h[r]),
               [j EXCEPT ![i].life = life, ![i].head = Len(h) + 1]),
             Edit!Save([held EXCEPT !.history = Append(@, h[r]),
                                    !.journal[i].life = life,
                                    !.journal[i].head = Len(h) + 1])
      PROVE  EditsInv'
  <2> DEFINE g == Append(h, h[r])
             t == [j EXCEPT ![i].life = life, ![i].head = Len(h) + 1]
             next == [held EXCEPT !.history = Append(@, h[r]),
                                  !.journal[i].life = life,
                                  !.journal[i].head = Len(h) + 1]
  <2>1. h[r] \in Seq(Edit!Marks)
    BY <1>1 DEF Histories
  <2>2. g \in Histories /\ Len(h) \in Nat
    BY <1>1, <2>1, RevisionAdded
  <2>3. MarksKnown(g, capability, minted)
    BY <1>1, <2>1, MarksStayKnown
  <2>4. t \in Seq(Entries)
    <3> DEFINE entry == [j[i] EXCEPT !.life = life, !.head = Len(h) + 1]
    <3>1. j[i] \in Entries
      BY <1>1
    <3>2. entry \in Entries
      <4>1. PICK e \in Entries : e = j[i]
        BY <3>1
      <4>2. PICK n \in Nat : n = Len(h) + 1
        BY <2>2
      <4>3. [e EXCEPT !.life = life, !.head = n] \in Entries
        BY Turned
      <4> QED BY <4>1, <4>2, <4>3
    <3>3. t = [j EXCEPT ![i] = entry]
      OBVIOUS
    <3> QED BY <1>1, <3>2, <3>3
  <2>5. /\ held \in [history : Histories, authority : Int \cup {Nobody},
                     journal : Seq(Entries), pending : BOOLEAN]
        /\ next = [held EXCEPT !.history = g, !.journal = t]
    BY <1>1 DEF RecordFits
  <2> HIDE DEF g, t, next
  <2>6. /\ next.history = g /\ next.journal = t
        /\ next \in [history : Histories, authority : Int \cup {Nobody},
                     journal : Seq(Entries), pending : BOOLEAN]
    BY <2>2, <2>4, <2>5
  <2>7. RecordFits(next, capability, minted)
    BY <1>3, <2>3, <2>6 DEF RecordFits, g, t
  <2> QED BY <1>2, <1>3, <2>7, SavingKeeps DEF next
<1>4. CASE Edit!Undo
  <2>1. PICK i \in Edit!Turn("applied") :
          /\ h[j[i].target] = h[Len(h)]
          /\ Edit!Save([held EXCEPT !.history = Append(@, h[j[i].base]),
                                    !.journal[i].life = "undone",
                                    !.journal[i].head = Len(h) + 1])
    BY <1>4 DEF Edit!Undo, Edit!Restore, Edit!Content, Edit!Source
  <2>2. /\ i \in DOMAIN j /\ j[i].life = "applied"
        /\ \A k \in DOMAIN j : j[k].life = "applied" => k <= i
    BY <2>1 DEF Edit!Turn, Edit!Having
  <2>3. j[i].base \in DOMAIN h /\ Len(h) + 1 \in Nat
    <3>1. Len(h) \in Nat
      BY <1>1 DEF Histories
    <3>2. JournalFits(h, j)
      BY <1>1
    <3>3. j[i].base \in DOMAIN h
      BY <2>2, <3>2 DEF JournalFits
    <3> QED BY <3>1, <3>3
  <2>4. JournalFits(Append(h, h[j[i].base]),
          [j EXCEPT ![i].life = "undone", ![i].head = Len(h) + 1])
    BY <1>1, <2>1, <2>2, <2>3, UndoingFits
  <2>5. "undone" \in Edit!Lives
    BY DEF Edit!Lives
  <2> QED BY <1>3, <2>1, <2>2, <2>3, <2>4, <2>5
<1>5. CASE Edit!Redo
  <2>1. PICK i \in Edit!Turn("undone") :
          /\ h[j[i].base] = h[Len(h)]
          /\ Edit!Save([held EXCEPT !.history = Append(@, h[j[i].target]),
                                    !.journal[i].life = "applied",
                                    !.journal[i].head = Len(h) + 1])
    BY <1>5 DEF Edit!Redo, Edit!Restore, Edit!Content, Edit!Source
  <2>2. /\ i \in DOMAIN j /\ j[i].life = "undone"
        /\ \A k \in DOMAIN j : j[k].life = "undone" => i <= k
    BY <2>1 DEF Edit!Turn, Edit!Having
  <2>3. j[i].target \in DOMAIN h /\ Len(h) + 1 \in Nat
    <3>1. Len(h) \in Nat
      BY <1>1 DEF Histories
    <3>2. JournalFits(h, j)
      BY <1>1
    <3>3. j[i].target \in DOMAIN h
      BY <2>2, <3>2 DEF JournalFits
    <3> QED BY <3>1, <3>3
  <2>4. JournalFits(Append(h, h[j[i].target]),
          [j EXCEPT ![i].life = "applied", ![i].head = Len(h) + 1])
    BY <1>1, <2>1, <2>2, <2>3, RedoingFits
  <2>5. "applied" \in Edit!Lives
    BY DEF Edit!Lives
  <2> QED BY <1>3, <2>1, <2>2, <2>3, <2>4, <2>5
<1> QED BY <1>4, <1>5

(* Capabilities are minted and expire, the project is opened again.        *)
LEMMA OpeningKeeps ==
  ASSUME EditsInv,
         \/ \E c \in Capabilities :
              Edit!Expire(c) \/ \E kind \in Edit!Kinds : Edit!Mint(c, kind)
         \/ Edit!Reopen \/ Edit!Crash
  PROVE  EditsInv'
<1>1. /\ record' = record /\ held' \in {held, record}
      /\ edited' = Nobody /\ minted \subseteq minted'
  BY DEF Edit!Expire, Edit!Mint, Edit!Reopen, Edit!Crash
<1>2. /\ minted' \subseteq Capabilities
      /\ capability' \in [Capabilities -> Grants \cup {Nobody}]
      /\ \A c \in Capabilities : capability'[c] # Nobody => c \in minted'
      /\ \A c \in minted :
           capability'[c] # Nobody => capability'[c] = capability[c]
  <2>1. CASE Edit!Reopen \/ Edit!Crash
    BY <2>1 DEF EditsInv, Edit!Reopen, Edit!Crash
  <2>2. ASSUME NEW c \in Capabilities, Edit!Expire(c)
        PROVE  <1>2!:
    BY <2>2 DEF EditsInv, Edit!Expire
  <2>3. ASSUME NEW c \in Capabilities, NEW kind \in Edit!Kinds,
               Edit!Mint(c, kind)
        PROVE  <1>2!:
    <3> DEFINE grant == [kind |-> kind, base |-> Len(held.history),
                         mint |-> held.authority, used |-> Nobody]
    <3>1. grant \in Grants
      <4>1. held.history \in Histories /\ held.authority \in Int
        BY <2>3 DEF EditsInv, RecordFits, Edit!Mint
      <4>2. Len(held.history) \in Nat
        BY <4>1 DEF Histories
      <4> QED BY <4>1, <4>2 DEF Grants
    <3>2. /\ capability' = [capability EXCEPT ![c] = grant]
          /\ minted' = minted \cup {c} /\ c \notin minted
      BY <2>3 DEF Edit!Mint, Edit!Source
    <3> QED BY <3>1, <3>2 DEF EditsInv
  <2> QED BY <2>1, <2>2, <2>3
<1>3. /\ RecordFits(record, capability', minted')
      /\ RecordFits(held, capability', minted')
  BY <1>1, <1>2, GrantsGoOn DEF EditsInv
<1> QED BY <1>1, <1>2, <1>3 DEF EditsInv

(* The journal an edit leaves, with what the journal forgets.              *)
LEMMA EditedFits ==
  ASSUME EditsInv, NEW c \in Capabilities,
         NEW content \in Settings \cup {Nobody},
         capability[c] # Nobody, capability[c].base = Len(held.history)
  PROVE  /\ RecordFits(Edit!Edited(c, content), capability, minted)
         /\ \E i \in DOMAIN Edit!Content(Edit!Edited(c, content)) :
              Edit!Content(Edit!Edited(c, content))[i] = Edit!Mark(c, content)
<1> DEFINE h == held.history
           j == held.journal
           last == h[Len(h)]
           mark == Edit!Mark(c, content)
           more == Append(last, mark)
           g == Append(h, more)
           kept == [i \in DOMAIN j |-> Edit!NoLongerRedoable(j[i])]
           entry == [mark |-> mark, base |-> Len(h), target |-> Len(h) + 1,
                     head |-> Len(h) + 1, life |-> "applied"]
           all == Append(kept, entry)
           t == Edit!Last(all, Journal)
           next == Edit!Edited(c, content)
<1>1. /\ RecordFits(held, capability, minted)
      /\ h \in Histories /\ h # <<>> /\ j \in Seq(Entries)
      /\ JournalFits(h, j) /\ MarksKnown(h, capability, minted)
      /\ \A d \in minted : capability[d] # Nobody => capability[d].base \in Nat
      /\ c \in minted
  BY DEF EditsInv, RecordFits, JournalFits, Grants
<1>2. /\ Len(h) \in Nat \ {0} /\ Len(h) \in DOMAIN h
      /\ last \in Seq(Edit!Marks) /\ EachOnce(last)
  <2>1. Len(h) \in Nat \ {0} /\ Len(h) \in DOMAIN h
    BY <1>1 DEF Histories
  <2>2. h[Len(h)] \in Seq(Edit!Marks)
    BY <1>1, <2>1 DEF Histories
  <2> QED BY <1>1, <2>1, <2>2 DEF JournalFits
<1>3. mark \in Edit!Marks /\ mark.by = c
  BY DEF Edit!Mark, Edit!Marks
<1>4. /\ more \in Seq(Edit!Marks)
      /\ DOMAIN more = DOMAIN last \cup {Len(last) + 1}
      /\ Len(last) + 1 \notin DOMAIN last
      /\ \A i \in DOMAIN last : more[i] = last[i]
      /\ more[Len(last) + 1] = mark
  BY <1>2, <1>3
<1>5. \A i \in DOMAIN last : c # Nobody => last[i].by # c
  BY <1>1, <1>2 DEF MarksKnown
<1>6. EachOnce(more)
  BY <1>2, <1>3, <1>4, <1>5 DEF EachOnce
<1>7. /\ kept \in Seq(Entries) /\ Len(kept) = Len(j)
      /\ \A i \in 1..Len(j) : kept[i] = Edit!NoLongerRedoable(j[i])
  <2>1. \A i \in DOMAIN j : Edit!NoLongerRedoable(j[i]) \in Entries
    <3> TAKE i \in DOMAIN j
    <3>1. j[i] \in Entries
      BY <1>1
    <3> QED BY <3>1, Abandoning
  <2>2. DOMAIN j = 1..Len(j) /\ Len(j) \in Nat
    BY <1>1
  <2> QED BY <2>1, <2>2
<1>8. entry \in Entries
  BY <1>2, <1>3 DEF Entries, Edit!Lives
<1>9. JournalFits(g, all)
  BY <1>1, <1>3, <1>6, <1>7, <1>8, EditingFits
<1>10. g \in Histories /\ Len(g) = Len(h) + 1 /\ g[Len(g)] = more
  <2> HIDE DEF more
  <2>1. more \in Seq(Edit!Marks)
    BY <1>4
  <2> QED BY <1>1, <2>1, RevisionAdded
<1>11. all \in Seq(Entries) /\ Len(all) \in Nat
  BY <1>7, <1>8
<1>12. t \in Seq(Entries) /\ JournalFits(g, t)
  <2> HIDE DEF all
  <2>1. CASE Len(all) <= Journal
    BY <1>9, <1>11, <2>1 DEF Edit!Last
  <2>2. CASE ~(Len(all) <= Journal)
    <3> DEFINE d == Len(all) - Journal
    <3>1. d \in 0..Len(all) /\ d + 1 = Len(all) - Journal + 1
      BY <1>11, <2>2, NumbersAssumption
    <3>2. t = SubSeq(all, d + 1, Len(all))
      BY <2>2 DEF Edit!Last
    <3> HIDE DEF d, t
    <3>3. /\ t \in Seq(Entries) /\ Len(t) = Len(all) - d
          /\ \A i \in 1..Len(t) : t[i] = all[i + d]
      BY <1>11, <3>1, <3>2
    <3> QED BY <1>9, <1>10, <1>11, <3>1, <3>3, ForgettingFits
  <2> QED BY <2>1, <2>2
<1>13. MarksKnown(g, capability, minted)
  <2>1. ASSUME NEW i \in DOMAIN more, NEW d, d = more[i].by, d # Nobody
        PROVE  \/ d \in minted /\ (capability[d] # Nobody =>
                                  /\ capability[d].base \in Nat
                                  /\ capability[d].base <= Len(h))
               \/ \E r \in DOMAIN h : \E k \in DOMAIN h[r] : h[r][k].by = d
    <3>1. CASE i = Len(last) + 1
      BY <1>1, <1>2, <1>3, <1>4, <2>1, <3>1
    <3>2. CASE i \in DOMAIN last
      BY <1>2, <1>4, <2>1, <3>2
    <3> QED BY <1>4, <3>1, <3>2
  <2> HIDE DEF h, more
  <2> QED BY <1>1, <1>4, <2>1, MarksStayKnown
<1>14. /\ held \in [history : Histories, authority : Int \cup {Nobody},
                    journal : Seq(Entries), pending : BOOLEAN]
       /\ next = [held EXCEPT !.history = g, !.journal = t]
  BY <1>1 DEF RecordFits, Edit!Edited, Edit!Content, Edit!Source
<1> HIDE DEF g, t, next
<1>15. /\ next.history = g /\ next.journal = t
       /\ next \in [history : Histories, authority : Int \cup {Nobody},
                    journal : Seq(Entries), pending : BOOLEAN]
  BY <1>10, <1>12, <1>14
<1>16. RecordFits(next, capability, minted)
  BY <1>12, <1>13, <1>15 DEF RecordFits
<1>17. Edit!Content(next) = more
  BY <1>10, <1>15 DEF Edit!Content, Edit!Source
<1> QED BY <1>4, <1>16, <1>17 DEF next

(* One edit: its capability is for the latest revision, or it is replayed  *)
(* because the journal has it.                                             *)
LEMMA EditingKeeps ==
  ASSUME EditsInv, NEW c \in Capabilities,
         NEW content \in Settings \cup {Nobody},
         capability[c] # Nobody, UNCHANGED minted,
         capability' = capability \/ Edit!Consumed(c, content),
         Edit!Succeeds(c, content) \/ Edit!Fails(c, content)
  PROVE  EditsInv'
<1> DEFINE next == Edit!Edited(c, content)
<1>1. /\ capability' \in [Capabilities -> Grants \cup {Nobody}]
      /\ \A d \in Capabilities :
           /\ capability'[d] # Nobody => d \in minted
           /\ d \in minted /\ capability'[d] # Nobody =>
                /\ capability[d] # Nobody
                /\ capability'[d].base = capability[d].base
  <2>1. CASE capability' = capability
    BY <2>1 DEF EditsInv
  <2>2. CASE Edit!Consumed(c, content)
    <3> DEFINE used == [capability[c] EXCEPT !.used = Edit!UsedFor(content)]
    <3>1. /\ capability[c] \in Grants
          /\ Edit!UsedFor(content) \in Settings \cup {Nobody, TRUE}
      BY DEF EditsInv, Edit!UsedFor
    <3>2. used \in Grants /\ used.base = capability[c].base
      BY <3>1 DEF Grants
    <3>3. capability' = [capability EXCEPT ![c] = used]
      BY <2>2 DEF Edit!Consumed
    <3> HIDE DEF used
    <3> QED BY <3>2, <3>3 DEF EditsInv
  <2> QED BY <2>1, <2>2
<1>2. ASSUME NEW value, RecordFits(value, capability, minted)
      PROVE  RecordFits(value, capability', minted')
  <2>1. \A d \in minted :
          capability'[d] # Nobody =>
            capability[d] # Nobody /\ capability'[d].base = capability[d].base
    BY <1>1 DEF EditsInv
  <2> QED BY <1>2, <2>1, GrantsGoOn
<1>3. ASSUME Edit!FromCurrentBase(capability[c])
      PROVE  /\ RecordFits(next, capability', minted')
             /\ \E i \in DOMAIN Edit!Content(next) :
                  Edit!Content(next)[i] = Edit!Mark(c, content)
  BY <1>2, <1>3, EditedFits DEF Edit!FromCurrentBase, Edit!Source
<1>4. /\ RecordFits(record, capability', minted')
      /\ RecordFits(held, capability', minted')
  BY <1>2 DEF EditsInv
<1>5. /\ minted' \subseteq Capabilities
      /\ \A d \in Capabilities : capability'[d] # Nobody => d \in minted'
  BY <1>1 DEF EditsInv
<1>6. CASE /\ Edit!Replayable(c, content) /\ Edit!Lost
           /\ edited' = Edit!Mark(c, content)
  <2>1. /\ record' = record /\ held' = held
        /\ edited' = Edit!Mark(c, content)
    BY <1>6 DEF Edit!Lost
  <2>2. PICK i \in DOMAIN held.journal :
          /\ held.journal[i].mark = Edit!Mark(c, content)
          /\ held.journal[i].life = "applied"
    BY <1>6 DEF Edit!Replayable
  <2>3. Edit!AppliedLast(held.journal, Edit!Content(held))
    BY DEF EditsInv, RecordFits, JournalFits, Edit!Content, Edit!Source
  <2>4. \E k \in DOMAIN Edit!Content(held) :
          Edit!Content(held)[k] = Edit!Mark(c, content)
    BY <2>2, <2>3 DEF Edit!AppliedLast
  <2>5. Edit!Content(held)' = Edit!Content(held)
    BY <2>1
  <2> QED BY <1>1, <1>4, <1>5, <2>1, <2>4, <2>5 DEF EditsInv
<1>7. CASE /\ Edit!FromCurrentBase(capability[c]) /\ Edit!Done(next)
           /\ edited' = Edit!Mark(c, content)
  <2>1. /\ record' = next /\ held' = next
        /\ edited' = Edit!Mark(c, content)
    BY <1>7 DEF Edit!Done
  <2>2. /\ RecordFits(next, capability', minted')
        /\ \E i \in DOMAIN Edit!Content(next) :
             Edit!Content(next)[i] = Edit!Mark(c, content)
    BY <1>3, <1>7
  <2> HIDE DEF next
  <2>3. Edit!Content(held)' = Edit!Content(next)
    BY <2>1 DEF Edit!Content, Edit!Source
  <2> QED BY <1>1, <1>5, <2>1, <2>2, <2>3 DEF EditsInv
<1>8. CASE /\ edited' = Nobody
           /\ \/ Edit!Lost
              \/ Edit!FromCurrentBase(capability[c]) /\ Edit!Unsure(next)
  <2>1. CASE Edit!Lost
    BY <1>1, <1>4, <1>5, <1>8, <2>1 DEF EditsInv, Edit!Lost
  <2>2. CASE Edit!FromCurrentBase(capability[c]) /\ Edit!Unsure(next)
    <3>1. record' = next /\ held' = held
      BY <2>2 DEF Edit!Unsure
    <3>2. RecordFits(next, capability', minted')
      BY <1>3, <2>2
    <3> QED BY <1>1, <1>4, <1>5, <1>8, <3>1, <3>2 DEF EditsInv
  <2> QED BY <1>8, <2>1, <2>2
<1> QED
  BY <1>6, <1>7, <1>8 DEF Edit!Succeeds, Edit!Fails, Edit!Reached

LEMMA CallingKeeps ==
  ASSUME EditsInv, NEW c \in Capabilities, NEW kind \in Edit!Kinds,
         Edit!Call(c, kind) \/ Edit!CallOnce(c, kind)
  PROVE  EditsInv'
<1>1. capability[c] # Nobody /\ UNCHANGED minted
  BY DEF Edit!Call, Edit!CallOnce, Edit!Holds
<1>2. PICK content \in Settings \cup {Nobody} :
        \/ Edit!Evaluate(c, kind, content)
        \/ Edit!Rejected /\ UNCHANGED capability
  BY DEF Edit!Call, Edit!CallOnce
<1>3. CASE Edit!Evaluate(c, kind, content)
  <2>1. /\ Edit!Succeeds(c, content) \/ Edit!Fails(c, content)
        /\ capability' = capability \/ Edit!Consumed(c, content)
    BY <1>3 DEF Edit!Evaluate, Edit!UseThenEdit, Edit!EditThenUse
  <2> QED BY <1>1, <2>1, EditingKeeps
<1>4. CASE Edit!Rejected /\ UNCHANGED capability
  BY <1>1, <1>4 DEF EditsInv, Edit!Rejected, Edit!Lost
<1> QED BY <1>2, <1>3, <1>4

LEMMA EditsStep ==
  ASSUME EditsInv, [Edit!Next]_(Edit!vars)
  PROVE  EditsInv'
<1>1. CASE UNCHANGED Edit!vars
  BY <1>1 DEF EditsInv, Edit!vars, Edit!Content, Edit!Source
<1>2. CASE \E c \in Capabilities :
             \/ Edit!TextEdit(c) \/ Edit!ElementRemove(c)
             \/ Edit!ElementDuplicate(c) \/ Edit!LayoutEdit(c)
             \/ Edit!AppearanceEdit(c) \/ Edit!PositionEdit(c)
             \/ Edit!StructureEdit(c) \/ Edit!ComponentInsert(c)
             \/ Edit!ComponentReplace(c) \/ Edit!PropertyEdit(c)
  <2>1. PICK c \in Capabilities, kind \in Edit!Kinds :
          Edit!Mint(c, kind) \/ Edit!Call(c, kind) \/ Edit!CallOnce(c, kind)
    BY <1>2 DEF Edit!TextEdit, Edit!ElementRemove, Edit!ElementDuplicate,
      Edit!LayoutEdit, Edit!AppearanceEdit, Edit!PositionEdit,
      Edit!StructureEdit, Edit!ComponentInsert, Edit!ComponentReplace,
      Edit!PropertyEdit, Edit!Kinds
  <2> QED BY <2>1, OpeningKeeps, CallingKeeps
<1>3. CASE \/ \E c \in Capabilities : Edit!Expire(c)
           \/ Edit!Reopen \/ Edit!Crash
  BY <1>3, OpeningKeeps
<1>4. CASE Edit!Undo \/ Edit!Redo
  BY <1>4, RestoringKeeps
<1>5. CASE \/ Edit!Stage \/ Edit!Reject \/ Edit!Accept \/ Edit!UndoAIChange
           \/ Edit!Revoke \/ Edit!Activate
  BY <1>5, ReviewsKeep
<1> QED BY <1>1, <1>2, <1>3, <1>4, <1>5 DEF Edit!Next

(* However often an edit is called and whatever of its saves fails, a      *)
(* capability changes the design once, success is only answered for an     *)
(* edit in effect, and the open source ends with the edits the journal     *)
(* has as applied: evaluateDetailed, restoreManualDesignHistory.           *)
THEOREM EditsApplyOnce == Edit!Spec => []EditsTakeEffectOnce
<1>1. EditsInv => EditsTakeEffectOnce
  <2> SUFFICES ASSUME EditsInv PROVE EditsTakeEffectOnce
    OBVIOUS
  <2>1. /\ \A r \in DOMAIN held.history : EachOnce(held.history[r])
        /\ Edit!AppliedLast(held.journal, Edit!Content(held))
    BY DEF EditsInv, RecordFits, JournalFits, Edit!Content, Edit!Source
  <2> QED
    BY <2>1 DEF EditsInv, EachOnce, EditsTakeEffectOnce,
      Edit!EditsTakeEffectOnce
<1>2. Edit!Init => EditsInv
  BY EditsStart
<1>3. EditsInv /\ [Edit!Next]_(Edit!vars) => EditsInv'
  BY EditsStep
<1> QED BY <1>1, <1>2, <1>3, PTL DEF Edit!Spec

=============================================================================
