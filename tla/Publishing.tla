------------------------------ MODULE Publishing -----------------------------
(***************************************************************************)
(* Publishing a design to a GitHub repository: the designer service asks   *)
(* the user's consent for one exact content and target, a later call       *)
(* spends it, and the adapter then builds a branch and a draft pull        *)
(* request in the repository, call by call, while others use it.           *)
(*                                                                         *)
(* A content (its bundle and file plan digests) is its number; a commit    *)
(* names its content and the attempt that made it, for GitHub stamps each  *)
(* commit with its time, so that no two attempts make the same one.  An    *)
(* attempt fails at a remote call because the call failed, timed out, was  *)
(* cancelled or its answer was lost: it may have taken effect.             *)
(*                                                                         *)
(* Left out: the local preview mode, the sealed project that is built and  *)
(* locked before the first remote call, and the hosted review's status,    *)
(* which no outcome of a publish depends on.                               *)
(***************************************************************************)
EXTENDS Integers, Sequences

CONSTANTS
  Attempts,     \* calls of publishGeneratedCode
  MaxContent,   \* bound: versions of the design
  MaxConsents,  \* bound: consents asked for
  None

VARIABLES
  design,   \* the content captureImmutablePublishPlan would take now
  dialog,   \* the content the consent dialog shows, or None
  pending,  \* pendingPublishConsent, or None
  grants,   \* the trusted port's grants
  given,    \* history: what the user consented to, by consent
  attempt,  \* each publish operation
  remote    \* the repository

host   == <<design, dialog, pending, grants, given>>
vars   == <<host, attempt, remote>>

Contents == 1..MaxContent
Consents == 1..MaxConsents
Commits  == [content : Contents \cup {0}, by : Attempts \cup {None}]
Grants   == [id : Consents, content : Contents]
Steps    == {"repository", "create", "base", "baseline", "owner", "commit",
             "ref", "verify", "pull", "open"}
Attempted == [step : Steps \cup {"idle", "queued", "succeeded", "failed"},
              consent : Consents \cup {0}, content : Contents \cup {0},
              provisioning : BOOLEAN, provisioned : BOOLEAN,
              base : Commits \cup {None}, commit : Commits \cup {None}]
Pulls    == [content : Contents, head : Commits, open : BOOLEAN]

TypeOK ==
  /\ design \in Contents
  /\ dialog \in Contents \cup {None}
  /\ pending \in Grants \cup {None}
  /\ grants \subseteq Grants
  /\ attempt \in [Attempts -> Attempted]
  /\ remote.exists \in BOOLEAN
  /\ remote.base \in Commits \cup {None}
  /\ remote.branch \in [Contents -> Commits \cup {None}]
  /\ remote.pulls \subseteq Pulls

NotStarted ==
  [step |-> "idle", consent |-> 0, content |-> 0, provisioning |-> FALSE,
   provisioned |-> FALSE, base |-> None, commit |-> None]

\* Content 0 by nobody is a commit of someone else, without an ownership
\* marker; content 0 by an attempt is the baseline it initialised.
Foreign == [content |-> 0, by |-> None]

\* Nothing, a repository of someone else's, or an empty one.
Init ==
  /\ design = 1
  /\ dialog = None /\ pending = None /\ grants = {} /\ given = <<>>
  /\ attempt = [a \in Attempts |-> NotStarted]
  /\ \E exists \in BOOLEAN, base \in {None, Foreign} :
       /\ base = Foreign => exists
       /\ remote = [exists |-> exists, base |-> base, pulls |-> {},
                    branch |-> [c \in Contents |-> None]]

Running(a) == attempt[a].step \in Steps \cup {"queued"}
Quiet      == \A a \in Attempts : ~Running(a)

-----------------------------------------------------------------------------
(* The host's side.                                                        *)

\* Any designer operation changes the content; none runs while the dialog
\* holds the queue.
Edit ==
  /\ dialog = None
  /\ design' \in Contents \ {design}
  /\ UNCHANGED <<dialog, pending, grants, given, attempt, remote>>

\* requestGeneratedCodePublishConsent; a request for what is already granted
\* returns that grant, one for anything else is refused.
RequestConsent ==
  /\ dialog = None /\ Quiet /\ pending = None
  /\ Len(given) < MaxConsents
  /\ dialog' = design
  /\ UNCHANGED <<design, pending, grants, given, attempt, remote>>

\* ElectronPublishConsentPort.request
Allowed ==
  LET grant == [id |-> Len(given) + 1, content |-> dialog] IN
  /\ dialog # None
  /\ dialog' = None
  /\ pending' = grant
  /\ grants' = grants \cup {grant}
  /\ given' = Append(given, dialog)
  /\ UNCHANGED <<design, attempt, remote>>

Declined ==
  /\ dialog # None
  /\ dialog' = None
  /\ UNCHANGED <<design, pending, grants, given, attempt, remote>>

\* Ten minutes pass.
Expires ==
  /\ pending # None
  /\ pending' = None
  /\ grants' = {}
  /\ UNCHANGED <<design, dialog, given, attempt, remote>>

\* publishGeneratedCode
Publish(a) ==
  /\ attempt[a].step = "idle" /\ Quiet
  /\ pending # None
  /\ \E provisioning \in BOOLEAN :
       attempt' = [attempt EXCEPT ![a].step = "queued",
                                  ![a].consent = pending.id,
                                  ![a].provisioning = provisioning]
  /\ UNCHANGED <<host, remote>>

\* A call with an identifier that is not the pending one drops the consent,
\* while its grant stays in the port.
PublishUnknown ==
  /\ Quiet /\ pending # None
  /\ pending' = None
  /\ UNCHANGED <<design, dialog, grants, given, attempt, remote>>

\* A slip: any grant with the identifier will do.
Granted(a) == \E g \in grants : g.id = attempt[a].consent

\* consume(): the content captured now is the one the dialog showed.
Consumes(a) == [id |-> attempt[a].consent, content |-> design] \in grants

\* The operation's turn in the queue.
Prepare(a) ==
  /\ attempt[a].step = "queued" /\ dialog = None
  /\ attempt' = IF Consumes(a)
                THEN [attempt EXCEPT ![a].step = "repository",
                                     ![a].content = design]
                ELSE [attempt EXCEPT ![a].step = "failed"]
  /\ grants' = {g \in grants : g.id # attempt[a].consent}
  /\ pending' = IF pending # None
                THEN IF pending.id = attempt[a].consent THEN None ELSE pending
                ELSE None
  /\ UNCHANGED <<design, dialog, given, remote>>

\* The application is gone, with its grants and operations.
Crash ==
  /\ dialog' = None /\ pending' = None /\ grants' = {}
  /\ attempt' = [a \in Attempts |-> IF Running(a)
                                    THEN [attempt[a] EXCEPT !.step = "failed"]
                                    ELSE attempt[a]]
  /\ UNCHANGED <<design, given, remote>>

-----------------------------------------------------------------------------
(* The adapter's calls.  A call that changes the repository may do so and  *)
(* fail, or may fail.                                                      *)

To(a, step) == attempt' = [attempt EXCEPT ![a].step = step]
ToOrFails(a, step) == To(a, step) \/ To(a, "failed")
In(a, step) == attempt[a].step = step

Fails(a) ==
  /\ attempt[a].step \in Steps
  /\ To(a, "failed")
  /\ UNCHANGED <<host, remote>>

ReadRepository(a) ==
  /\ In(a, "repository")
  /\ remote.exists \/ attempt[a].provisioning
  /\ To(a, IF remote.exists THEN "base" ELSE "create")
  /\ UNCHANGED <<host, remote>>

CreateRepository(a) ==
  /\ In(a, "create") /\ ~remote.exists
  /\ remote' = [remote EXCEPT !.exists = TRUE]
  /\ \/ attempt' = [attempt EXCEPT ![a].step = "base", ![a].provisioned = TRUE]
     \/ To(a, "failed")
  /\ UNCHANGED host

\* A repository without a default branch is used only by its creator.
ReadBase(a) ==
  /\ In(a, "base")
  /\ remote.base # None \/ attempt[a].provisioned
  /\ IF remote.base # None
     THEN attempt' = [attempt EXCEPT ![a].step = "owner",
                                     ![a].base = remote.base]
     ELSE To(a, "baseline")
  /\ UNCHANGED <<host, remote>>

CreateBaseline(a) ==
  LET baseline == [content |-> 0, by |-> a] IN
  /\ In(a, "baseline") /\ remote.base = None
  /\ remote' = [remote EXCEPT !.base = baseline]
  /\ \/ attempt' = [attempt EXCEPT ![a].step = "owner", ![a].base = baseline]
     \/ To(a, "failed")
  /\ UNCHANGED host

\* The base commit carries this project's ownership marker.
ReadOwner(a) ==
  /\ In(a, "owner") /\ attempt[a].base # Foreign
  /\ To(a, "commit")
  /\ UNCHANGED <<host, remote>>

CreateCommit(a) ==
  /\ In(a, "commit")
  /\ attempt' = [attempt EXCEPT
       ![a].step = "ref",
       ![a].commit = [content |-> attempt[a].content, by |-> a]]
  /\ UNCHANGED <<host, remote>>

\* The branch is named for the content (branchFor).
Branch(a) == remote.branch[attempt[a].content]

\* A branch that exists with another commit is a conflict.
CreateRef(a) ==
  /\ In(a, "ref") /\ Branch(a) \in {None, attempt[a].commit}
  /\ remote' = [remote EXCEPT !.branch[attempt[a].content] = attempt[a].commit]
  /\ ToOrFails(a, "verify")
  /\ UNCHANGED host

Verify(a) ==
  /\ In(a, "verify") /\ Branch(a) = attempt[a].commit
  /\ To(a, "pull")
  /\ UNCHANGED <<host, remote>>

OpenPulls(a) ==
  {p \in remote.pulls : p.open /\ p.content = attempt[a].content}

\* A slip: the pull request found is not compared with the commit.
AnyPull(a, pull) == pull.open
Matches(a, pull) == pull.head = attempt[a].commit

ReadPullRequest(a) ==
  /\ In(a, "pull")
  /\ \/ OpenPulls(a) = {} /\ To(a, "open")
     \/ \E pull \in OpenPulls(a) : Matches(a, pull) /\ To(a, "succeeded")
  /\ UNCHANGED <<host, remote>>

CreateDraftPullRequest(a) ==
  LET pull == [content |-> attempt[a].content, head |-> Branch(a),
               open |-> TRUE]
  IN
  /\ In(a, "open") /\ OpenPulls(a) = {} /\ Branch(a) # None
  /\ remote' = [remote EXCEPT !.pulls = @ \cup {pull}]
  /\ \/ Matches(a, pull) /\ To(a, "succeeded")
     \/ To(a, "failed")
  /\ UNCHANGED host

-----------------------------------------------------------------------------
(* What others do in the repository.                                       *)

Headed(pulls, c, head) ==
  {IF p.open /\ p.content = c THEN [p EXCEPT !.head = head] ELSE p :
     p \in pulls}
Closed(pulls, c) ==
  {IF p.content = c THEN [p EXCEPT !.open = FALSE] ELSE p : p \in pulls}

Others ==
  /\ \/ ~remote.exists /\ remote' = [remote EXCEPT !.exists = TRUE]
     \/ /\ remote.exists /\ remote.base = None
        /\ remote' = [remote EXCEPT !.base = Foreign]
     \/ \E c \in Contents :
          /\ remote.branch[c] # None
          /\ \/ remote' = [remote EXCEPT !.branch[c] = Foreign,
                                         !.pulls = Headed(@, c, Foreign)]
             \/ remote' = [remote EXCEPT !.branch[c] = None,
                                         !.pulls = Closed(@, c)]
     \/ \E p \in remote.pulls :
          /\ p.open
          /\ \/ remote' = [remote EXCEPT !.pulls = Closed(@, p.content)]
             \/ p.head # Foreign /\ remote' = [remote EXCEPT
                  !.base = p.head, !.pulls = Closed(@, p.content)]
  /\ UNCHANGED <<host, attempt>>

Adapter(a) ==
  \/ ReadRepository(a) \/ CreateRepository(a) \/ ReadBase(a)
  \/ CreateBaseline(a) \/ ReadOwner(a) \/ CreateCommit(a) \/ CreateRef(a)
  \/ Verify(a) \/ ReadPullRequest(a) \/ CreateDraftPullRequest(a)

Next ==
  \/ Edit \/ RequestConsent \/ Allowed \/ Declined \/ Expires
  \/ PublishUnknown \/ Crash \/ Others
  \/ \E a \in Attempts : Publish(a) \/ Prepare(a) \/ Fails(a) \/ Adapter(a)

Spec == Init /\ [][Next]_vars

-----------------------------------------------------------------------------
(***************************************************************************)
(* What reaches the repository is what the user saw in the dialog, though  *)
(* the design may be edited between the consent and its use, and a consent *)
(* is spent once, whatever failed (requestGeneratedCodePublishConsent,     *)
(* publishGeneratedCode, consume).                                         *)
(***************************************************************************)
ConsentCoversPublish ==
  \A a \in Attempts : attempt[a].content # 0 =>
    /\ attempt[a].content = given[attempt[a].consent]
    /\ \A b \in Attempts \ {a} :
         attempt[b].consent = attempt[a].consent => attempt[b].content = 0

(***************************************************************************)
(* A publish that reports success has its commit, and no other, at the     *)
(* head of an open pull request, in a repository of this project, though   *)
(* others push, merge and close between its calls (publish).               *)
(***************************************************************************)
ReceiptIsTrue ==
  [][\A a \in Attempts :
       attempt[a].step # "succeeded" /\ attempt'[a].step = "succeeded" =>
         /\ attempt[a].commit.content = given[attempt[a].consent]
         /\ attempt[a].base # Foreign
         /\ \E p \in remote'.pulls :
              p.open /\ p.content = attempt[a].content
                /\ p.head = attempt[a].commit]_vars

=============================================================================
