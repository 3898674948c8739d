---------------------------- MODULE LocalProjects ---------------------------
(***************************************************************************)
(* The desktop's local projects: LocalProjectLifecycleService over its     *)
(* file storage.  A call takes the lock of its project, reads the record,  *)
(* commits what it makes of it by a rename, and releases the lock; calls   *)
(* of the application overlap, and the process may die between any two     *)
(* steps.  A record of the old format is migrated by whoever reads it, one *)
(* that cannot be read is moved to the quarantine.                         *)
(*                                                                         *)
(* A workspace is abstracted to the call that made it, a designer state to *)
(* whether it is for the current workspace; times are left out.            *)
(***************************************************************************)
EXTENDS Integers, Sequences, SequencesExt, FiniteSets

CONSTANTS
  Projects,     \* project identifiers
  Callers,      \* the calls of the service; each is made at most once
  KindsUsed,    \* bound: the operations called
  MaxVersions,  \* versions a record keeps
  MaxEntries,   \* entries the quarantine keeps
  Broken,       \* a file that cannot be decoded
  None

VARIABLES
  disk,     \* projects/<id>.json: None, Broken, or a record
  entries,  \* the quarantine, oldest first
  lock,     \* who holds a project's lock
  mapLock,  \* who holds the lock of the product map
  call      \* each call's operation, step, and what it is about to write

vars == <<disk, entries, lock, mapLock, call>>

Workspaces == Callers \cup {"first"}

Records ==
  [old : BOOLEAN, status : {"active", "archived"}, children : SUBSET Projects,
   draft : Workspaces \cup {None}, current : Workspaces,
   versions : Seq(Workspaces), guidance : SUBSET Callers,
   design : {None, "current", "behind"}]

Steps == {"idle", "copied", "checked", "listing", "writing", "done", "refused"}

TypeOK ==
  /\ disk \in [Projects -> Records \cup {None, Broken}]
  /\ entries \in Seq(Projects)
  /\ lock \in [Projects -> Callers \cup {None}]
  /\ mapLock \in Callers \cup {None}
  /\ \A c \in Callers :
       /\ call[c].step \in Steps
       /\ call[c].project \in Projects \cup {None}

New(content) ==
  [old |-> FALSE, status |-> "active", children |-> {}, draft |-> None,
   current |-> content, versions |-> <<content>>, guidance |-> {},
   design |-> None]

Idle == [step |-> "idle", op |-> None, project |-> None, arg |-> None,
         seen |-> <<>>, next |-> None]

Init ==
  /\ disk \in [Projects -> {None, Broken, New("first"),
                            [New("first") EXCEPT !.old = TRUE]}]
  /\ entries = <<>>
  /\ lock = [p \in Projects |-> None]
  /\ mapLock = None
  /\ call = [c \in Callers |-> Idle]

-----------------------------------------------------------------------------
(* What an operation makes of a record: the results it may have.           *)

Latest(s, n) == SubSeq(s, IF Len(s) > n THEN Len(s) - n + 1 ELSE 1, Len(s))

\* nextVersion.  The designer state stays as it was, and is now for an
\* earlier workspace.
NextVersion(r, content) ==
  [r EXCEPT !.current = content, !.draft = None,
            !.versions = Latest(Append(@, content), MaxVersions),
            !.design = IF @ = None THEN None ELSE "behind"]

Open(c, r)            == {r}
StoreGuidance(c, r)   == {[r EXCEPT !.guidance = @ \cup {c}]}
RemoveGuidance(c, r)  == {[r EXCEPT !.guidance = @ \ {d}] : d \in Callers}
CommitGraph(c, r)     == {[r EXCEPT !.design = "current"]}
SaveDesign(c, r)      == {[r EXCEPT !.design = "current", !.guidance = g] :
                            g \in {{c}, {}}}
CommitDesign(c, r)    == {[NextVersion(r, c) EXCEPT !.design = "current"]}
Autosave(c, r)        == {[r EXCEPT !.draft = c]}
RecoverAutosave(c, r) == {NextVersion(r, w) : w \in {r.draft} \ {None}}
DiscardAutosave(c, r) == {[r EXCEPT !.draft = None]}
RestoreVersion(c, r)  == {NextVersion(r, w) : w \in ToSet(r.versions)}
Undo(c, r) ==
  {NextVersion(r, r.versions[i]) : i \in {Len(r.versions) - 1} \ {0}}
SetStatus(r, status)  == {[r EXCEPT !.status = status]}
Configure(c, r)       == {[r EXCEPT !.children = call[c].arg]}

\* assertActive: an archived project is only archived or restored.
Results(c, op, r) ==
  IF op = "archive" THEN SetStatus(r, "archived")
  ELSE IF op = "restore" THEN SetStatus(r, "active")
  ELSE IF r.status # "active" THEN {} ELSE
  CASE op = "open" -> Open(c, r)
    [] op = "storeGuidance" -> StoreGuidance(c, r)
    [] op = "removeGuidance" -> RemoveGuidance(c, r)
    [] op = "commitGraph" -> CommitGraph(c, r)
    [] op = "saveDesign" -> SaveDesign(c, r)
    [] op = "commitDesign" -> CommitDesign(c, r)
    [] op = "autosave" -> Autosave(c, r)
    [] op = "recoverAutosave" -> RecoverAutosave(c, r)
    [] op = "discardAutosave" -> DiscardAutosave(c, r)
    [] op = "restoreVersion" -> RestoreVersion(c, r)
    [] op = "undo" -> Undo(c, r)
    [] op = "configure" -> Configure(c, r)
    [] OTHER -> {}

Changes == {"open", "storeGuidance", "removeGuidance", "commitGraph",
            "saveDesign", "commitDesign", "autosave", "recoverAutosave",
            "discardAutosave", "restoreVersion", "undo", "archive",
            "restore"}

-----------------------------------------------------------------------------
(* Files, locks and the quarantine.                                        *)

\* A slip: the lock is not looked at.
FreeAlways(p) == TRUE

Free(p) == lock[p] = None

Acquired(c, p) == lock' = [lock EXCEPT ![p] = c]

\* decode: a designer state for another workspace is refused, too.
Readable(file) == file # Broken /\ file.design # "behind"

\* The file storage's quarantine: it fails before or after its entry is
\* there, or removes the project's file.
Quarantine(p) ==
  \/ UNCHANGED <<disk, entries>>
  \/ /\ entries' = Latest(Append(entries, p), MaxEntries)
     /\ \/ UNCHANGED disk
        \/ disk' = [disk EXCEPT ![p] = None]

Migrated(r) == [r EXCEPT !.old = FALSE]

\* readRecord, of a file that is there and can be read: the record it finds.
Found(p) == Migrated(disk[p])

IsThere(p) == disk[p] # None /\ Readable(disk[p])

\* It migrates the file on the way, if need be.
Reads(p) ==
  /\ IsThere(p)
  /\ disk' = [disk EXCEPT ![p] = Found(p)]
  /\ UNCHANGED entries

\* It finds nothing, or what it cannot decode or migrate it quarantines.
CannotRead(p) ==
  \/ disk[p] = None /\ UNCHANGED <<disk, entries>>
  \/ disk[p] # None /\ (Readable(disk[p]) => disk[p].old) /\ Quarantine(p)

Refused(c)  == call' = [call EXCEPT ![c].step = "refused"]
To(c, step) == call' = [call EXCEPT ![c].step = step]

Writing(c, op, p, next) ==
  call' = [call EXCEPT ![c].step = "writing", ![c].op = op,
                       ![c].project = p, ![c].next = next]

Begins(c, op) == call[c].step = "idle" /\ op \in KindsUsed

-----------------------------------------------------------------------------
(* The operations on one record.                                           *)

\* The lock is taken and the record read.
Change(c, op, p) ==
  /\ Begins(c, op) /\ Free(p)
  /\ UNCHANGED mapLock
  /\ \/ /\ Reads(p) /\ Acquired(c, p)
        /\ \E next \in Results(c, op, Found(p)) : Writing(c, op, p, next)
     \/ Reads(p) /\ Refused(c) /\ UNCHANGED lock
     \/ CannotRead(p) /\ Refused(c) /\ UNCHANGED lock

\* The file storage's commit, and the lock's release.  A failure may come
\* before the rename or after it.
Write(c) ==
  LET p == call[c].project IN
  /\ call[c].step = "writing"
  /\ \/ disk' = [disk EXCEPT ![p] = call[c].next] /\ To(c, "done")
     \/ disk' = [disk EXCEPT ![p] = call[c].next] /\ Refused(c)
     \/ UNCHANGED disk /\ Refused(c)
  /\ lock' = [lock EXCEPT ![p] = None]
  /\ mapLock' = IF mapLock = c THEN None ELSE mapLock
  /\ UNCHANGED entries

\* createLocked: whatever file is there, the identifier is taken.
CreateAs(c, op, p, record) ==
  /\ Free(p)
  /\ IF disk[p] = None THEN Writing(c, op, p, record) /\ Acquired(c, p)
     ELSE Refused(c) /\ UNCHANGED lock
  /\ UNCHANGED <<disk, entries, mapLock>>

Create(c, p) == Begins(c, "create") /\ CreateAs(c, "create", p, New(c))

\* duplicate: the source is read under its lock, the target looked at
\* without one, and then created.
Copy(c, source, p) ==
  /\ Begins(c, "duplicate") /\ Free(source)
  /\ \/ /\ Reads(source) /\ Found(source).status = "active"
        /\ call' = [call EXCEPT ![c].step = "copied", ![c].project = p,
                                ![c].op = "duplicate",
                                ![c].next = New(Found(source).current)]
     \/ (Reads(source) \/ CannotRead(source)) /\ Refused(c)
  /\ UNCHANGED <<lock, mapLock>>

CheckTarget(c) ==
  /\ call[c].step = "copied"
  /\ IF disk[call[c].project] = None THEN To(c, "checked") ELSE Refused(c)
  /\ UNCHANGED <<disk, entries, lock, mapLock>>

CreateCopy(c) ==
  /\ call[c].step = "checked"
  /\ CreateAs(c, "duplicate", call[c].project, call[c].next)

\* importRecord: a payload that is refused goes to the quarantine under the
\* identifier it names, and takes the file of that name along.
Import(c, p) ==
  /\ Begins(c, "import")
  /\ \/ CreateAs(c, "import", p, New(c))
     \/ /\ Free(p) /\ Quarantine(p)
        /\ call' = [call EXCEPT ![c].step = "refused", ![c].op = "import"]
        /\ UNCHANGED <<lock, mapLock>>

-----------------------------------------------------------------------------
(* configureProductShell: under the product map's lock, all projects are   *)
(* read, each under its own lock; then the shell is.                       *)

Configurable(c, shell, children) ==
  /\ Begins(c, "configure") /\ mapLock = None /\ shell \notin children
  /\ mapLock' = c
  /\ call' = [call EXCEPT ![c].step = "listing", ![c].op = "configure",
                          ![c].project = shell, ![c].arg = children]
  /\ UNCHANGED <<disk, entries, lock>>

Sees(c, p, r) ==
  call' = [call EXCEPT ![c].seen = [q \in DOMAIN @ \cup {p} |->
                                      IF q = p THEN r ELSE @[q]]]

\* A project in quarantine is passed over; any other error is kept until all
\* have been read.
List(c, p) ==
  /\ call[c].step = "listing" /\ p \notin DOMAIN call[c].seen /\ Free(p)
  /\ \/ Reads(p) /\ Sees(c, p, Found(p))
     \/ CannotRead(p) /\ disk'[p] = None /\ Sees(c, p, None)
     \/ CannotRead(p) /\ Sees(c, p, Broken)
  /\ UNCHANGED <<lock, mapLock>>

\* listRecent leaves the archived projects out.
Listed(c) ==
  {p \in Projects : /\ call[c].seen[p] # None
                    /\ call[c].seen[p].status = "active"}

ClaimFits(c) ==
  /\ \A p \in Projects : call[c].seen[p] # Broken
  /\ call[c].arg \cup {call[c].project} \subseteq Listed(c)
  /\ \A q \in Listed(c) \ {call[c].project} :
       call[c].seen[q].children \cap call[c].arg = {}

Claim(c) ==
  LET shell == call[c].project IN
  /\ call[c].step = "listing" /\ DOMAIN call[c].seen = Projects
  /\ \/ /\ ClaimFits(c) /\ Free(shell) /\ Reads(shell) /\ Acquired(c, shell)
        /\ \E next \in Results(c, "configure", Found(shell)) :
             Writing(c, "configure", shell, next)
        /\ UNCHANGED mapLock
     \/ /\ \/ ~ClaimFits(c) /\ UNCHANGED <<disk, entries>>
           \/ /\ ClaimFits(c) /\ Free(shell)
              /\ Reads(shell) \/ CannotRead(shell)
        /\ Refused(c) /\ mapLock' = None /\ UNCHANGED lock

-----------------------------------------------------------------------------
\* The process dies, and its locks with it.
Crash ==
  /\ \E c \in Callers : call[c].step \notin {"idle", "done", "refused"}
  /\ call' = [c \in Callers |->
                IF call[c].step \in {"idle", "done", "refused"} THEN call[c]
                ELSE [call[c] EXCEPT !.step = "refused"]]
  /\ lock' = [p \in Projects |-> None]
  /\ mapLock' = None
  /\ UNCHANGED <<disk, entries>>

Next ==
  \/ \E c \in Callers :
       \/ \E p \in Projects :
            \/ \E op \in Changes : Change(c, op, p)
            \/ Create(c, p) \/ Import(c, p) \/ List(c, p)
            \/ \E source \in Projects : Copy(c, source, p)
            \/ \E children \in SUBSET Projects : Configurable(c, p, children)
       \/ Write(c) \/ CheckTarget(c) \/ CreateCopy(c) \/ Claim(c)
  \/ Crash

Spec == Init /\ [][Next]_vars

-----------------------------------------------------------------------------
(* What the files promise.                                                 *)

\* The call writes what its operation makes of this file.
WritesOver(c, file, next) ==
  /\ call[c].step = "writing"
  /\ IF call[c].op \in {"create", "duplicate", "import"} THEN file = None
     ELSE /\ file # None /\ Readable(file)
          /\ next \in Results(c, call[c].op, file)

(***************************************************************************)
(* No change is lost to another: whatever overlaps and fails, a project's  *)
(* file is only ever replaced by what an operation makes of the file that  *)
(* is there at that moment, by its migration, or by nothing, when it could *)
(* not be read or migrated (withProjectLock, readRecord).  A creation, a   *)
(* copy or an import never replaces a file, and an archived project is     *)
(* only restored.  What a rejected import removes is the subject of the    *)
(* next property.                                                          *)
(***************************************************************************)
ChangesBuildOnTheLatest ==
  [][\A p \in Projects : disk'[p] # disk[p] =>
       \/ \E c \in Callers :
            call[c].project = p /\ WritesOver(c, disk[p], disk'[p])
       \/ IsThere(p) /\ disk'[p] = Found(p)
       \/ disk'[p] = None /\ (Readable(disk[p]) => disk[p].old)
       \/ \E c \in Callers : call[c].step = "idle" /\ call'[c].op = "import"
    ]_vars

(* "Import validates and migrates a detached payload before any active     *)
(* project is changed": a rejected import leaves every active project as   *)
(* it was (importRecordLocked).                                            *)
RejectedImportsChangeNothing ==
  [][\A c \in Callers :
       call[c].step = "idle" /\ call'[c].op = "import"
       /\ call'[c].step = "refused" =>
         \A p \in Projects :
           IsThere(p) /\ Found(p).status = "active" => disk'[p] = disk[p]]_vars
=============================================================================
