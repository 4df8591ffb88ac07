------------------------- MODULE VersionPublication -------------------------
(***************************************************************************)
(* Archive creation: under the freeze, version service.create records the  *)
(* metadata of the current version, and publishVersion prepares a snapshot *)
(* of the database and a copy of the plugins in local/archive-publication, *)
(* registers them, and lets recoverVersionPublication move them into       *)
(* versions/.  The same recovery completes at boot what an error or a      *)
(* crash interrupted.                                                      *)
(*                                                                         *)
(* The freeze admits one creator at a time; the others have passed their   *)
(* checks already when they wait for it.  Renames are atomic; copies,      *)
(* recursive removals and the write of the active version are not.         *)
(***************************************************************************)
EXTENDS Naturals

CONSTANTS
    Creators,      \* archive jobs that may be started
    MaxVersions,   \* bound: archive versions
    MaxCrashes,    \* bound: process crashes
    MaxFailures,   \* bound: errors, file system or cancellation
    MaxSwitches,   \* bound: selections of a version to view
    NoOne          \* the owner of an unfrozen root

ASSUME BoundsAssumption ==
    /\ MaxVersions \in Nat \ {0}
    /\ MaxCrashes \in Nat /\ MaxFailures \in Nat /\ MaxSwitches \in Nat
    /\ NoOne \notin Creators

Versions == 1..MaxVersions
State == {"none", "partial", "whole"}
Outcomes == {"none", "created", "failed", "interrupted", "reload failed"}

VARIABLES
    tree,         \* versions/<v>, with its plugins
    snapshot,     \* versions/<v>/app.sqlite
    meta,         \* versions/<v>/meta.json: the creator that wrote it
    next, db,     \* local/archive-publication/next and app.sqlite
    pending,      \* `created` in pending.json, 0 when there is none
    activeFile,   \* local/state: the active version, 0 when it is malformed
    maintenance,  \* app.libraryMaintenance
    readOnly,     \* app.readOnly, as the last reload found it
    view,         \* paths.latestVersion, where file commits go, likewise
    waiting,      \* creators that wait for the freeze
    owner,        \* the creator that holds it
    pc,           \* where the boot or the owner stands
    outcome,      \* history: how the last creation ended
    before,       \* history: `previous` of the owner's publication
    archivedBy,   \* history: the creator whose publication froze a version
    unnoticed,    \* history: rm(work) failed when pending.json was gone already
    crashes, failures, switches

work == <<next, db, pending>>
versions == <<tree, snapshot>>
context == <<readOnly, view>>
control == <<maintenance, context, waiting, owner>>
history == <<outcome, before, archivedBy, unnoticed>>
budget == <<crashes, failures, switches>>
vars == <<versions, meta, work, activeFile, control, pc, history, budget>>

latest == CHOOSE v \in Versions :
    tree[v] # "none" /\ \A w \in Versions : w > v => tree[w] = "none"

(* The latest version once a registered publication is completed.           *)
Committed == IF pending # 0 THEN pending ELSE latest

(* readActiveVersion                                                       *)
active == IF activeFile \in 1..latest THEN activeFile ELSE latest

\* Recovery is called at boot and three times by publishVersion.
Callers == {"boot", "start", "finish", "catch"}
Labels == {"recover", "database", "directory", "activate", "remove",
           "source", "clear", "copy", "snapshot", "mark", "catch", "discard",
           "reload", "idle"}
Idle == [at |-> "idle", for |-> "boot"]
At(label) == pc.at = label
Goto(label) == pc' = [pc EXCEPT !.at = label]
Call(caller) == pc' = [at |-> "recover", for |-> caller]
Serving == pc = Idle \/ owner # NoOne

TypeOK ==
    /\ tree \in [Versions -> State] /\ snapshot \in [Versions -> State]
    /\ meta \in [Versions -> Creators \cup {NoOne}]
    /\ next \in State /\ db \in State
    /\ pending \in 0..MaxVersions
    /\ activeFile \in 0..MaxVersions
    /\ maintenance \in BOOLEAN /\ readOnly \in BOOLEAN /\ view \in Versions
    /\ waiting \subseteq Creators /\ owner \in Creators \cup {NoOne}
    /\ pc \in [at: Labels, for: Callers]
    /\ outcome \in Outcomes /\ before \in 0..MaxVersions
    /\ archivedBy \in [Versions -> Creators \cup {NoOne}] /\ unnoticed \in BOOLEAN
    /\ crashes \in 0..MaxCrashes /\ failures \in 0..MaxFailures
    /\ switches \in 0..MaxSwitches

Init ==
    /\ tree = [v \in Versions |-> IF v = 1 THEN "whole" ELSE "none"]
    /\ snapshot = [v \in Versions |-> "none"]
    /\ meta = [v \in Versions |-> NoOne]
    /\ next = "none" /\ db = "none" /\ pending = 0
    /\ activeFile = 1
    /\ maintenance = FALSE /\ readOnly = FALSE /\ view = 1
    /\ waiting = {} /\ owner = NoOne
    /\ pc = [at |-> "recover", for |-> "boot"]
    /\ outcome = "none" /\ before = 0
    /\ archivedBy = [v \in Versions |-> NoOne] /\ unnoticed = FALSE
    /\ crashes = 0 /\ failures = 0 /\ switches = 0

-----------------------------------------------------------------------------
(* resolveStorageContext                                                   *)
Resolve == readOnly' = (active # latest) /\ view' = latest

(* recoverVersionPublication returns to the boot, which resolves the       *)
(* context, or to publishVersion.                                          *)
RecoveryEnds ==
    IF pc.for = "boot"
    THEN pc' = Idle /\ maintenance' = FALSE /\ Resolve
    ELSE /\ Goto(IF pc.for = "start" THEN "source" ELSE "reload")
         /\ UNCHANGED <<context, maintenance>>

(* Mutation: at boot and after an error the recovery waits for a marker.   *)
RecoverAwaitsMarker ==
    /\ At("recover") /\ pending = 0 /\ pc.for = "start"
    /\ RecoveryEnds
    /\ UNCHANGED <<versions, meta, work, activeFile, waiting, owner, history, budget>>

RecoverNothing ==
    /\ At("recover") /\ pending = 0
    /\ RecoveryEnds
    /\ UNCHANGED <<versions, meta, work, activeFile, waiting, owner, history, budget>>

(* Mutation: a registered publication is given up.                         *)
RecoverGivesUp ==
    /\ At("recover") /\ pending # 0
    /\ Goto("remove")
    /\ UNCHANGED <<versions, meta, work, activeFile, control, history, budget>>

(* A publication of which a part is both staged and in place is refused.   *)
RecoverChecks ==
    /\ At("recover") /\ pending # 0
    /\ ~(tree[pending] # "none" /\ next # "none")
    /\ ~(snapshot[pending - 1] # "none" /\ db # "none")
    /\ Goto("database")
    /\ UNCHANGED <<versions, meta, work, activeFile, control, history, budget>>

MoveDatabase ==
    /\ At("database")
    /\ IF snapshot[pending - 1] = "none"
       THEN /\ snapshot' = [snapshot EXCEPT ![pending - 1] = db]
            /\ db' = "none"
       ELSE UNCHANGED <<snapshot, db>>
    /\ Goto("directory")
    /\ UNCHANGED <<tree, meta, next, pending, activeFile, control, history, budget>>

MoveDirectory ==
    /\ At("directory")
    /\ IF tree[pending] = "none"
       THEN /\ tree' = [tree EXCEPT ![pending] = next]
            /\ next' = "none"
       ELSE UNCHANGED <<tree, next>>
    /\ Goto("activate")
    /\ UNCHANGED <<snapshot, meta, db, pending, activeFile, control, history, budget>>

Activate ==
    /\ At("activate")
    /\ activeFile' = pending
    /\ Goto("remove")
    /\ UNCHANGED <<versions, meta, work, control, history, budget>>

(* rm(work), entry by entry in any order.                                  *)
Thinned(tree_) == {"none"} \cup (IF tree_ = "whole" THEN {"partial"} ELSE {})
Sweep ==
    /\ \/ pending # 0 /\ pending' = 0 /\ UNCHANGED <<next, db>>
       \/ next # "none" /\ next' \in Thinned(next) /\ UNCHANGED <<pending, db>>
       \/ db # "none" /\ db' = "none" /\ UNCHANGED <<pending, next>>
    /\ UNCHANGED <<versions, meta, activeFile, control, pc, history, budget>>
Swept == pending = 0 /\ next = "none" /\ db = "none"

RecoverRemoves == At("remove") /\ Sweep

RecoverRemoved ==
    /\ At("remove") /\ Swept
    /\ RecoveryEnds
    /\ UNCHANGED <<versions, meta, work, activeFile, waiting, owner, history, budget>>

-----------------------------------------------------------------------------
(* The archive job and service.create                                      *)
CreateCall(c) ==
    /\ Serving /\ c # owner /\ c \notin waiting
    /\ ~maintenance /\ ~readOnly
    /\ waiting' = waiting \cup {c}
    /\ UNCHANGED <<versions, meta, work, activeFile, maintenance, context, owner, pc, history, budget>>

(* The freeze is granted; nothing is checked again.  The metadata goes to  *)
(* the version that is the latest on disk.                                 *)
Begin(c) ==
    /\ pc = Idle /\ owner = NoOne /\ c \in waiting
    /\ Committed < MaxVersions
    /\ waiting' = waiting \ {c}
    /\ owner' = c
    /\ meta' = [meta EXCEPT ![latest] = c]
    /\ before' = 0
    /\ Call("start")
    /\ UNCHANGED <<versions, work, activeFile, maintenance, context, outcome, archivedBy, unnoticed, budget>>

Prepare ==
    /\ At("source") /\ snapshot[latest] = "none"
    /\ before' = latest
    /\ Goto("clear")
    /\ UNCHANGED <<versions, meta, work, activeFile, control, outcome, archivedBy, unnoticed, budget>>

PrepareClears == At("clear") /\ Sweep

CopyBegins ==
    /\ At("clear") /\ Swept
    /\ next' = "partial"
    /\ Goto("copy")
    /\ UNCHANGED <<versions, meta, db, pending, activeFile, control, history, budget>>

CopyEnds ==
    /\ At("copy")
    /\ next' = "whole"
    /\ Goto("snapshot")
    /\ UNCHANGED <<versions, meta, db, pending, activeFile, control, history, budget>>

(* The snapshot grows until it is complete.                                *)
Snapshot ==
    /\ At("snapshot")
    /\ \/ db = "none" /\ db' = "partial" /\ UNCHANGED pc
       \/ db = "partial" /\ db' = "whole" /\ Goto("mark")
    /\ UNCHANGED <<versions, meta, next, pending, activeFile, control, history, budget>>

(* Mutation: the publication is registered before its snapshot is made.    *)
MarkEarly ==
    /\ pc.at \in {"snapshot", "mark"}
    /\ pending' = before + 1
    /\ archivedBy' = [archivedBy EXCEPT ![before] = owner]
    /\ Call("finish")
    /\ UNCHANGED <<versions, meta, next, db, activeFile, control, outcome, before, unnoticed, budget>>

Mark ==
    /\ At("mark")
    /\ pending' = before + 1
    /\ archivedBy' = [archivedBy EXCEPT ![before] = owner]
    /\ Call("finish")
    /\ UNCHANGED <<versions, meta, next, db, activeFile, control, outcome, before, unnoticed, budget>>

(* Mutation: the catch block discards the work, registered or not.         *)
CatchDiscards ==
    /\ At("catch")
    /\ Goto("discard")
    /\ UNCHANGED <<versions, meta, work, activeFile, control, history, budget>>

(* The catch block of publishVersion.                                      *)
Catch ==
    /\ At("catch")
    /\ IF pending # 0 THEN Call("catch") ELSE Goto("discard")
    /\ UNCHANGED <<versions, meta, work, activeFile, control, history, budget>>

Discard == At("discard") /\ Sweep

End(result) ==
    /\ pc' = Idle
    /\ owner' = NoOne
    /\ outcome' = result
    /\ UNCHANGED <<versions, meta, work, activeFile, waiting, archivedBy, unnoticed, crashes, switches>>

Discarded ==
    /\ At("discard") /\ Swept
    /\ End("failed")
    /\ UNCHANGED <<maintenance, context, before, failures>>

(* afterPublish reloads the storage context before the freeze ends.        *)
Reload ==
    /\ At("reload")
    /\ Resolve
    /\ End("created")
    /\ UNCHANGED <<maintenance, before, failures>>

-----------------------------------------------------------------------------
(* An error inside the try block goes to the catch block.                  *)
Trying ==
    \/ pc.at \in {"copy", "snapshot", "mark"}
    \/ pc.for = "finish" /\ ~At("reload")

(* A removal that fails without pending.json is not known for what it is.  *)
Notice == unnoticed' = (unnoticed \/ (At("remove") /\ pending = 0))

(* The active version may be left truncated by the write that failed.      *)
TornActive ==
    IF At("activate") THEN activeFile' \in {activeFile, 0} ELSE UNCHANGED activeFile

FailInTry ==
    /\ owner # NoOne /\ Trying /\ failures < MaxFailures
    /\ failures' = failures + 1
    /\ TornActive /\ Notice
    /\ Goto("catch")
    /\ UNCHANGED <<versions, meta, work, control, outcome, before, archivedBy, crashes, switches>>

(* Mutation: an interrupted publication does not stop the service.         *)
FailUnnoticed ==
    /\ owner # NoOne /\ ~Trying /\ ~At("reload") /\ failures < MaxFailures
    /\ failures' = failures + 1
    /\ TornActive /\ Notice
    /\ pc' = Idle /\ owner' = NoOne
    /\ outcome' = "failed"
    /\ UNCHANGED <<versions, meta, work, maintenance, context, waiting, before, archivedBy, crashes, switches>>

(* An error that leaves publishVersion: a registered publication puts the  *)
(* library in maintenance until the service restarts.                      *)
FailOutside ==
    /\ owner # NoOne /\ ~Trying /\ ~At("reload") /\ failures < MaxFailures
    /\ failures' = failures + 1
    /\ TornActive /\ Notice
    /\ pc' = Idle /\ owner' = NoOne
    /\ IF pending # 0 THEN maintenance' = TRUE /\ outcome' = "interrupted"
       ELSE outcome' = "failed" /\ UNCHANGED maintenance
    /\ UNCHANGED <<versions, meta, work, context, waiting, before, archivedBy, crashes, switches>>

(* A reload that fails ends in maintenance as well.                        *)
ReloadFails ==
    /\ At("reload") /\ failures < MaxFailures
    /\ failures' = failures + 1
    /\ maintenance' = TRUE /\ readOnly' = TRUE
    /\ End("reload failed")
    /\ UNCHANGED <<view, before>>

(* A boot that fails is tried again.                                       *)
BootFails ==
    /\ owner = NoOne /\ pc # Idle /\ failures < MaxFailures
    /\ failures' = failures + 1
    /\ TornActive
    /\ Call("boot")
    /\ UNCHANGED <<versions, meta, work, control, history, crashes, switches>>

(* switchTo writes the active version whoever holds the freeze; the        *)
(* request is refused in maintenance.  The reload it asks for is not       *)
(* ordered with the creation (SwitchReload).                               *)
SwitchTo(v) ==
    /\ Serving /\ ~maintenance /\ switches < MaxSwitches
    /\ v \in 1..latest
    /\ switches' = switches + 1
    /\ activeFile' = v
    /\ UNCHANGED <<versions, meta, work, control, pc, history, crashes, failures>>

SwitchReload ==
    /\ Serving /\ ~maintenance
    /\ Resolve
    /\ context' # context
    /\ UNCHANGED <<versions, meta, work, activeFile, maintenance, waiting, owner, pc, history, budget>>

Crash ==
    /\ crashes < MaxCrashes
    /\ crashes' = crashes + 1
    /\ TornActive
    /\ waiting' = {} /\ owner' = NoOne
    /\ Call("boot")
    /\ outcome' = "none"
    /\ UNCHANGED <<versions, meta, work, maintenance, context, before, archivedBy, unnoticed, failures, switches>>

-----------------------------------------------------------------------------
Recovery ==
    \/ RecoverNothing \/ RecoverChecks \/ MoveDatabase \/ MoveDirectory
    \/ Activate \/ RecoverRemoves \/ RecoverRemoved
Publication ==
    \/ Prepare \/ PrepareClears \/ CopyBegins \/ CopyEnds \/ Snapshot \/ Mark
    \/ Catch \/ Discard \/ Discarded \/ Reload
Failure == FailInTry \/ FailOutside \/ ReloadFails \/ BootFails

Next ==
    \/ Recovery \/ Publication \/ Failure \/ Crash
    \/ \E c \in Creators : CreateCall(c) \/ Begin(c)
    \/ \E v \in Versions : SwitchTo(v)
    \/ SwitchReload

Spec == Init /\ [][Next]_vars

(* File operations end.                                                    *)
FairSpec == Spec /\ WF_vars(Recovery) /\ WF_vars(Publication)

-----------------------------------------------------------------------------
(* The parts of a version, those that recovery would move in included.      *)
SnapshotOf(v) ==
    IF pending = v + 1 /\ snapshot[v] = "none" THEN db ELSE snapshot[v]
TreeOf(v) == IF pending = v /\ tree[v] = "none" THEN next ELSE tree[v]

(* Whatever is interrupted, every archived version has its complete        *)
(* database and every version its complete plugins, in place or where the  *)
(* next recovery takes them from, and the current one is not frozen.       *)
HistoryIsComplete ==
    /\ \A v \in 1..Committed : TreeOf(v) = "whole"
    /\ \A v \in 1..Committed - 1 : SnapshotOf(v) = "whole"
    /\ SnapshotOf(Committed) = "none"

(* The result tells what happened on disk: "created" is one more version,  *)
(* all of it in place; "failed" is none, with nothing left to complete     *)
(* (unless rm(work) failed when pending.json was gone already).            *)
OutcomeIsTrue ==
    [][owner # NoOne /\ owner' = NoOne /\ before # 0 /\ ~unnoticed' =>
        /\ outcome' = "created" => Committed' = before + 1 /\ pending' = 0
        /\ outcome' = "failed" => Committed' = before
        /\ outcome' = "interrupted" => maintenance' /\ Committed' = before + 1]_vars

(* "Old versions are FROZEN": while files may be committed, commits go to   *)
(* the version that has no successor.                                      *)
OldVersionsAreFrozen ==
    pc = Idle /\ ~maintenance /\ ~readOnly => view = latest

(* The metadata of an archived version is what the creation that archived  *)
(* it wrote.                                                               *)
MetaIsItsOwn == \A v \in 1..Committed - 1 : meta[v] = archivedBy[v]

(* Every creation and every recovery ends.                                 *)
CreationEnds == pc # Idle ~> pc = Idle

(* Registration is the moment an archive comes into being.                 *)
History == INSTANCE ArchiveHistory WITH
    latest <- Committed,
    frozen <- {v \in 1..Committed : SnapshotOf(v) = "whole"},
    selected <- IF pending # 0 THEN pending ELSE active
ImplementsHistory == History!HistorySpec

=============================================================================
