---------------------------- MODULE ResourceFiles ----------------------------
(***************************************************************************)
(* The files of a resource: a creation inserts the row, makes the folder,  *)
(* moves the staged files of an upload into it and runs the import stages; *)
(* if any of that fails it takes the row and the folder back.  Creations   *)
(* run beside one another (a client may name the same staged files twice), *)
(* beside covers, deletions and listings, which see the row from its first *)
(* moment, and beside the removal of staged files.                         *)
(*                                                                         *)
(* Creations, covers and deletions are file commits: no archive is         *)
(* published while one is in progress, so there is one version here.       *)
(***************************************************************************)
EXTENDS Naturals, Sequences, FiniteSets, SequencesExt

CONSTANTS
    Resources,   \* each is created once
    Wants,       \* the staged files of each, in order
    Touched,     \* bound: resources that are also listed, covered and deleted
    Cover,       \* the one dotfile of a folder
    None, Unread,
    MaxFailures, \* bound: file operations that fail
    MaxCrashes   \* bound: process crashes

Files == UNION {ToSet(Wants[r]) : r \in Resources}

ASSUME ResourceAssumption ==
    /\ Wants \in [Resources -> Seq(Files) \ {<<>>}]
    /\ \A r \in Resources : IsInjective(Wants[r])
    /\ Touched \subseteq Resources
    /\ Cover \notin Files /\ MaxFailures \in Nat /\ MaxCrashes \in Nat
    /\ \A dir \in SUBSET (Files \cup {Cover}) : dir # None /\ dir # Unread
    /\ None # Unread

VARIABLES
    pool,       \* the files in the staging directory
    row,        \* the row of each resource: none, active, deleted (in the trash)
    folder,     \* its folder under versions/
    aside,      \* the folder that was renamed to .replacing-<time>
    pc, at,     \* where its creation stands, and the file it moves next
    covering,   \* resources a cover is being written for
    deleting,   \* where the hard deletion of each stands
    list,       \* files-cache.json
    listing,    \* listFilesInflight: what the listing in progress has read
    covered,    \* history: a cover was written, and no error came between since
    trashed,    \* history: the folder was moved to the trash
    missed,     \* history: the clearing of the cache missed a listing
    stuck,      \* history: an error kept the undo from being complete
    failures, crashes

tree == <<folder, aside>>
creation == <<pc, at>>
lists == <<list, listing, missed>>
covers == <<covering, covered>>
deletion == <<deleting, trashed>>
budget == <<failures, crashes>>
vars == <<pool, row, tree, creation, lists, covers, deletion, stuck, budget>>

Folders == (SUBSET (Files \cup {Cover})) \cup {None}
Contents(dir) == IF dir = None THEN {} ELSE dir
Stages == {"idle", "ensure", "resolve", "aside", "dotfiles", "install", "rollback",
           "sweep", "clear", "assign", "undo", "remove", "done", "failed", "crashed"}

TypeOK ==
    /\ pool \subseteq Files
    /\ row \in [Resources -> {"none", "active", "deleted"}]
    /\ folder \in [Resources -> Folders] /\ aside \in [Resources -> Folders]
    /\ pc \in [Resources -> Stages]
    /\ at \in [Resources -> Nat \ {0}] /\ \A r \in Resources : at[r] <= Len(Wants[r]) + 1
    /\ deleting \in [Resources -> {"idle", "moving", "dropping"}]
    /\ list \in [Resources -> (SUBSET Files) \cup {None}]
    /\ listing \in [Resources -> (SUBSET Files) \cup {None, Unread}]
    /\ {covering, covered, trashed, missed, stuck} \subseteq SUBSET Resources
    /\ failures \in 0..MaxFailures /\ crashes \in 0..MaxCrashes

Init ==
    /\ pool = Files /\ row = [r \in Resources |-> "none"]
    /\ folder = [r \in Resources |-> None] /\ aside = folder
    /\ pc = [r \in Resources |-> "idle"] /\ at = [r \in Resources |-> 1]
    /\ deleting = [r \in Resources |-> "idle"]
    /\ list = [r \in Resources |-> None] /\ listing = list
    /\ covering = {} /\ covered = {} /\ trashed = {} /\ missed = {} /\ stuck = {}
    /\ failures = 0 /\ crashes = 0

Goto(r, stage) == pc' = [pc EXCEPT ![r] = stage]
Error == failures < MaxFailures /\ failures' = failures + 1 /\ UNCHANGED crashes
Holds(r, dir) == folder' = [folder EXCEPT ![r] = dir]
Aside(r, dir) == aside' = [aside EXCEPT ![r] = dir]

-----------------------------------------------------------------------------
(* create: the row is there before anything else.                          *)
Insert(r) ==
    /\ pc[r] = "idle" /\ Goto(r, "ensure") /\ row' = [row EXCEPT ![r] = "active"]
    /\ UNCHANGED <<pool, tree, at, lists, covers, deletion, stuck, budget>>

EnsureFolder(r) ==
    /\ pc[r] = "ensure" /\ Goto(r, "resolve") /\ Holds(r, Contents(folder[r]))
    /\ UNCHANGED <<pool, row, aside, at, lists, covers, deletion, stuck, budget>>

(* commitOrderedByIds: every file has to be staged.                        *)
Resolve(r) ==
    /\ pc[r] = "resolve"
    /\ IF row[r] # "none" /\ ToSet(Wants[r]) \subseteq pool THEN Goto(r, "aside") ELSE Goto(r, "undo")
    /\ UNCHANGED <<pool, row, tree, at, lists, covers, deletion, stuck, budget>>

(* swapFolderForReplace, which finds nothing if the folder was deleted.    *)
SetAside(r) ==
    /\ pc[r] = "aside"
    /\ IF folder[r] = None
       THEN Goto(r, "install") /\ Holds(r, {}) /\ UNCHANGED aside
       ELSE Goto(r, "dotfiles") /\ Aside(r, folder[r]) /\ Holds(r, None)
    /\ UNCHANGED <<pool, row, at, lists, covers, deletion, stuck, budget>>

(* An error of one rename is ignored, and the cover goes with the aside.   *)
MoveDotfiles(r) ==
    /\ pc[r] = "dotfiles" /\ Goto(r, "install")
    /\ \/ /\ Holds(r, Contents(folder[r]) \cup (aside[r] \cap {Cover}))
          /\ Aside(r, aside[r] \ {Cover}) /\ UNCHANGED <<covers, budget>>
       \/ /\ Error /\ Holds(r, Contents(folder[r]))
          /\ covered' = covered \ {r} /\ UNCHANGED <<aside, covering>>
    /\ UNCHANGED <<pool, row, at, lists, deletion, stuck>>

(* Mutation: a file that is not there is passed over.                      *)
InstallSkips(r) ==
    /\ pc[r] = "install"
    /\ IF at[r] <= Len(Wants[r])
       THEN /\ pool' = pool \ {Wants[r][at[r]]} /\ at' = [at EXCEPT ![r] = @ + 1]
            /\ Holds(r, Contents(folder[r]) \cup (pool \cap {Wants[r][at[r]]})) /\ UNCHANGED pc
       ELSE Goto(r, "sweep") /\ UNCHANGED <<pool, folder, at>>
    /\ UNCHANGED <<row, aside, lists, covers, deletion, stuck, budget>>

(* install: file by file, then the order manifest.                         *)
Install(r) ==
    /\ pc[r] = "install"
    /\ CASE at[r] > Len(Wants[r]) ->
                /\ Goto(r, IF folder[r] = None THEN "rollback" ELSE "sweep")
                /\ UNCHANGED <<pool, folder, at>>
         [] at[r] <= Len(Wants[r]) /\ Wants[r][at[r]] \in pool ->
                /\ pool' = pool \ {Wants[r][at[r]]} /\ at' = [at EXCEPT ![r] = @ + 1]
                /\ Holds(r, Contents(folder[r]) \cup {Wants[r][at[r]]}) /\ UNCHANGED pc
         [] OTHER -> Goto(r, "rollback") /\ UNCHANGED <<pool, folder, at>>
    /\ UNCHANGED <<row, aside, lists, covers, deletion, stuck, budget>>

(* restoreAside, and the aside goes if it could not be moved back.  Errors *)
(* are ignored: the new folder may be left, and the aside.                 *)
RollBack(r) ==
    /\ pc[r] = "rollback" /\ Goto(r, "undo")
    /\ \/ /\ Holds(r, IF aside[r] = None THEN folder[r] ELSE aside[r]) /\ Aside(r, None)
          /\ UNCHANGED <<stuck, budget>>
       \/ /\ aside[r] # None /\ Error
          /\ \E dir \in {None, folder[r]} : Holds(r, dir)
          /\ \/ Aside(r, None) /\ UNCHANGED stuck
             \/ UNCHANGED aside /\ stuck' = stuck \cup {r}
    /\ UNCHANGED <<pool, row, at, lists, covers, deletion>>

(* The files are installed: the aside and what is left of the staged files *)
(* go; an error in that is ignored.                                        *)
Sweep(r) ==
    /\ pc[r] = "sweep" /\ Goto(r, "clear")
    /\ \/ Aside(r, None) /\ UNCHANGED <<stuck, budget>>
       \/ aside[r] # None /\ Error /\ UNCHANGED aside /\ stuck' = stuck \cup {r}
    /\ pool' = pool \ ToSet(Wants[r])
    /\ UNCHANGED <<row, folder, at, lists, covers, deletion>>

(* Mutation: the import stages without the one that clears.                *)
ClearSkipped(r) ==
    /\ pc[r] = "clear" /\ Goto(r, "assign")
    /\ UNCHANGED <<pool, row, tree, at, lists, covers, deletion, stuck, budget>>

(* The import stages: what was derived from the folder before is removed.  *)
(* The list misses that if it cannot be removed, which is ignored, or if   *)
(* the listing has read and is yet to write it.                            *)
ClearDerivatives(r) ==
    /\ pc[r] = "clear" /\ Goto(r, "assign")
    /\ \/ list' = [list EXCEPT ![r] = None] /\ UNCHANGED budget
       \/ list[r] # None /\ Error /\ UNCHANGED list
    /\ missed' = IF listing[r] \in {None, Unread} /\ list'[r] = None
                  THEN missed ELSE missed \cup {r}
    /\ UNCHANGED <<pool, row, tree, at, listing, covers, deletion, stuck>>

(* Then the plugin is detected; the other stages are one step with it.     *)
AssignPlugin(r) ==
    /\ pc[r] = "assign" /\ Goto(r, IF row[r] = "none" THEN "undo" ELSE "done")
    /\ UNCHANGED <<pool, row, tree, at, lists, covers, deletion, stuck, budget>>

(* The catch block of create.                                              *)
RemoveRow(r) ==
    /\ pc[r] = "undo" /\ Goto(r, "remove") /\ row' = [row EXCEPT ![r] = "none"]
    /\ UNCHANGED <<pool, tree, at, lists, covers, deletion, stuck, budget>>

(* Mutation: the row goes and the folder stays.                            *)
RemoveKeeps(r) ==
    /\ pc[r] = "remove" /\ Goto(r, "failed")
    /\ UNCHANGED <<pool, row, tree, at, lists, covers, deletion, stuck, budget>>

RemoveFolder(r) ==
    /\ pc[r] = "remove" /\ Goto(r, "failed") /\ Holds(r, None)
    /\ UNCHANGED <<pool, row, aside, at, lists, covers, deletion, stuck, budget>>

(* An operation of a creation throws.  The folder is made outside of the   *)
(* try block, the folder is set aside outside of the one that restores it, *)
(* and an error of the last removal is ignored.                            *)
CreateFails(r) ==
    /\ Error
    /\ CASE pc[r] = "install" -> Goto(r, "rollback") /\ UNCHANGED stuck
         [] pc[r] \in {"resolve", "aside", "assign"} -> Goto(r, "undo") /\ UNCHANGED stuck
         [] pc[r] = "dotfiles" -> Goto(r, "undo") /\ stuck' = stuck \cup {r}
         [] pc[r] \in {"ensure", "remove"} -> Goto(r, "failed") /\ stuck' = stuck \cup {r}
         [] OTHER -> FALSE
    /\ UNCHANGED <<pool, row, tree, at, lists, covers, deletion>>

-----------------------------------------------------------------------------
(* The client withdraws a staged file.                                     *)
DiscardStagedFile(f) ==
    /\ f \in pool /\ pool' = pool \ {f}
    /\ UNCHANGED <<row, tree, creation, lists, covers, deletion, stuck, budget>>

(* setCover looks for the row and then writes, into a folder it makes.  The*)
(* cover before goes first, and a folder that is moved away meanwhile makes*)
(* the write fail, before that or after.                                   *)
SetCover(r) ==
    /\ row[r] # "none" /\ r \notin covering /\ covering' = covering \cup {r}
    /\ UNCHANGED <<pool, row, tree, creation, lists, covered, deletion, stuck, budget>>

WriteCover(r) ==
    /\ r \in covering /\ covering' = covering \ {r}
    /\ \/ Holds(r, Contents(folder[r]) \cup {Cover}) /\ covered' = covered \cup {r}
       \/ Holds(r, Contents(folder[r]) \ {Cover}) /\ covered' = covered \ {r}
       \/ UNCHANGED <<folder, covered>>
    /\ UNCHANGED <<pool, row, aside, creation, lists, deletion, stuck, budget>>

-----------------------------------------------------------------------------
SoftDelete(r) ==
    /\ row[r] = "active" /\ row' = [row EXCEPT ![r] = "deleted"]
    /\ UNCHANGED <<pool, tree, creation, lists, covers, deletion, stuck, budget>>

Restore(r) ==
    /\ row[r] = "deleted" /\ row' = [row EXCEPT ![r] = "active"]
    /\ UNCHANGED <<pool, tree, creation, lists, covers, deletion, stuck, budget>>

HardDelete(r) ==
    /\ row[r] = "deleted" /\ deleting[r] = "idle"
    /\ deleting' = [deleting EXCEPT ![r] = "moving"]
    /\ UNCHANGED <<pool, row, tree, creation, lists, covers, trashed, stuck, budget>>

(* A folder that is in use stays, and any other error ends the deletion.   *)
MoveFolderToTrash(r) ==
    /\ deleting[r] = "moving"
    /\ \/ /\ deleting' = [deleting EXCEPT ![r] = "dropping"]
          /\ Holds(r, None) /\ trashed' = trashed \cup {r} /\ UNCHANGED budget
       \/ /\ Error /\ UNCHANGED <<folder, trashed>>
          /\ \E next \in {"dropping", "idle"} : deleting' = [deleting EXCEPT ![r] = next]
    /\ UNCHANGED <<pool, row, aside, creation, lists, covers, stuck>>

DropRow(r) ==
    /\ deleting[r] = "dropping" /\ deleting' = [deleting EXCEPT ![r] = "idle"]
    /\ row' = [row EXCEPT ![r] = "none"]
    /\ \/ list' = [list EXCEPT ![r] = None] /\ UNCHANGED budget
       \/ list[r] # None /\ Error /\ UNCHANGED list
    /\ UNCHANGED <<pool, tree, creation, listing, missed, covers, trashed, stuck>>

-----------------------------------------------------------------------------
(* listResourceFiles: without a cached list and a listing in progress one  *)
(* begins; what it reads is kept unless it is empty.                       *)
ListResourceFiles(r) ==
    /\ row[r] # "none" /\ list[r] = None /\ listing[r] = None
    /\ listing' = [listing EXCEPT ![r] = Unread]
    /\ UNCHANGED <<pool, row, tree, creation, list, missed, covers, deletion, stuck, budget>>

ReadFiles(r) ==
    /\ listing[r] = Unread
    /\ listing' = [listing EXCEPT ![r] = Contents(folder[r]) \ {Cover}]
    /\ UNCHANGED <<pool, row, tree, creation, list, missed, covers, deletion, stuck, budget>>

WriteFilesCache(r) ==
    /\ listing[r] \notin {None, Unread}
    /\ listing' = [listing EXCEPT ![r] = None]
    /\ list' = IF listing[r] = {} THEN list ELSE [list EXCEPT ![r] = listing[r]]
    /\ UNCHANGED <<pool, row, tree, creation, missed, covers, deletion, stuck, budget>>

(* The process ends; the next start empties the staging directory and the  *)
(* caches of resources it does not know.                                   *)
Crash ==
    /\ crashes < MaxCrashes /\ crashes' = crashes + 1
    /\ pc' = [r \in Resources |-> IF pc[r] \in {"idle", "done", "failed"} THEN pc[r] ELSE "crashed"]
    /\ pool' = {} /\ listing' = [r \in Resources |-> None] /\ covering' = {}
    /\ list' = [r \in Resources |-> IF row[r] = "none" THEN None ELSE list[r]]
    /\ deleting' = [r \in Resources |-> "idle"]
    /\ UNCHANGED <<row, tree, at, missed, covered, trashed, stuck, failures>>

-----------------------------------------------------------------------------
Create(r) ==
    \/ EnsureFolder(r) \/ Resolve(r) \/ SetAside(r) \/ MoveDotfiles(r) \/ Install(r)
    \/ RollBack(r) \/ Sweep(r) \/ ClearDerivatives(r) \/ AssignPlugin(r)
    \/ RemoveRow(r) \/ RemoveFolder(r)
Delete(r) == MoveFolderToTrash(r) \/ DropRow(r)
Next ==
    \/ \E r \in Resources : Insert(r) \/ Create(r) \/ CreateFails(r)
    \/ \E r \in Touched :
        \/ SetCover(r) \/ WriteCover(r)
        \/ SoftDelete(r) \/ Restore(r) \/ HardDelete(r) \/ Delete(r)
        \/ ListResourceFiles(r) \/ ReadFiles(r) \/ WriteFilesCache(r)
    \/ \E f \in Files : DiscardStagedFile(f)
    \/ Crash

Spec == Init /\ [][Next]_vars

-----------------------------------------------------------------------------
(* A creation that returned has all the files it was asked for and the     *)
(* cover that was set meanwhile, whatever other creations, removals and    *)
(* failures met; until the folder goes to the trash.                       *)
CreatedIsWhole ==
    \A r \in Resources : pc[r] = "done" /\ row[r] # "none" /\ r \notin trashed =>
        ToSet(Wants[r]) \cup (IF r \in covered THEN {Cover} ELSE {}) \subseteq Contents(folder[r])

(* A creation that failed leaves no row, and no files but for a cover that *)
(* was being written; unless its undo met an error as well (README).       *)
FailedLeavesNothing ==
    \A r \in Resources : pc[r] = "failed" /\ r \notin stuck =>
        row[r] = "none" /\ aside[r] = None /\ Contents(folder[r]) \subseteq {Cover}

(* A list that was kept while the folder was being filled is gone when the *)
(* creation returns, whatever listings began and ended meanwhile; but for  *)
(* one that had read and ran on while the cache was cleared, and one that  *)
(* could not be removed then (README).                                     *)
ListIsWhole ==
    \A r \in Resources \ (missed \cup trashed) :
        pc[r] = "done" /\ list[r] # None => list[r] = ToSet(Wants[r])

(* The same of every list, as the comment on the cache says.               *)
ListsAreWhole ==
    \A r \in Resources \ trashed : pc[r] = "done" /\ list[r] # None => list[r] = ToSet(Wants[r])

(* A creation that fails leaves its staged files to another attempt: those *)
(* it had moved go with the folder (README).                               *)
StagedIsLeft == [][\A r \in Resources : pc'[r] = "failed" => Contents(folder[r]) \subseteq {Cover}]_vars

(* A resource that was taken out of the trash is not deleted: a deletion   *)
(* that began before does not look again (README).                         *)
RestoredStays ==
    [][\A r \in Resources : row[r] = "active" /\ deleting[r] # "idle" => row'[r] # "none"]_vars

=============================================================================
