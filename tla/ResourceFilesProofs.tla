------------------------ MODULE ResourceFilesProofs ------------------------
(***************************************************************************)
(* Proofs about the files of resources, for any set of resources, any      *)
(* staged files and any bounds: what a creation that returned, one that    *)
(* failed and a kept list of files hold.                                   *)
(*                                                                         *)
(* The argument is local to a resource: what other creations do to the     *)
(* staging directory decides the way it takes, and never its own folder.   *)
(* Then the metadata of resources: once the rebuilds of a resource have    *)
(* ended, what it says comes from its own plugin, and no slot stays held.  *)
(***************************************************************************)
EXTENDS ResourceFiles, MetaRebuild, FiniteSetTheorems, SequenceTheorems, TLAPS

Wanted(r) == ToSet(Wants[r])
Installed(r) == {Wants[r][k] : k \in {k \in 1..Len(Wants[r]) : k < at[r]}}

(* Where the folder of a creation that was not trashed holds its files.    *)
Filled == {"sweep", "clear", "assign", "done"}
FolderInv(r) ==
    /\ pc[r] \in {"idle", "ensure", "resolve", "aside", "dotfiles"} => at[r] = 1
    /\ pc[r] = "dotfiles" => aside[r] # None /\ Contents(folder[r]) \subseteq {Cover}
    /\ pc[r] \in Filled \cup {"install"} =>
            Contents(folder[r]) \subseteq Wanted(r) \cup {Cover}
    /\ pc[r] = "install" /\ r \notin trashed => Installed(r) \subseteq Contents(folder[r])
    /\ pc[r] \in Filled /\ r \notin trashed => Wanted(r) \subseteq Contents(folder[r])

(* A cover that was written is in the folder, or moves with the aside.     *)
CoverInv(r) ==
    r \in covered \ trashed =>
        /\ pc[r] \in Filled \cup {"idle", "ensure", "resolve", "aside", "install"} =>
                Cover \in Contents(folder[r])
        /\ pc[r] = "dotfiles" => Cover \in Contents(folder[r]) \cup Contents(aside[r])

(* No folder is set aside before, after and behind the replacement.        *)
UndoInv(r) ==
    /\ pc[r] \in {"idle", "ensure", "resolve", "aside", "clear", "assign", "undo", "remove"}
            /\ r \notin stuck => aside[r] = None
    /\ pc[r] = "remove" => row[r] = "none"

(* Once the caches are cleared, lists and listings are of the whole folder.*)
ListInv(r) ==
    pc[r] \in {"assign", "done"} /\ r \notin missed \cup trashed =>
        list[r] \in {None, Wanted(r)} /\ listing[r] \in {None, Unread, Wanted(r)}

FailedInv(r) ==
    pc[r] = "failed" /\ r \notin stuck =>
        row[r] = "none" /\ aside[r] = None /\ Contents(folder[r]) \subseteq {Cover}

ResourceInv(r) == FolderInv(r) /\ CoverInv(r) /\ UndoInv(r) /\ ListInv(r) /\ FailedInv(r)
ResourcesInv == \A r \in Resources : ResourceInv(r)

IInv == TypeOK /\ ResourcesInv

-----------------------------------------------------------------------------
(* The staged files of a resource, and the contents of a folder.           *)
LEMMA WantsFiles ==
    ASSUME NEW r \in Resources
    PROVE  /\ Len(Wants[r]) \in Nat \ {0}
           /\ Wanted(r) = {Wants[r][k] : k \in 1..Len(Wants[r])}
           /\ \A k \in 1..Len(Wants[r]) : Wants[r][k] \in Files /\ Wants[r][k] \in Wanted(r)
           /\ Wanted(r) \subseteq Files /\ Cover \notin Wanted(r)
           /\ Wanted(r) # None /\ Wanted(r) # Unread
  <1>1. Wants[r] \in Seq(Files) /\ Wants[r] # <<>>
    BY ResourceAssumption
  <1>2. Len(Wants[r]) \in Nat \ {0} /\ DOMAIN Wants[r] = 1..Len(Wants[r])
    BY <1>1
  <1>3. \A k \in 1..Len(Wants[r]) : Wants[r][k] \in Files
    BY <1>1
  <1>4. Wanted(r) = {Wants[r][k] : k \in 1..Len(Wants[r])}
    BY <1>2 DEF Wanted, ToSet
  <1>5. Wanted(r) \subseteq Files
    BY <1>3, <1>4
  <1>6. QED
    BY <1>2, <1>3, <1>4, <1>5, ResourceAssumption

LEMMA FolderContents ==
    /\ None \in Folders
    /\ \A dir \in Folders : Contents(dir) \subseteq Files \cup {Cover}
    /\ \A S \in SUBSET (Files \cup {Cover}) : S \in Folders /\ S # None /\ Contents(S) = S
    /\ Contents(None) = {}
  BY ResourceAssumption DEF Folders, Contents

LEMMA InitInv ==
    ASSUME Init
    PROVE  IInv
  <1>1. TypeOK
    BY FolderContents, WantsFiles, ResourceAssumption DEF Init, TypeOK, Stages
  <1>2. ResourcesInv
    BY FolderContents
    DEF Init, ResourcesInv, ResourceInv, FolderInv, CoverInv, UndoInv, ListInv, FailedInv, Filled
  <1>3. QED
    BY <1>1, <1>2 DEF IInv

-----------------------------------------------------------------------------
(* Types, action by action: the steps of a creation first.                 *)
LEMMA CreateType ==
    ASSUME TypeOK, ResourcesInv, NEW r \in Resources, Create(r)
    PROVE  TypeOK'
  <1> USE DEF Goto, Holds, Aside, Stages
  <1>1. CASE EnsureFolder(r)
    BY <1>1, FolderContents DEF EnsureFolder, TypeOK, tree, lists, covers, deletion, budget
  <1>2. CASE Resolve(r)
    BY <1>2 DEF Resolve, TypeOK, tree, lists, covers, deletion, budget
  <1>3. CASE SetAside(r)
    <2>1. {} \in Folders /\ None \in Folders
      BY FolderContents
    <2>2. QED
      <3>a. folder \in [Resources -> Folders] /\ aside \in [Resources -> Folders]
            /\ folder[r] \in Folders
        BY DEF TypeOK
      <3>b. \/ folder' = [folder EXCEPT ![r] = {}] /\ aside' = aside
            \/ folder' = [folder EXCEPT ![r] = None] /\ aside' = [aside EXCEPT ![r] = folder[r]]
        BY <1>3 DEF SetAside
      <3>1. folder' \in [Resources -> Folders] /\ aside' \in [Resources -> Folders]
        BY <2>1, <3>a, <3>b
      <3>2. QED
        BY <1>3, <3>1 DEF SetAside, TypeOK, lists, covers, deletion, budget
  <1>4. CASE MoveDotfiles(r)
    <2>1. Contents(folder[r]) \subseteq Files \cup {Cover} /\ folder[r] \in Folders
      BY FolderContents DEF TypeOK
    <2>2. Contents(folder[r]) \in Folders /\ Contents(folder[r]) \cup (aside[r] \cap {Cover}) \in Folders
      BY <2>1, FolderContents
    <2>3. folder' \in [Resources -> Folders]
      BY <1>4, <2>2 DEF MoveDotfiles, TypeOK
    <2>4. aside[r] \ {Cover} \in Folders
      <3>1. aside[r] # None /\ aside[r] \in Folders
        BY <1>4 DEF MoveDotfiles, ResourcesInv, ResourceInv, FolderInv, TypeOK
      <3>2. QED
        BY <3>1, FolderContents DEF Contents
    <2>5. aside' \in [Resources -> Folders]
      BY <1>4, <2>4 DEF MoveDotfiles, TypeOK
    <2>6. /\ covering' \subseteq Resources /\ covered' \subseteq Resources
          /\ failures' \in 0..MaxFailures /\ crashes' = crashes
      BY <1>4, ResourceAssumption DEF MoveDotfiles, TypeOK, covers, budget, Error
    <2>7. QED
      BY <1>4, <2>3, <2>5, <2>6 DEF MoveDotfiles, TypeOK, lists, deletion
  <1>5. CASE Install(r)
    <2>1. pool' \subseteq Files
      BY <1>5 DEF Install, TypeOK
    <2>2. folder' \in [Resources -> Folders]
      <3>1. CASE UNCHANGED folder
        BY <3>1 DEF TypeOK
      <3>2. CASE at[r] <= Len(Wants[r]) /\ Holds(r, Contents(folder[r]) \cup {Wants[r][at[r]]})
        <4>1. Wants[r][at[r]] \in Files
          BY <3>2, WantsFiles DEF TypeOK
        <4>2. Contents(folder[r]) \subseteq Files \cup {Cover}
          BY FolderContents DEF TypeOK
        <4>3. Contents(folder[r]) \cup {Wants[r][at[r]]} \in Folders
          BY <4>1, <4>2, FolderContents
        <4>4. QED
          BY <3>2, <4>3 DEF TypeOK
      <3>3. QED
        BY <1>5, <3>1, <3>2 DEF Install
    <2>3. at' \in [Resources -> Nat \ {0}] /\ \A q \in Resources : at'[q] <= Len(Wants[q]) + 1
      <3>1. CASE UNCHANGED at
        BY <3>1 DEF TypeOK
      <3>2. CASE at[r] <= Len(Wants[r]) /\ at' = [at EXCEPT ![r] = @ + 1]
        BY <3>2, WantsFiles DEF TypeOK
      <3>3. QED
        BY <1>5, <3>1, <3>2 DEF Install
    <2>4. QED
      BY <1>5, <2>1, <2>2, <2>3 DEF Install, TypeOK, lists, covers, deletion, budget
  <1>6. CASE RollBack(r)
    <2>1. folder' \in [Resources -> Folders] /\ aside' \in [Resources -> Folders]
      <3>1. /\ None \in Folders /\ aside[r] \in Folders /\ folder[r] \in Folders
            /\ folder \in [Resources -> Folders] /\ aside \in [Resources -> Folders]
        BY FolderContents DEF TypeOK
      <3>2. /\ \E dir \in {None, aside[r], folder[r]} : folder' = [folder EXCEPT ![r] = dir]
            /\ aside' = [aside EXCEPT ![r] = None] \/ aside' = aside
        BY <1>6 DEF RollBack, Aside
      <3>3. QED
        BY <3>1, <3>2
    <2>2. failures' \in 0..MaxFailures /\ crashes' \in 0..MaxCrashes
      BY <1>6, ResourceAssumption DEF RollBack, TypeOK, Error, budget
    <2>3. pc' \in [Resources -> Stages] /\ stuck' \subseteq Resources
      BY <1>6 DEF RollBack, TypeOK
    <2>4. QED
      BY <1>6, <2>1, <2>2, <2>3 DEF RollBack, TypeOK, lists, covers, deletion
  <1>7. CASE Sweep(r)
    <2>1. aside' \in [Resources -> Folders] /\ stuck' \subseteq Resources
      <3>1. None \in Folders
        BY FolderContents
      <3>2. aside' = aside \/ aside' = [aside EXCEPT ![r] = None]
        BY <1>7 DEF Sweep, Aside
      <3>3. stuck' = stuck \/ stuck' = stuck \cup {r}
        BY <1>7 DEF Sweep
      <3>4. aside \in [Resources -> Folders] /\ stuck \subseteq Resources
        BY DEF TypeOK
      <3>5. QED
        BY <3>1, <3>2, <3>3, <3>4
    <2>2. failures' \in 0..MaxFailures /\ crashes' \in 0..MaxCrashes
      BY <1>7, ResourceAssumption DEF Sweep, TypeOK, Error, budget
    <2>3. pc' \in [Resources -> Stages] /\ pool' \subseteq Files
      BY <1>7 DEF Sweep, TypeOK
    <2>4. /\ UNCHANGED <<row, folder, at>>
          /\ UNCHANGED <<lists, covers, deletion>>
      BY <1>7 DEF Sweep
    <2>5. QED
      BY <2>1, <2>2, <2>3, <2>4 DEF TypeOK, lists, covers, deletion
  <1>8. CASE ClearDerivatives(r)
    <2>1. failures' \in 0..MaxFailures /\ crashes' \in 0..MaxCrashes
      BY <1>8, ResourceAssumption DEF ClearDerivatives, TypeOK, Error, budget
    <2>2. /\ list' \in [Resources -> (SUBSET Files) \cup {None}] /\ missed' \subseteq Resources
          /\ pc' \in [Resources -> Stages]
      BY <1>8 DEF ClearDerivatives, TypeOK
    <2>3. QED
      BY <1>8, <2>1, <2>2 DEF ClearDerivatives, TypeOK, tree, covers, deletion
  <1>9. CASE AssignPlugin(r)
    BY <1>9 DEF AssignPlugin, TypeOK, tree, lists, covers, deletion, budget
  <1>10. CASE RemoveRow(r)
    BY <1>10 DEF RemoveRow, TypeOK, tree, lists, covers, deletion, budget
  <1>11. CASE RemoveFolder(r)
    <2>1. folder' \in [Resources -> Folders]
      BY <1>11, FolderContents DEF RemoveFolder, TypeOK
    <2>2. QED
      BY <1>11, <2>1 DEF RemoveFolder, TypeOK, lists, covers, deletion, budget
  <1>12. QED
    BY <1>1, <1>2, <1>3, <1>4, <1>5, <1>6, <1>7, <1>8, <1>9, <1>10, <1>11 DEF Create

(* The other steps of the process, which meet a resource in any state.     *)
LEMMA BesideType ==
    ASSUME TypeOK, NEW r \in Resources,
           \/ Insert(r) \/ CreateFails(r) \/ SetCover(r) \/ WriteCover(r) \/ SoftDelete(r)
           \/ Restore(r) \/ HardDelete(r) \/ Delete(r)
           \/ ListResourceFiles(r) \/ ReadFiles(r) \/ WriteFilesCache(r)
    PROVE  TypeOK'
  <1> USE DEF Goto, Holds, Stages
  <1>1. CASE Insert(r) \/ SoftDelete(r) \/ Restore(r)
    <2>1. row' \in [Resources -> {"none", "active", "deleted"}] /\ pc' \in [Resources -> Stages]
      BY <1>1 DEF Insert, SoftDelete, Restore, TypeOK, creation
    <2>2. UNCHANGED <<pool, folder, aside, at, lists, covers, deletion, stuck, budget>>
      BY <1>1 DEF Insert, SoftDelete, Restore, tree, creation
    <2>3. QED
      BY <2>1, <2>2 DEF TypeOK, lists, covers, deletion, budget
  <1>2. CASE CreateFails(r)
    <2>1. /\ \E stage \in {"rollback", "undo", "failed"} : Goto(r, stage)
          /\ stuck' \in {stuck, stuck \cup {r}}
      BY <1>2 DEF CreateFails
    <2>2. pc' \in [Resources -> Stages] /\ stuck' \subseteq Resources
      BY <2>1 DEF TypeOK
    <2>3. failures' \in 0..MaxFailures /\ crashes' = crashes
      BY <1>2, ResourceAssumption DEF CreateFails, Error, TypeOK
    <2>4. QED
      BY <1>2, <2>2, <2>3 DEF CreateFails, TypeOK, tree, lists, covers, deletion
  <1>3. CASE SetCover(r)
    BY <1>3 DEF SetCover, TypeOK, tree, creation, lists, deletion, budget
  <1>4. CASE WriteCover(r)
    <2>1. Contents(folder[r]) \subseteq Files \cup {Cover}
      BY FolderContents DEF TypeOK
    <2>2. /\ Contents(folder[r]) \cup {Cover} \in Folders
          /\ Contents(folder[r]) \ {Cover} \in Folders
      BY <2>1, FolderContents
    <2>3. folder' \in [Resources -> Folders] /\ covered' \subseteq Resources
      BY <1>4, <2>2 DEF WriteCover, TypeOK
    <2>4. QED
      BY <1>4, <2>3 DEF WriteCover, TypeOK, creation, lists, deletion, budget
  <1>5. CASE HardDelete(r)
    BY <1>5 DEF HardDelete, TypeOK, tree, creation, lists, covers, budget
  <1>6. CASE MoveFolderToTrash(r)
    <2>1. folder' \in [Resources -> Folders] /\ trashed' \subseteq Resources
      <3>1. None \in Folders
        BY FolderContents
      <3>2. QED
        BY <1>6, <3>1 DEF MoveFolderToTrash, TypeOK, tree
    <2>2. failures' \in 0..MaxFailures /\ crashes' = crashes
      BY <1>6, ResourceAssumption DEF MoveFolderToTrash, Error, TypeOK, budget
    <2>3. deleting' \in [Resources -> {"idle", "moving", "dropping"}]
      BY <1>6 DEF MoveFolderToTrash, TypeOK
    <2>4. QED
      BY <1>6, <2>1, <2>2, <2>3 DEF MoveFolderToTrash, TypeOK, creation, lists, covers
  <1>7. CASE DropRow(r)
    <2>1. failures' \in 0..MaxFailures /\ crashes' \in 0..MaxCrashes
      BY <1>7, ResourceAssumption DEF DropRow, TypeOK, Error, budget
    <2>2. list' \in [Resources -> (SUBSET Files) \cup {None}]
      BY <1>7 DEF DropRow, TypeOK
    <2>3. QED
      BY <1>7, <2>1, <2>2 DEF DropRow, TypeOK, tree, creation, covers
  <1>8. CASE ListResourceFiles(r)
    BY <1>8 DEF ListResourceFiles, TypeOK, tree, creation, covers, deletion, budget
  <1>9. CASE ReadFiles(r)
    <2>1. Contents(folder[r]) \ {Cover} \in SUBSET Files
      BY FolderContents DEF TypeOK
    <2>2. QED
      BY <1>9, <2>1 DEF ReadFiles, TypeOK, tree, creation, covers, deletion, budget
  <1>10. CASE WriteFilesCache(r)
    BY <1>10 DEF WriteFilesCache, TypeOK, tree, creation, covers, deletion, budget
  <1>11. QED
    BY <1>1, <1>2, <1>3, <1>4, <1>5, <1>6, <1>7, <1>8, <1>9, <1>10 DEF Delete

LEMMA TypeStep ==
    ASSUME TypeOK, ResourcesInv, [Next]_vars
    PROVE  TypeOK'
  <1>1. ASSUME NEW f \in Files, DiscardStagedFile(f)
        PROVE  TypeOK'
    BY <1>1 DEF DiscardStagedFile, TypeOK, tree, creation, lists, covers, deletion, budget
  <1>2. CASE Crash
    <2>1. pc' \in [Resources -> Stages]
      BY <1>2 DEF Crash, TypeOK, Stages
    <2>2. /\ list' \in [Resources -> (SUBSET Files) \cup {None}]
          /\ listing' \in [Resources -> (SUBSET Files) \cup {None, Unread}]
      BY <1>2 DEF Crash, TypeOK
    <2>3. failures' = failures /\ crashes' \in 0..MaxCrashes
      BY <1>2, ResourceAssumption DEF Crash, TypeOK
    <2>4. QED
      BY <1>2, <2>1, <2>2, <2>3 DEF Crash, TypeOK, tree
  <1>3. CASE UNCHANGED vars
    BY <1>3 DEF TypeOK, vars, tree, creation, lists, covers, deletion, budget
  <1>4. QED
    BY <1>1, <1>2, <1>3, CreateType, BesideType, ResourceAssumption DEF Next

-----------------------------------------------------------------------------
(* A step on one resource leaves the others alone, and so what holds of    *)
(* them.                                                                   *)
Alone(r) ==
    /\ row'[r] = row[r] /\ folder'[r] = folder[r] /\ aside'[r] = aside[r]
    /\ pc'[r] = pc[r] /\ at'[r] = at[r]
    /\ list'[r] = list[r] /\ listing'[r] = listing[r]
    /\ r \in covered' <=> r \in covered
    /\ r \in trashed' <=> r \in trashed
    /\ r \in missed' <=> r \in missed
    /\ r \in stuck' <=> r \in stuck

LEMMA AloneKeeps ==
    ASSUME NEW r \in Resources, ResourceInv(r), Alone(r)
    PROVE  ResourceInv(r)'
  <1>1. FolderInv(r)' /\ CoverInv(r)'
    BY DEF ResourceInv, FolderInv, CoverInv, Alone, Installed, Contents
  <1>2. UndoInv(r)' /\ ListInv(r)' /\ FailedInv(r)'
    BY DEF ResourceInv, UndoInv, ListInv, FailedInv, Alone, Contents
  <1>3. QED
    BY <1>1, <1>2 DEF ResourceInv

LEMMA OthersAlone ==
    ASSUME TypeOK, NEW q \in Resources, NEW r \in Resources, r # q,
           \/ Insert(q) \/ Create(q) \/ CreateFails(q) \/ SetCover(q) \/ WriteCover(q)
           \/ SoftDelete(q) \/ Restore(q) \/ HardDelete(q) \/ Delete(q)
           \/ ListResourceFiles(q) \/ ReadFiles(q) \/ WriteFilesCache(q)
    PROVE  Alone(r)
  <1> USE DEF Goto, Holds, Aside, Alone, tree, creation, lists, covers, deletion, budget
  <1>1. CASE Insert(q) \/ SoftDelete(q) \/ Restore(q) \/ HardDelete(q) \/ SetCover(q)
    BY <1>1 DEF Insert, SoftDelete, Restore, HardDelete, SetCover, TypeOK
  <1>2. CASE CreateFails(q)
    BY <1>2 DEF CreateFails, TypeOK
  <1>3. CASE WriteCover(q)
    BY <1>3 DEF WriteCover, TypeOK
  <1>4. CASE Delete(q)
    BY <1>4 DEF Delete, MoveFolderToTrash, DropRow, TypeOK
  <1>5. CASE ListResourceFiles(q) \/ ReadFiles(q) \/ WriteFilesCache(q)
    BY <1>5 DEF ListResourceFiles, ReadFiles, WriteFilesCache, TypeOK
  <1>6. CASE EnsureFolder(q) \/ Resolve(q) \/ SetAside(q)
    BY <1>6 DEF EnsureFolder, Resolve, SetAside, TypeOK
  <1>7. CASE MoveDotfiles(q)
    BY <1>7 DEF MoveDotfiles, TypeOK
  <1>8. CASE Install(q)
    BY <1>8 DEF Install, TypeOK
  <1>9. CASE RollBack(q) \/ Sweep(q)
    BY <1>9 DEF RollBack, Sweep, TypeOK
  <1>10. CASE ClearDerivatives(q) \/ AssignPlugin(q) \/ RemoveRow(q) \/ RemoveFolder(q)
    BY <1>10 DEF ClearDerivatives, AssignPlugin, RemoveRow, RemoveFolder, TypeOK
  <1>11. QED
    BY <1>1, <1>2, <1>3, <1>4, <1>5, <1>6, <1>7, <1>8, <1>9, <1>10 DEF Create

-----------------------------------------------------------------------------
(* What a step does to its own resource: first the creation up to where    *)
(* the old folder is aside.                                                *)
LEMMA BeforeInstall ==
    ASSUME TypeOK, NEW r \in Resources, ResourceInv(r),
           Insert(r) \/ EnsureFolder(r) \/ Resolve(r) \/ SetAside(r) \/ MoveDotfiles(r)
    PROVE  ResourceInv(r)'
  <1> USE DEF Goto, Holds, Aside, tree, creation, lists, covers, deletion, budget
  <1>1. CASE Insert(r)
    BY <1>1 DEF Insert, TypeOK, ResourceInv, FolderInv, CoverInv, UndoInv, ListInv, FailedInv,
       Filled, Contents
  <1>2. CASE EnsureFolder(r)
    <2>1. Contents(folder[r]) \in SUBSET (Files \cup {Cover})
      BY FolderContents DEF TypeOK
    <2>2. folder'[r] = Contents(folder[r]) /\ Contents(folder'[r]) = Contents(folder[r])
      BY <1>2, <2>1, FolderContents DEF EnsureFolder, TypeOK
    <2>3. QED
      BY <1>2, <2>2 DEF EnsureFolder, TypeOK, ResourceInv, FolderInv, CoverInv, UndoInv, ListInv,
         FailedInv, Filled
  <1>3. CASE Resolve(r)
    BY <1>3 DEF Resolve, TypeOK, ResourceInv, FolderInv, CoverInv, UndoInv, ListInv, FailedInv,
       Filled
  <1>4. CASE SetAside(r)
    <2>1. CASE folder[r] = None
      <3>1. /\ Contents(folder[r]) = {} /\ Contents(folder'[r]) = {} /\ UNCHANGED aside
            /\ pc[r] = "aside" /\ pc'[r] = "install" /\ at'[r] = at[r]
        BY <1>4, <2>1, FolderContents DEF SetAside, TypeOK
      <3>2. Installed(r)' = {}
        BY <3>1 DEF ResourceInv, FolderInv, Installed
      <3>3. QED
        BY <1>4, <3>1, <3>2 DEF SetAside, ResourceInv, FolderInv, CoverInv, UndoInv, ListInv,
           FailedInv, Filled
    <2>2. CASE folder[r] # None
      <3>1. /\ folder'[r] = None /\ aside'[r] = folder[r] /\ Contents(folder'[r]) = {}
            /\ pc[r] = "aside" /\ pc'[r] = "dotfiles" /\ at'[r] = at[r]
        BY <1>4, <2>2, FolderContents DEF SetAside, TypeOK
      <3>2. QED
        BY <1>4, <2>2, <3>1 DEF SetAside, ResourceInv, FolderInv, CoverInv, UndoInv, ListInv,
           FailedInv, Filled
    <2>3. QED
      BY <2>1, <2>2
  <1>5. CASE MoveDotfiles(r)
    <2>1. pc[r] = "dotfiles" /\ pc'[r] = "install" /\ at'[r] = 1
      BY <1>5 DEF MoveDotfiles, TypeOK, ResourceInv, FolderInv
    <2>2. Contents(folder[r]) \subseteq {Cover} /\ aside[r] # None /\ Contents(aside[r]) = aside[r]
      BY <2>1 DEF ResourceInv, FolderInv, Contents
    <2>3. CASE folder' = [folder EXCEPT ![r] = Contents(folder[r]) \cup (aside[r] \cap {Cover})]
               /\ covered' = covered
      <3>1. Contents(folder'[r]) = Contents(folder[r]) \cup (aside[r] \cap {Cover})
        BY <2>2, <2>3, FolderContents DEF TypeOK
      <3>2. Installed(r)' = {}
        BY <2>1 DEF Installed
      <3>3. CoverInv(r)'
        BY <1>5, <2>1, <2>2, <2>3, <3>1 DEF MoveDotfiles, ResourceInv, CoverInv, Filled
      <3>4. QED
        BY <2>1, <2>2, <3>1, <3>2, <3>3
        DEF ResourceInv, FolderInv, UndoInv, ListInv, FailedInv, Filled
    <2>4. CASE folder' = [folder EXCEPT ![r] = Contents(folder[r])] /\ covered' = covered \ {r}
      <3>1. Contents(folder'[r]) = Contents(folder[r])
        BY <2>2, <2>4, FolderContents DEF TypeOK
      <3>2. Installed(r)' = {}
        BY <2>1 DEF Installed
      <3>3. CoverInv(r)'
        BY <2>4 DEF CoverInv
      <3>4. QED
        BY <2>1, <2>2, <3>1, <3>2, <3>3
        DEF ResourceInv, FolderInv, UndoInv, ListInv, FailedInv, Filled
    <2>5. QED
      BY <1>5, <2>3, <2>4 DEF MoveDotfiles
  <1>6. QED
    BY <1>1, <1>2, <1>3, <1>4, <1>5

(* The installation: file by file, and it ends with all of them.           *)
LEMMA InstallKeeps ==
    ASSUME TypeOK, NEW r \in Resources, ResourceInv(r), Install(r)
    PROVE  ResourceInv(r)'
  <1> USE DEF Goto, Holds, lists, covers, deletion
  <1>1. pc[r] = "install" /\ at[r] \in Nat \ {0}
    BY DEF Install, TypeOK
  <1>2. Contents(folder[r]) \subseteq Wanted(r) \cup {Cover}
        /\ (r \notin trashed => Installed(r) \subseteq Contents(folder[r]))
    BY <1>1 DEF ResourceInv, FolderInv
  <1>3. CASE at[r] > Len(Wants[r])
    <2>1. UNCHANGED folder /\ pc'[r] = (IF folder[r] = None THEN "rollback" ELSE "sweep")
      BY <1>1, <1>3, WantsFiles DEF Install, TypeOK
    <2>2. Installed(r) = Wanted(r)
      BY SMTT(30), <1>1, <1>3, WantsFiles DEF Installed
    <2>3. FolderInv(r)' /\ CoverInv(r)'
      BY <1>1, <1>2, <2>1, <2>2 DEF Install, ResourceInv, FolderInv, CoverInv, Filled, Contents
    <2>4. QED
      BY <1>1, <2>1, <2>3 DEF ResourceInv, UndoInv, ListInv, FailedInv
  <1>4. CASE at[r] <= Len(Wants[r]) /\ Wants[r][at[r]] \in pool
    <2> DEFINE file == Wants[r][at[r]]
    <2>1. /\ folder'[r] = Contents(folder[r]) \cup {file} /\ at'[r] = at[r] + 1
          /\ pc'[r] = "install"
      BY <1>1, <1>4, WantsFiles DEF Install, TypeOK
    <2>2. file \in Wanted(r) /\ file \in Files /\ Contents(folder[r]) \subseteq Files \cup {Cover}
      BY <1>1, <1>4, WantsFiles, FolderContents DEF TypeOK
    <2>3. Contents(folder'[r]) = Contents(folder[r]) \cup {file}
      BY <2>1, <2>2, FolderContents
    <2>4. Installed(r)' = Installed(r) \cup {file}
      BY <1>1, <1>4, <2>1, WantsFiles DEF Installed
    <2>5. FolderInv(r)' /\ CoverInv(r)'
      BY <1>1, <1>2, <2>1, <2>2, <2>3, <2>4
      DEF Install, ResourceInv, FolderInv, CoverInv, Filled
    <2>6. QED
      BY <2>1, <2>5 DEF ResourceInv, UndoInv, ListInv, FailedInv
  <1>5. CASE at[r] <= Len(Wants[r]) /\ Wants[r][at[r]] \notin pool
    <2>1. pc'[r] = "rollback"
      BY <1>1, <1>5, WantsFiles DEF Install, TypeOK
    <2>2. QED
      BY <2>1 DEF ResourceInv, FolderInv, CoverInv, UndoInv, ListInv, FailedInv, Filled
  <1>6. QED
    BY <1>1, <1>3, <1>4, <1>5, WantsFiles

(* Behind the installation, and the way back of a creation that failed.    *)
LEMMA AfterInstall ==
    ASSUME TypeOK, NEW r \in Resources, ResourceInv(r),
           \/ Sweep(r) \/ ClearDerivatives(r) \/ AssignPlugin(r)
           \/ RollBack(r) \/ RemoveRow(r) \/ RemoveFolder(r) \/ CreateFails(r)
    PROVE  ResourceInv(r)'
  <1> USE DEF Goto, Holds, Aside, tree, lists, covers, deletion, budget
  <1>1. CASE Sweep(r)
    <2>1. /\ pc[r] = "sweep" /\ pc'[r] = "clear" /\ UNCHANGED <<row, folder, at, lists, covers, deletion>>
          /\ aside'[r] = None \/ r \in stuck'
      BY <1>1 DEF Sweep, TypeOK
    <2>2. QED
      BY <2>1 DEF ResourceInv, FolderInv, CoverInv, UndoInv, ListInv, FailedInv, Filled
  <1>2. CASE ClearDerivatives(r)
    <2>1. /\ pc[r] = "clear" /\ pc'[r] = "assign"
          /\ (list'[r] = None /\ listing'[r] \in {None, Unread}) \/ r \in missed'
      BY <1>2 DEF ClearDerivatives, TypeOK
    <2>2. FolderInv(r)' /\ CoverInv(r)' /\ UndoInv(r)'
      BY <1>2, <2>1 DEF ClearDerivatives, ResourceInv, FolderInv, CoverInv, UndoInv, Filled
    <2>3. QED
      BY <2>1, <2>2 DEF ResourceInv, ListInv, FailedInv
  <1>3. CASE AssignPlugin(r)
    BY <1>3 DEF AssignPlugin, TypeOK, ResourceInv, FolderInv, CoverInv, UndoInv, ListInv, FailedInv,
       Filled
  <1>4. CASE RollBack(r)
    <2>1. pc'[r] = "undo" /\ (aside'[r] = None \/ r \in stuck')
      BY <1>4 DEF RollBack, TypeOK
    <2>2. QED
      BY <2>1 DEF ResourceInv, FolderInv, CoverInv, UndoInv, ListInv, FailedInv, Filled
  <1>5. CASE RemoveRow(r)
    <2>1. pc[r] = "undo" /\ pc'[r] = "remove" /\ row'[r] = "none"
      BY <1>5 DEF RemoveRow, TypeOK
    <2>2. QED
      BY <1>5, <2>1
      DEF RemoveRow, ResourceInv, FolderInv, CoverInv, UndoInv, ListInv, FailedInv, Filled
  <1>6. CASE RemoveFolder(r)
    <2>1. pc[r] = "remove" /\ pc'[r] = "failed" /\ Contents(folder'[r]) = {}
      BY <1>6 DEF RemoveFolder, TypeOK, Contents
    <2>2. QED
      BY <1>6, <2>1
      DEF RemoveFolder, ResourceInv, FolderInv, CoverInv, UndoInv, ListInv, FailedInv, Filled
  <1>7. CASE CreateFails(r)
    <2>1. \/ pc'[r] = "rollback"
          \/ pc'[r] = "failed" /\ r \in stuck'
          \/ pc'[r] = "undo" /\ r \in stuck'
          \/ /\ pc'[r] = "undo" /\ pc[r] \in {"resolve", "aside", "assign"}
             /\ UNCHANGED <<aside, stuck>>
      BY <1>7 DEF CreateFails, TypeOK
    <2>2. QED
      BY <2>1 DEF ResourceInv, FolderInv, CoverInv, UndoInv, ListInv, FailedInv, Filled
  <1>8. QED
    BY <1>1, <1>2, <1>3, <1>4, <1>5, <1>6, <1>7

(* Covers, the trash and listings, beside a creation.                      *)
LEMMA BesideKeeps ==
    ASSUME TypeOK, NEW r \in Resources, ResourceInv(r),
           \/ SetCover(r) \/ WriteCover(r) \/ SoftDelete(r) \/ Restore(r) \/ HardDelete(r)
           \/ Delete(r) \/ ListResourceFiles(r) \/ ReadFiles(r) \/ WriteFilesCache(r)
    PROVE  ResourceInv(r)'
  <1> USE DEF Holds, tree, creation, lists, covers, deletion, budget
  <1>1. CASE SetCover(r) \/ HardDelete(r)
    <2>1. Alone(r)
      BY <1>1 DEF SetCover, HardDelete, Alone
    <2>2. QED
      BY <2>1, AloneKeeps
  <1>2. CASE WriteCover(r)
    <2>1. Contents(folder[r]) \subseteq Files \cup {Cover}
      BY FolderContents DEF TypeOK
    <2>2. \/ Contents(folder'[r]) = Contents(folder[r]) \cup {Cover} /\ covered' = covered \cup {r}
          \/ Contents(folder'[r]) = Contents(folder[r]) \ {Cover} /\ covered' = covered \ {r}
          \/ UNCHANGED <<folder, covered>>
      <3>1. /\ Contents(folder[r]) \cup {Cover} \in SUBSET (Files \cup {Cover})
            /\ Contents(folder[r]) \ {Cover} \in SUBSET (Files \cup {Cover})
        BY <2>1
      <3>2. QED
        BY <1>2, <3>1, FolderContents DEF WriteCover, TypeOK
    <2>3. UNCHANGED <<pc, at, row, aside, list, listing, missed, trashed, stuck>>
      BY <1>2 DEF WriteCover
    <2>4. Cover \notin Wanted(r) /\ Installed(r) \subseteq Wanted(r) /\ Installed(r)' = Installed(r)
      BY <2>3, WantsFiles DEF Installed
    <2>5. FolderInv(r)'
      BY <2>2, <2>3, <2>4 DEF ResourceInv, FolderInv, Contents
    <2>6. CoverInv(r)'
      BY <2>2, <2>3 DEF ResourceInv, CoverInv, Contents
    <2>7. UndoInv(r)' /\ ListInv(r)' /\ FailedInv(r)'
      BY <2>2, <2>3 DEF ResourceInv, UndoInv, ListInv, FailedInv, Contents
    <2>8. QED
      BY <2>5, <2>6, <2>7 DEF ResourceInv
  <1>3. CASE SoftDelete(r) \/ Restore(r)
    <2>1. UNCHANGED <<pc, at, tree, lists, covered, trashed, stuck>> /\ row[r] # "none"
      BY <1>3 DEF SoftDelete, Restore
    <2>2. FolderInv(r)' /\ CoverInv(r)' /\ ListInv(r)'
      BY <2>1 DEF ResourceInv, FolderInv, CoverInv, ListInv, Installed, Contents
    <2>3. QED
      BY <2>1, <2>2 DEF ResourceInv, UndoInv, FailedInv
  <1>4. CASE MoveFolderToTrash(r)
    <2>1. \/ Contents(folder'[r]) = {} /\ r \in trashed'
          \/ UNCHANGED <<folder, trashed>>
      BY <1>4, FolderContents DEF MoveFolderToTrash, TypeOK
    <2>2. UNCHANGED <<pc, at, row, aside, list, listing, missed, covered, stuck>>
      BY <1>4 DEF MoveFolderToTrash
    <2>3. Installed(r)' = Installed(r)
      BY <2>2 DEF Installed
    <2>4. FolderInv(r)' /\ CoverInv(r)'
      BY <2>1, <2>2, <2>3 DEF ResourceInv, FolderInv, CoverInv, Contents
    <2>5. ListInv(r)'
      BY <1>4, <2>2 DEF ResourceInv, ListInv, MoveFolderToTrash
    <2>6. QED
      BY <2>1, <2>2, <2>4, <2>5 DEF ResourceInv, UndoInv, FailedInv, Contents
  <1>5. CASE DropRow(r)
    <2>1. UNCHANGED <<pc, at, tree, listing, missed, covered, trashed, stuck>>
          /\ row'[r] = "none" /\ list'[r] \in {None, list[r]}
      BY <1>5 DEF DropRow, TypeOK
    <2>2. FolderInv(r)' /\ CoverInv(r)'
      BY <2>1 DEF ResourceInv, FolderInv, CoverInv, Installed, Contents
    <2>3. QED
      BY <2>1, <2>2 DEF ResourceInv, UndoInv, FailedInv, ListInv
  <1>6. CASE ListResourceFiles(r) \/ ReadFiles(r) \/ WriteFilesCache(r)
    <2>1. UNCHANGED <<pc, at, row, tree, missed, covered, trashed, stuck>>
      BY <1>6 DEF ListResourceFiles, ReadFiles, WriteFilesCache
    <2>2. FolderInv(r)' /\ CoverInv(r)' /\ UndoInv(r)' /\ FailedInv(r)'
      BY <2>1 DEF ResourceInv, FolderInv, CoverInv, UndoInv, FailedInv, Installed, Contents
    <2>3. pc[r] \in Filled /\ r \notin trashed => Contents(folder[r]) \ {Cover} = Wanted(r)
      BY WantsFiles DEF ResourceInv, FolderInv
    <2>4. ListInv(r)'
      <3>1. CASE ListResourceFiles(r)
        BY <2>1, <3>1 DEF ListResourceFiles, TypeOK, ResourceInv, ListInv
      <3>2. CASE ReadFiles(r)
        BY <2>1, <2>3, <3>2 DEF ReadFiles, TypeOK, ResourceInv, ListInv, Filled
      <3>3. CASE WriteFilesCache(r)
        BY <2>1, <3>3 DEF WriteFilesCache, TypeOK, ResourceInv, ListInv
      <3>4. QED
        BY <1>6, <3>1, <3>2, <3>3
    <2>5. QED
      BY <2>2, <2>4 DEF ResourceInv
  <1>7. QED
    BY <1>1, <1>2, <1>3, <1>4, <1>5, <1>6 DEF Delete

LEMMA CrashKeeps ==
    ASSUME TypeOK, NEW r \in Resources, ResourceInv(r), Crash
    PROVE  ResourceInv(r)'
  <1>1. /\ UNCHANGED <<row, folder, aside, at, missed, covered, trashed, stuck>>
        /\ pc'[r] \in {pc[r], "crashed"} /\ list'[r] \in {None, list[r]} /\ listing'[r] = None
    BY DEF Crash, TypeOK, tree
  <1>2. FolderInv(r)' /\ CoverInv(r)'
    BY <1>1 DEF ResourceInv, FolderInv, CoverInv, Installed, Contents, Filled
  <1>3. UndoInv(r)' /\ FailedInv(r)' /\ ListInv(r)'
    BY <1>1 DEF ResourceInv, UndoInv, FailedInv, ListInv, Contents
  <1>4. QED
    BY <1>2, <1>3 DEF ResourceInv

-----------------------------------------------------------------------------
LEMMA ResourcesStep ==
    ASSUME TypeOK, ResourcesInv, [Next]_vars
    PROVE  ResourcesInv'
  <1> SUFFICES ASSUME NEW r \in Resources
               PROVE  ResourceInv(r)'
    BY DEF ResourcesInv
  <1>1. ResourceInv(r)
    BY DEF ResourcesInv
  <1>2. ASSUME NEW q \in Resources,
               \/ Insert(q) \/ Create(q) \/ CreateFails(q) \/ SetCover(q) \/ WriteCover(q)
               \/ SoftDelete(q) \/ Restore(q) \/ HardDelete(q) \/ Delete(q)
               \/ ListResourceFiles(q) \/ ReadFiles(q) \/ WriteFilesCache(q)
        PROVE  ResourceInv(r)'
    <2>1. CASE r # q
      BY <1>1, <1>2, <2>1, OthersAlone, AloneKeeps
    <2>2. CASE r = q
      <3>1. CASE Insert(r) \/ Create(r) \/ CreateFails(r)
        BY <1>1, <3>1, BeforeInstall, InstallKeeps, AfterInstall DEF Create
      <3>2. CASE ~(Insert(r) \/ Create(r) \/ CreateFails(r))
        BY <1>1, <1>2, <2>2, <3>2, BesideKeeps
      <3>3. QED
        BY <3>1, <3>2
    <2>3. QED
      BY <2>1, <2>2
  <1>3. ASSUME (\E f \in Files : DiscardStagedFile(f)) \/ UNCHANGED vars
        PROVE  ResourceInv(r)'
    <2>1. Alone(r)
      BY <1>3 DEF DiscardStagedFile, Alone, vars, tree, creation, lists, covers, deletion
    <2>2. QED
      BY <1>1, <2>1, AloneKeeps
  <1>4. QED
    BY <1>1, <1>2, <1>3, CrashKeeps, ResourceAssumption DEF Next

(* The invariant of each resource holds in every reachable state.          *)
THEOREM Inductive == Spec => []IInv
  <1>1. IInv /\ [Next]_vars => IInv'
    BY TypeStep, ResourcesStep DEF IInv
  <1>2. QED
    BY <1>1, InitInv, PTL DEF Spec

(* The variables of the resources keep their types, for any upload.        *)
THEOREM TypeCorrect == Spec => []TypeOK
  <1>1. IInv => TypeOK
    BY DEF IInv
  <1>2. QED
    BY <1>1, Inductive, PTL

(* create returns with every staged file it was asked for in the folder,   *)
(* and the cover set meanwhile, beside any other creation of them.         *)
THEOREM CreationsAreWhole == Spec => []CreatedIsWhole
  <1>1. IInv => CreatedIsWhole
    BY DEF IInv, ResourcesInv, ResourceInv, FolderInv, CoverInv, CreatedIsWhole, Wanted, Filled
  <1>2. QED
    BY <1>1, Inductive, PTL

(* The catch block of create leaves neither row nor files, unless an error *)
(* met it as well.                                                         *)
THEOREM FailuresLeaveNothing == Spec => []FailedLeavesNothing
  <1>1. IInv => FailedLeavesNothing
    BY DEF IInv, ResourcesInv, ResourceInv, FailedInv, FailedLeavesNothing
  <1>2. QED
    BY <1>1, Inductive, PTL

(* files-cache.json of a created resource lists all of its files, unless a *)
(* listing that had read ran on while the cache was cleared, or the cache  *)
(* could not be removed then.                                              *)
THEOREM ListsOfCreatedAreWhole == Spec => []ListIsWhole
  <1>1. IInv => ListIsWhole
    BY DEF IInv, ResourcesInv, ResourceInv, ListInv, ListIsWhole, Wanted
  <1>2. QED
    BY <1>1, Inductive, PTL

-----------------------------------------------------------------------------
(* The metadata a resource derives from its plugin (MetaRebuild), beside   *)
(* its files.                                                              *)

(* Tasks wait once, and none waits while fewer than all slots are held; a  *)
(* task has a context only while it runs.                                  *)
Distinct(s) == \A i, j \in DOMAIN s : s[i] = s[j] => i = j
Held == {k \in Keys : queue[k] \in {"started", "running", "granted"}}
QueueType == [Keys -> {"idle", "waiting", "granted", "started", "running", "ended"}]
Waiting == /\ waiters \in Seq(Keys) /\ Distinct(waiters)
           /\ \A i \in DOMAIN waiters : queue[waiters[i]] = "waiting"
SlotsHeld == waiters # <<>> => Cardinality(Held) >= Slots
QueueInv ==
    /\ queue \in QueueType /\ Waiting /\ SlotsHeld
    /\ pending \subseteq Keys /\ \A k \in pending : queue[k] # "idle"
    /\ rebuildFailures \subseteq Keys /\ owed \subseteq Keys

(* What a row and a rebuild hold.                                          *)
RowInv ==
    /\ plugin \in [Res -> Plugins]
    /\ meta \in [Res -> Optional(Plugins)]
    /\ marker \in [Res -> Optional(Plugins)]
    /\ rows \in [Res -> Optional(Plugins)]
    /\ rebuild \in [Rebuilds -> Optional(Contexts)]
    /\ hashesInFlight \subseteq Res /\ clearing \subseteq Res
    /\ overtaken \subseteq Rebuilds
    /\ \A k \in Keys : rebuild[k] # Absent => queue[k] = "running"

(* One rebuild hashes a resource at a time.                                *)
Hashers == {b \in Open : "hashes" \in rebuild[b].todo}
HashInv ==
    /\ hashesInFlight = {b[1] : b \in Hashers}
    /\ \A a, b \in Hashers : a[1] = b[1] => a = b

(* A task has one unit; hashes are of plugins that provide them, and a page*)
(* hashes what had no hashes.                                              *)
ContextInv ==
    \A b \in Open :
        /\ b \in Keys => rebuild[b].todo \cup rebuild[b].patch \subseteq {b[2]}
        /\ "hashes" \in rebuild[b].todo => rebuild[b].plugin \in Hashing
        /\ b \in Views =>
              /\ "hashes" \in rebuild[b].todo => rebuild[b].marker = Absent
              /\ "hashes" \in rebuild[b].patch => rebuild[b].plugin \in Hashing

(* A rebuild of another plugin is overtaken, or its key has a task to follow,*)
(* which writes what it has written.                                       *)
Followed(b) == b \in pending /\ (b[2] = "meta" => plugin[b[1]] \in Describing)
OldInv == \A b \in Open : rebuild[b].plugin # plugin[b[1]] => b \in overtaken \/ Followed(b)

(* The rebuilds of a resource: two tasks and its pages.                    *)
Of(r, unit) == <<r, unit>>
PagesOf(r) == {v \in Views : v[1] = r}
RebuildsAt(r) == {Of(r, "meta"), Of(r, "hashes")} \cup PagesOf(r)
PagesOwn(r) == PagesOf(r) \cap overtaken = {}
Coming(k) == k \in pending \/ queue[k] \in {"waiting", "granted", "started"}

(* Metadata of another plugin will be written over, by a task to come or by*)
(* the one that runs, and the plugin of the resource has some.             *)
MetaSound(r) == meta[r] \in {Absent, plugin[r]}
MetaMends(k) ==
    /\ k \in Open /\ rebuild[k].plugin = plugin[k[1]]
    /\ \/ "meta" \in rebuild[k].patch
       \/ "meta" \in rebuild[k].todo /\ rebuild[k].meta # plugin[k[1]]
MetaOf(r) ==
    Of(r, "meta") \notin overtaken /\ PagesOwn(r) =>
        \/ MetaSound(r)
        \/ plugin[r] \in Describing /\ (Coming(Of(r, "meta")) \/ MetaMends(Of(r, "meta")))

(* A rebuild that has hashed and will say so has left its own rows, unless *)
(* a task follows it; a page and the task it runs beside are of one plugin.*)
Passed(b, r) ==
    b \in Open \ (pending \cup overtaken) /\ "hashes" \in rebuild[b].patch /\ plugin[r] \in Hashing =>
        rows[r] = plugin[r]
PassedOf(r) ==
    PagesOwn(r) =>
        /\ \A b \in {Of(r, "hashes")} \cup PagesOf(r) : Passed(b, r)
        /\ Of(r, "hashes") \in Hashers =>
              \A v \in PagesOf(r) \cap Open :
                  "hashes" \in rebuild[v].todo \cup rebuild[v].patch
                      => rebuild[Of(r, "hashes")].plugin = plugin[r]

(* The same for hashes, which a page may produce instead of the task.      *)
HashesSound(r) == marker[r] = Absent \/ (marker[r] = plugin[r] /\ rows[r] = plugin[r])
HashesMends(b, r) ==
    /\ b \in Open /\ rebuild[b].plugin = plugin[r]
    /\ \/ "hashes" \in rebuild[b].patch
       \/ "hashes" \in rebuild[b].todo
          /\ (rebuild[b].marker # plugin[r] \/ marker[r] \in {Absent, plugin[r]})
HashedOf(r) ==
    Of(r, "hashes") \notin overtaken /\ PagesOwn(r) =>
        \/ HashesSound(r) \/ Coming(Of(r, "hashes"))
        \/ \E b \in {Of(r, "hashes")} \cup PagesOf(r) : HashesMends(b, r)

SourcesOf(r) == MetaOf(r) /\ PassedOf(r) /\ HashedOf(r)
SourcesInv == \A r \in Res : SourcesOf(r)

MetaInv == QueueInv /\ RowInv /\ HashInv /\ ContextInv /\ OldInv /\ SourcesInv

LEMMA KeysAreFinite ==
    IsFiniteSet(Keys)
<1>1. IsFiniteSet(Units)
  <2>1. IsFiniteSet({"meta"}) /\ IsFiniteSet({"hashes"})
    BY FS_Singleton
  <2>2. IsFiniteSet({"meta"} \cup {"hashes"})
    BY <2>1, FS_Union
  <2>3. Units = {"meta"} \cup {"hashes"}
    BY DEF Units
  <2> QED
    BY <2>2, <2>3
<1> QED
  BY <1>1, FS_Product, MetaAssumption DEF Keys

(* A rebuild is of one resource: one of its two tasks, or its page.        *)
LEMMA RebuildsOf ==
    /\ \A b \in Rebuilds :
          /\ b[1] \in Res /\ b \in RebuildsAt(b[1])
          /\ b \in Keys => b[2] \in {"meta", "hashes"}
          /\ b \in Views <=> b \notin Keys
    /\ \A r \in Res :
          /\ \A u \in {"meta", "hashes"} :
                Of(r, u) \in Keys /\ Of(r, u) \in Rebuilds /\ Of(r, u)[1] = r /\ Of(r, u)[2] = u
          /\ \A v \in PagesOf(r) : v \in Views \cap Rebuilds /\ v \notin Keys /\ v[1] = r
          /\ \A b \in RebuildsAt(r) : b \in Rebuilds /\ b[1] = r
<1>1. Keys \cap Views = {}
  BY MetaAssumption DEF Keys, Views
<1>2. \A r \in Res, u \in {"meta", "hashes"} :
          Of(r, u) \in Keys /\ Of(r, u) \in Rebuilds /\ Of(r, u)[1] = r /\ Of(r, u)[2] = u
  BY DEF Of, Keys, Rebuilds, Units
<1>3. \A r \in Res : \A v \in PagesOf(r) : v \in Views \cap Rebuilds /\ v \notin Keys /\ v[1] = r
  BY <1>1 DEF PagesOf, Rebuilds
<1>4. \A b \in Keys : b[1] \in Res /\ b[2] \in {"meta", "hashes"} /\ b = Of(b[1], b[2])
  BY DEF Keys, Units, Of
<1>5. \A b \in Views : b[1] \in Res /\ b \in PagesOf(b[1])
  BY DEF Views, PagesOf
<1> QED
  BY <1>1, <1>2, <1>3, <1>4, <1>5 DEF Rebuilds, RebuildsAt

(* Tasks are scheduled: those that get no slot wait at the end.            *)
Scheduled(keys, free, waits) ==
    /\ waits = SubSeq(keys, free + 1, Len(keys))
    /\ queue' = [k \in Keys |->
           IF \E i \in DOMAIN waits : waits[i] = k THEN "waiting"
           ELSE IF \E i \in DOMAIN keys : keys[i] = k THEN "started" ELSE queue[k]]
    /\ waiters' = waiters \o waits

LEMMA SchedulesWaiters ==
    ASSUME queue \in QueueType, Waiting,
           NEW keys \in Seq(Keys), Distinct(keys), NEW free \in Nat, NEW waits,
           \A i \in DOMAIN keys : queue[keys[i]] \in {"idle", "ended"},
           Scheduled(keys, free, waits)
    PROVE  /\ queue' \in QueueType /\ Waiting'
           /\ \A i \in DOMAIN keys : queue'[keys[i]] = IF i <= free THEN "started" ELSE "waiting"
           /\ \A k \in Keys :
                  queue'[k] = queue[k] \/ \E i \in DOMAIN keys : keys[i] = k
           /\ waits # <<>> => Len(keys) > free
<1> USE DEF Scheduled
<1>0. \A i \in DOMAIN keys : keys[i] \in Keys /\ i \in Nat /\ i \in 1..Len(keys)
  OBVIOUS
<1>1. /\ waits \in Seq(Keys) /\ DOMAIN waits = 1..Len(waits)
      /\ Len(waits) = IF free + 1 <= Len(keys) THEN Len(keys) - free ELSE 0
      /\ \A i \in 1..Len(waits) : free + i \in DOMAIN keys /\ waits[i] = keys[free + i]
  <2>1. \A i \in free + 1..Len(keys) : keys[i] \in Keys
    OBVIOUS
  <2>2. /\ waits \in Seq(Keys)
        /\ Len(waits) = IF free + 1 <= Len(keys) THEN Len(keys) - (free + 1) + 1 ELSE 0
        /\ \A i \in 1..Len(keys) - (free + 1) + 1 : waits[i] = keys[free + 1 + i - 1]
    BY <2>1, SubSeqProperties, free + 1 \in Int, Len(keys) \in Int
  <2> QED
    BY <2>2
<1>2. \A i \in DOMAIN waits : i \in 1..Len(waits)
  BY <1>1
<1>3. \A i \in DOMAIN keys : (\E j \in DOMAIN waits : waits[j] = keys[i]) <=> i > free
  <2> SUFFICES ASSUME NEW i \in DOMAIN keys
               PROVE  (\E j \in DOMAIN waits : waits[j] = keys[i]) <=> i > free
    OBVIOUS
  <2>1. CASE i > free
    <3>1. i - free \in DOMAIN waits /\ waits[i - free] = keys[i]
      <4>1. i - free \in 1..Len(keys) - free /\ free + (i - free) = i /\ Len(waits) = Len(keys) - free
        BY SMTT(30), <2>1, <1>0, <1>1
      <4> QED
        BY <4>1, <1>1
    <3> QED
      BY <3>1, <2>1
  <2>2. CASE ~(i > free)
    BY <2>2, <1>1, <1>2 DEF Distinct
  <2> QED
    BY <2>1, <2>2
<1>4. \A i \in DOMAIN keys : queue'[keys[i]] = IF i <= free THEN "started" ELSE "waiting"
  <2> SUFFICES ASSUME NEW i \in DOMAIN keys
               PROVE  queue'[keys[i]] = IF i <= free THEN "started" ELSE "waiting"
    OBVIOUS
  <2>1. (\E j \in DOMAIN keys : keys[j] = keys[i]) /\ (i > free <=> ~(i <= free))
    BY <1>0
  <2> QED
    BY <1>0, <1>3, <2>1
<1>5. \A k \in Keys : queue'[k] = queue[k] \/ \E i \in DOMAIN keys : keys[i] = k
  BY <1>1, <1>2
<1>6. queue' \in QueueType
  BY <1>1 DEF QueueType
<1>7. /\ waiters' \in Seq(Keys) /\ Len(waiters') = Len(waiters) + Len(waits)
      /\ \A i \in DOMAIN waiters' : waiters'[i] = IF i <= Len(waiters) THEN waiters[i] ELSE waits[i - Len(waiters)]
  BY SMTT(30), <1>1 DEF Waiting
<1>8. \A i \in DOMAIN waiters' :
          \/ i \in DOMAIN waiters /\ waiters'[i] = waiters[i]
          \/ i - Len(waiters) \in DOMAIN waits /\ waiters'[i] = waits[i - Len(waiters)]
  BY <1>1, <1>7 DEF Waiting
<1>9. \A i \in DOMAIN waiters : queue'[waiters[i]] = "waiting" /\ ~ \E j \in DOMAIN keys : keys[j] = waiters[i]
  <2>1. \A i \in DOMAIN waiters : queue[waiters[i]] = "waiting" /\ waiters[i] \in Keys
    BY DEF Waiting
  <2> QED
    BY <2>1, <1>5
<1>10. \A i \in DOMAIN waits : queue'[waits[i]] = "waiting" /\ \E j \in DOMAIN keys : keys[j] = waits[i]
  BY <1>1, <1>2
<1>11. \A i \in DOMAIN waiters' : queue'[waiters'[i]] = "waiting"
  <2> SUFFICES ASSUME NEW i \in DOMAIN waiters'
               PROVE  queue'[waiters'[i]] = "waiting"
    OBVIOUS
  <2>1. CASE i \in DOMAIN waiters /\ waiters'[i] = waiters[i]
    BY <2>1, <1>9
  <2>2. CASE i - Len(waiters) \in DOMAIN waits /\ waiters'[i] = waits[i - Len(waiters)]
    BY SMTT(30), <2>2, <1>10
  <2> QED
    BY <2>1, <2>2, <1>8
<1>12. \A i, j \in DOMAIN waits : waits[i] = waits[j] => i = j
  BY SMTT(30), <1>1, <1>2 DEF Distinct
<1>13. Distinct(waiters')
  <2> SUFFICES ASSUME NEW i \in DOMAIN waiters', NEW j \in DOMAIN waiters', waiters'[i] = waiters'[j]
               PROVE  i = j
    BY DEF Distinct
  <2> DEFINE Old(l) == l \in DOMAIN waiters /\ waiters'[l] = waiters[l]
             New(l) == l - Len(waiters) \in DOMAIN waits /\ waiters'[l] = waits[l - Len(waiters)]
  <2>1. (Old(i) \/ New(i)) /\ (Old(j) \/ New(j))
    BY <1>8
  <2>2. CASE Old(i) /\ Old(j)
    BY <2>2 DEF Waiting, Distinct
  <2>3. CASE New(i) /\ New(j)
    <3>1. i - Len(waiters) = j - Len(waiters)
      BY <2>3, <1>12
    <3>2. i \in Int /\ j \in Int /\ Len(waiters) \in Int
      BY <1>7 DEF Waiting
    <3> QED
      BY <3>1, <3>2
  <2>4. ~(Old(i) /\ New(j))
    <3> SUFFICES ASSUME Old(i), New(j) PROVE FALSE
      OBVIOUS
    <3>1. \E l \in DOMAIN keys : keys[l] = waiters'[j]
      BY SMTT(30), <1>10
    <3>2. i \in DOMAIN waiters /\ waiters'[i] = waiters[i]
      OBVIOUS
    <3> QED
      BY <3>1, <3>2, <1>9
  <2>5. ~(New(i) /\ Old(j))
    <3> SUFFICES ASSUME New(i), Old(j) PROVE FALSE
      OBVIOUS
    <3>1. \E l \in DOMAIN keys : keys[l] = waiters'[i]
      BY SMTT(30), <1>10
    <3>2. j \in DOMAIN waiters /\ waiters'[j] = waiters[j]
      OBVIOUS
    <3> QED
      BY <3>1, <3>2, <1>9
  <2> QED
    BY <2>1, <2>2, <2>3, <2>4, <2>5
<1>14. waits # <<>> => Len(keys) > free
  BY <1>1
<1> QED
  BY <1>4, <1>5, <1>6, <1>7, <1>11, <1>13, <1>14 DEF Waiting

(* Whoever still waits leaves no slot free.                                *)
LEMMA SchedulesSlots ==
    ASSUME queue \in QueueType, Waiting, SlotsHeld,
           NEW keys \in Seq(Keys), Distinct(keys), NEW free \in Nat,
           free = IF running < Slots THEN Slots - running ELSE 0,
           \A i \in DOMAIN keys : queue[keys[i]] \in {"idle", "ended"},
           queue' \in QueueType,
           \A i \in DOMAIN keys : queue'[keys[i]] = IF i <= free THEN "started" ELSE "waiting",
           \A k \in Keys : queue'[k] = queue[k] \/ \E i \in DOMAIN keys : keys[i] = k,
           waiters' # <<>> => waiters # <<>> \/ Len(keys) > free
    PROVE  SlotsHeld'
<1>0. IsFiniteSet(Held) /\ IsFiniteSet(Held') /\ Held \subseteq Held'
  <2>1. \A k \in Held : k \in Held'
    BY DEF Held
  <2> QED
    BY <2>1, KeysAreFinite, FS_Subset DEF Held
<1>1. CASE waiters # <<>>
  BY <1>0, <1>1, FS_Subset, FS_CardinalityType, MetaAssumption DEF SlotsHeld
<1>2. CASE waiters = <<>> /\ waiters' # <<>>
  <2> DEFINE Got == {keys[i] : i \in 1..free}
             Run == {k \in Keys : queue[k] \in {"started", "running"}}
  <2>0. Len(keys) > free /\ 1..free \subseteq DOMAIN keys
    BY <1>2
  <2>1. IsFiniteSet(Got) /\ Cardinality(Got) = free
    <3> DEFINE f == [i \in 1..free |-> keys[i]]
    <3>1. f \in Bijection(1..free, Got)
      <4>1. \A i, j \in 1..free : f[i] = f[j] => i = j
        BY <2>0 DEF Distinct
      <4>2. f \in [1..free -> Got] /\ \A g \in Got : \E i \in 1..free : f[i] = g
        OBVIOUS
      <4> QED
        BY <4>1, <4>2 DEF Bijection, Injection, Surjection, IsInjective
    <3>2. ExistsBijection(1..free, Got)
      BY <3>1 DEF ExistsBijection
    <3>3. IsFiniteSet(1..free) /\ Cardinality(1..free) = free
      <4>1. 1 \in Int /\ free \in Int
        OBVIOUS
      <4>2. IsFiniteSet(1..free) /\ Cardinality(1..free) = IF 1 > free THEN 0 ELSE free - 1 + 1
        BY <4>1, FS_Interval
      <4> QED
        BY <4>2
    <3> QED
      BY <3>2, <3>3, FS_Bijection
  <2>2. Got \cap Run = {} /\ Got \cup Run \subseteq Held'
    <3>1. \A k \in Run : k \in Held'
      BY DEF Held
    <3>2. \A k \in Got : k \in Held' /\ k \notin Run
      BY <2>0 DEF Held
    <3> QED
      BY <3>1, <3>2
  <2>3. IsFiniteSet(Run) /\ Cardinality(Run) = running
    BY KeysAreFinite, FS_Subset DEF running
  <2>4. Cardinality(Got \cup Run) = free + running /\ IsFiniteSet(Got \cup Run)
    <3>1. Cardinality(Got \cap Run) = 0
      BY <2>2, FS_EmptySet
    <3> HIDE DEF Got, Run
    <3> QED
      BY <2>1, <2>3, <3>1, FS_Union, FS_CardinalityType, free + running - 0 = free + running
  <2>5. Cardinality(Got \cup Run) <= Cardinality(Held')
    BY <1>0, <2>2, FS_Subset
  <2>6. running \in Nat /\ Cardinality(Held') \in Nat
    BY <2>3, <1>0, FS_CardinalityType
  <2> QED
    BY <2>4, <2>5, <2>6, <1>2, MetaAssumption DEF SlotsHeld
<1>3. CASE waiters' = <<>>
  BY <1>3 DEF SlotsHeld
<1> QED
  BY <1>1, <1>2, <1>3

LEMMA MetaTyped == MetaInv => MetaTypeOK
BY DEF MetaInv, QueueInv, RowInv, QueueType, Waiting, MetaTypeOK

LEMMA PairSequence == ASSUME NEW a, NEW b PROVE <<a>> \o <<b>> = <<a, b>>
<1>1. <<a>> \in Seq({a, b}) /\ <<b>> \in Seq({a, b}) /\ Len(<<a>>) = 1 /\ Len(<<b>>) = 1
  OBVIOUS
<1>2. /\ <<a>> \o <<b>> \in Seq({a, b}) /\ Len(<<a>> \o <<b>>) = 2
      /\ \A i \in 1..2 : (<<a>> \o <<b>>)[i] = IF i <= 1 THEN <<a>>[i] ELSE <<b>>[i - 1]
  BY <1>1, ConcatProperties
<1>3. <<a, b>> \in Seq({a, b}) /\ Len(<<a, b>>) = 2 /\ <<a, b>>[1] = a /\ <<a, b>>[2] = b
  OBVIOUS
<1>4. (<<a>> \o <<b>>)[1] = a /\ (<<a>> \o <<b>>)[2] = b
  BY <1>2
<1>5. \A i \in 1..2 : i = 1 \/ i = 2
  OBVIOUS
<1> QED
  BY <1>2, <1>3, <1>4, <1>5, SeqEqual

LEMMA InOrderKeys ==
    ASSUME NEW r \in Res, NEW units \in SUBSET Units
    PROVE  LET keys == InOrder(r, units)
           IN  /\ keys \in Seq(Keys) /\ Distinct(keys)
               /\ \A k \in Keys : (\E i \in DOMAIN keys : keys[i] = k) <=> k[1] = r /\ k[2] \in units
<1> DEFINE keys == InOrder(r, units)
           M == <<r, "meta">>
           H == <<r, "hashes">>
<1>1. M \in Keys /\ H \in Keys /\ M # H
  BY DEF Keys, Units
<1>2. \A k \in Keys : k[1] = r /\ k[2] \in units <=> (k = M /\ "meta" \in units) \/ (k = H /\ "hashes" \in units)
  BY DEF Keys, Units
<1>3. keys = IF "meta" \in units THEN IF "hashes" \in units THEN <<M, H>> ELSE <<M>>
             ELSE IF "hashes" \in units THEN <<H>> ELSE <<>>
  <2>1. <<M>> \o <<H>> = <<M, H>> /\ <<M>> \o <<>> = <<M>> /\ <<>> \o <<H>> = <<H>> /\ <<>> \o <<>> = <<>>
    <3>1. <<M>> \in Seq(Keys) /\ <<H>> \in Seq(Keys) /\ <<>> \in Seq(Keys)
      BY <1>1
    <3>2. <<M>> \o <<>> = <<M>> /\ <<>> \o <<H>> = <<H>> /\ <<>> \o <<>> = <<>>
      BY <3>1, ConcatEmptySeq
    <3>3. <<M>> \o <<H>> = <<M, H>>
      BY PairSequence
    <3> QED
      BY <3>2, <3>3
  <2> QED
    BY <2>1 DEF InOrder
<1> HIDE DEF keys, M, H
<1>4. CASE keys = <<M, H>> /\ "meta" \in units /\ "hashes" \in units
  <2>1. DOMAIN keys = {1, 2} /\ keys[1] = M /\ keys[2] = H /\ keys \in Seq(Keys)
    BY <1>4, <1>1
  <2> QED
    BY <2>1, <1>1, <1>2, <1>4 DEF Distinct, keys
<1>5. CASE keys = <<M>> /\ "meta" \in units /\ "hashes" \notin units
  <2>1. DOMAIN keys = {1} /\ keys[1] = M /\ keys \in Seq(Keys)
    BY <1>5, <1>1
  <2> QED
    BY <2>1, <1>1, <1>2, <1>5 DEF Distinct, keys
<1>6. CASE keys = <<H>> /\ "meta" \notin units /\ "hashes" \in units
  <2>1. DOMAIN keys = {1} /\ keys[1] = H /\ keys \in Seq(Keys)
    BY <1>6, <1>1
  <2> QED
    BY <2>1, <1>1, <1>2, <1>6 DEF Distinct, keys
<1>7. CASE keys = <<>> /\ "meta" \notin units /\ "hashes" \notin units
  <2>1. DOMAIN keys = {} /\ keys \in Seq(Keys)
    BY <1>7
  <2> QED
    BY <2>1, <1>2, <1>7 DEF Distinct, keys
<1> QED
  BY <1>3, <1>4, <1>5, <1>6, <1>7

(* The tasks of keys that were idle or have ended are scheduled.           *)
LEMMA Schedules ==
    ASSUME QueueInv, NEW keys \in Seq(Keys), Distinct(keys),
           \A i \in DOMAIN keys : queue[keys[i]] \in {"idle", "ended"}, Schedule(keys)
    PROVE  /\ queue' \in QueueType /\ Waiting' /\ SlotsHeld'
           /\ \A i \in DOMAIN keys : queue'[keys[i]] \in {"started", "waiting"}
           /\ \A k \in Keys :
                  queue'[k] = queue[k] \/ \E i \in DOMAIN keys : keys[i] = k
<1> DEFINE free == IF running < Slots THEN Slots - running ELSE 0
           waits == SubSeq(keys, free + 1, Len(keys))
<1>1. running \in Nat
  <2>1. IsFiniteSet({k \in Keys : queue[k] \in {"started", "running"}})
    BY KeysAreFinite, FS_Subset
  <2> QED
    BY <2>1, FS_CardinalityType DEF running
<1>2. free \in Nat
  BY <1>1, MetaAssumption
<1>3. Scheduled(keys, free, waits)
  BY DEF Schedule, Scheduled
<1>4. free = IF running < Slots THEN Slots - running ELSE 0
  OBVIOUS
<1> HIDE DEF free, waits
<1>6. /\ queue' \in QueueType /\ Waiting'
      /\ \A i \in DOMAIN keys : queue'[keys[i]] = IF i <= free THEN "started" ELSE "waiting"
      /\ \A k \in Keys :
             queue'[k] = queue[k] \/ \E i \in DOMAIN keys : keys[i] = k
      /\ waits # <<>> => Len(keys) > free
  <2>1. queue \in QueueType /\ Waiting
    BY DEF QueueInv
  <2> QED
    BY <2>1, <1>2, <1>3, SchedulesWaiters
<1>7. waiters' # <<>> => waiters # <<>> \/ Len(keys) > free
  <2>1. waiters' = waiters \o waits
    BY <1>3 DEF Scheduled
  <2>2. waiters = <<>> /\ waits = <<>> => waiters \o waits = <<>>
    BY ConcatEmptySeq, <<>> \in Seq(Keys)
  <2> QED
    BY <2>1, <2>2, <1>6
<1>8. SlotsHeld'
  BY <1>2, <1>4, <1>6, <1>7, SchedulesSlots DEF QueueInv
<1> QED
  BY <1>6, <1>8

(* Whatever is enqueued comes.                                             *)
LEMMA Enqueues ==
    ASSUME QueueInv, NEW r \in Res, NEW units \in SUBSET Units,
           Enqueue(r, units)
    PROVE  /\ QueueInv' /\ rebuildFailures' = rebuildFailures
           /\ pending \subseteq pending'
           /\ \A k \in Keys : queue'[k] = queue[k] \/ (queue[k] = "idle" /\ queue'[k] \in {"started", "waiting"})
           /\ \A k \in Asked(r, units) :
                  k \in Keys /\ Coming(k)' /\ (queue[k] # "idle" => k \in pending')
<1> DEFINE fresh == Fresh(r, units)
           keys == InOrder(r, fresh)
<1>1. fresh \in SUBSET Units /\ \A u \in fresh : queue[<<r, u>>] = "idle"
  BY DEF Fresh
<1>2. /\ keys \in Seq(Keys) /\ Distinct(keys)
      /\ \A k \in Keys : (\E i \in DOMAIN keys : keys[i] = k) <=> k[1] = r /\ k[2] \in fresh
  BY <1>1, InOrderKeys
<1>3. \A k \in Keys : k = <<k[1], k[2]>>
  BY DEF Keys
<1>4. \A k \in Keys : (\E i \in DOMAIN keys : keys[i] = k) => queue[k] = "idle"
  BY <1>1, <1>2, <1>3
<1>5. \A i \in DOMAIN keys : keys[i] \in Keys
  BY <1>2
<1>6. Schedule(keys) /\ owed' = owed \cup Asked(r, units) /\ rebuildFailures' = rebuildFailures
      /\ pending' = pending \cup {k \in Asked(r, units) : queue[k] # "idle"}
  BY DEF Enqueue
<1>7. \A k \in Asked(r, units) : k \in Keys /\ k[1] = r /\ k[2] \in units
                                      /\ (queue[k] = "idle" => k[2] \in fresh)
  <2> SUFFICES ASSUME NEW k \in Asked(r, units)
               PROVE  k \in Keys /\ k[1] = r /\ k[2] \in units /\ (queue[k] = "idle" => k[2] \in fresh)
    OBVIOUS
  <2>1. k \in {r} \X units
    BY DEF Asked
  <2>2. k = <<r, k[2]>> /\ k[1] = r /\ k[2] \in units
    BY <2>1
  <2> QED
    BY <2>1, <2>2 DEF Keys, Fresh
<1> HIDE DEF fresh, keys
<1>8. /\ queue' \in QueueType /\ Waiting' /\ SlotsHeld'
      /\ \A i \in DOMAIN keys : queue'[keys[i]] \in {"started", "waiting"}
      /\ \A k \in Keys :
             queue'[k] = queue[k] \/ \E i \in DOMAIN keys : keys[i] = k
  BY <1>2, <1>4, <1>5, <1>6, Schedules
<1>9. \A k \in Keys : queue'[k] = queue[k] \/ (queue[k] = "idle" /\ queue'[k] \in {"started", "waiting"})
  BY <1>4, <1>8
<1>10. \A k \in Asked(r, units) : queue[k] = "idle" => queue'[k] \in {"started", "waiting"}
  BY <1>2, <1>7, <1>8
<1>11. QueueInv'
  BY <1>6, <1>7, <1>8, <1>9 DEF QueueInv
<1> QED
  BY <1>6, <1>7, <1>9, <1>10, <1>11 DEF Coming

(* A rebuild that is open has a context.                                   *)
LEMMA ContextType ==
    ASSUME RowInv, NEW b \in Open
    PROVE  /\ b \in Rebuilds /\ rebuild[b] \in Contexts
           /\ rebuild[b].plugin \in Plugins /\ rebuild[b].meta \in Plugins \cup {Absent}
           /\ rebuild[b].marker \in Plugins \cup {Absent}
           /\ rebuild[b].todo \subseteq {"meta", "hashes"} /\ rebuild[b].patch \subseteq {"meta", "hashes"}
BY DEF RowInv, Open, Contexts, Optional, Units

(* What is not touched of a resource keeps what it says in order.          *)
Untouched(r) ==
    /\ plugin'[r] = plugin[r] /\ meta'[r] = meta[r] /\ marker'[r] = marker[r] /\ rows'[r] = rows[r]
    /\ \A b \in RebuildsAt(r) : rebuild'[b] = rebuild[b]
    /\ \A u \in {"meta", "hashes"} :
          /\ Coming(Of(r, u)) => Coming(Of(r, u))'
          /\ Of(r, u) \in overtaken =>
                \/ Of(r, u) \in overtaken'
                \/ Coming(Of(r, u))' /\ (u = "meta" => plugin[r] \in Describing)
    /\ PagesOf(r) \cap overtaken \subseteq overtaken'
    /\ \A b \in RebuildsAt(r) \cap Open : b \in pending \cup overtaken => b \in (pending \cup overtaken)'

LEMMA UntouchedSources ==
    ASSUME NEW r \in Res, SourcesOf(r), Untouched(r)
    PROVE  SourcesOf(r)'
<1> DEFINE M == Of(r, "meta")
           H == Of(r, "hashes")
           P == PagesOf(r)
<1>1. /\ M \in Rebuilds /\ H \in Rebuilds /\ P \subseteq Rebuilds
      /\ M[1] = r /\ RebuildsAt(r) = {M, H} \cup P
  BY RebuildsOf DEF RebuildsAt
<1>2. \A b \in {M, H} \cup P : rebuild'[b] = rebuild[b] /\ (b \in Open' <=> b \in Open)
  BY <1>1 DEF Open, Untouched
<1>3. /\ plugin'[r] = plugin[r] /\ meta'[r] = meta[r] /\ marker'[r] = marker[r] /\ rows'[r] = rows[r]
      /\ Coming(M) => Coming(M)'
      /\ Coming(H) => Coming(H)'
      /\ M \in overtaken => M \in overtaken' \/ (Coming(M)' /\ plugin[r] \in Describing)
      /\ H \in overtaken => H \in overtaken' \/ Coming(H)'
      /\ \A b \in {H} \cup P : b \in Open /\ b \in pending \cup overtaken => b \in (pending \cup overtaken)'
  BY <1>1 DEF Untouched
<1>4. PagesOwn(r)' => PagesOwn(r)
  BY DEF PagesOwn, Untouched, PagesOf
<1> HIDE DEF M, H, P
<1>5. MetaOf(r)'
  <2>1. MetaMends(M) => MetaMends(M)'
    BY <1>1, <1>2, <1>3 DEF MetaMends
  <2> QED
    BY <1>3, <1>4, <2>1 DEF SourcesOf, MetaOf, MetaSound, M
<1>6. PassedOf(r)'
  <2>1. H \in Hashers' <=> H \in Hashers
    BY <1>2 DEF Hashers
  <2>2. \A b \in {H} \cup P : Passed(b, r) => Passed(b, r)'
    BY <1>2, <1>3 DEF Passed
  <2>3. PagesOf(r)' = P
    BY DEF P, PagesOf
  <2> QED
    BY <1>2, <1>3, <1>4, <2>1, <2>2, <2>3 DEF SourcesOf, PassedOf, H, P
<1>7. HashedOf(r)'
  <2>1. \A b \in {H} \cup P : HashesMends(b, r) => HashesMends(b, r)'
    BY <1>2, <1>3 DEF HashesMends
  <2>2. PagesOf(r)' = P
    BY DEF P, PagesOf
  <2> QED
    BY <1>3, <1>4, <2>1, <2>2 DEF SourcesOf, HashedOf, HashesSound, H, P
<1> QED
  BY <1>5, <1>6, <1>7 DEF SourcesOf

(* A rebuild begins with the plugin and the row of its resource.           *)
LEMMA Opens ==
    ASSUME RowInv, HashInv, NEW b \in Rebuilds, rebuild[b] = Absent,
           NEW units \in SUBSET Units, OpenContext(b, units)
    PROVE  LET r == b[1]
               c == rebuild'[b]
               clears == "hashes" \in units /\ r \notin hashesInFlight /\ plugin[r] \notin Hashing
           IN  /\ rebuild' \in [Rebuilds -> Optional(Contexts)]
               /\ rows' \in [Res -> Optional(Plugins)]
               /\ hashesInFlight' \subseteq Res
               /\ Open' = Open \cup {b} /\ HashInv'
               /\ \A a \in Rebuilds \ {b} : rebuild'[a] = rebuild[a]
               /\ c.plugin = plugin[r] /\ c.meta = meta[r] /\ c.marker = marker[r]
               /\ "meta" \in c.todo <=> "meta" \in units
               /\ "hashes" \in c.todo <=>
                      "hashes" \in units /\ r \notin hashesInFlight /\ plugin[r] \in Hashing
               /\ c.todo \subseteq units
               /\ c.patch = IF clears /\ marker[r] # Absent THEN {"hashes"} ELSE {}
               /\ \A q \in Res \ {r} : rows'[q] = rows[q]
               /\ rows'[r] = IF clears THEN Absent ELSE rows[r]
<1> DEFINE r == b[1]
           c == rebuild'[b]
           hashes == "hashes" \in units /\ r \notin hashesInFlight
           clears == hashes /\ plugin[r] \notin Hashing
           new == [plugin |-> plugin[r], meta |-> meta[r], marker |-> marker[r],
                   todo |-> (units \ {"hashes"}) \cup (IF hashes /\ plugin[r] \in Hashing THEN {"hashes"} ELSE {}),
                   patch |-> IF clears /\ marker[r] # Absent THEN {"hashes"} ELSE {}]
<1>1. r \in Res
  BY RebuildsOf
<1>2. /\ rebuild' = [rebuild EXCEPT ![b] = new]
      /\ hashesInFlight' = IF hashes /\ plugin[r] \in Hashing THEN hashesInFlight \cup {r} ELSE hashesInFlight
      /\ rows' = [rows EXCEPT ![r] = IF clears THEN Absent ELSE @]
  BY DEF OpenContext
<1>3. new \in Contexts
  BY <1>1 DEF RowInv, Contexts, Units, Optional
<1>4. c = new /\ \A a \in Rebuilds \ {b} : rebuild'[a] = rebuild[a]
  BY <1>2 DEF RowInv
<1>5. new # Absent
  BY <1>3, MetaAssumption
<1>6. /\ rebuild' \in [Rebuilds -> Optional(Contexts)]
      /\ rows' \in [Res -> Optional(Plugins)]
      /\ hashesInFlight' \subseteq Res
  BY <1>1, <1>2, <1>3 DEF RowInv, Optional
<1>7. Open' = Open \cup {b}
  BY <1>4, <1>5 DEF Open
<1>8. /\ c.plugin = plugin[r] /\ c.meta = meta[r] /\ c.marker = marker[r]
      /\ "meta" \in c.todo <=> "meta" \in units
      /\ "hashes" \in c.todo <=> hashes /\ plugin[r] \in Hashing
      /\ c.todo \subseteq units
      /\ c.patch = IF clears /\ marker[r] # Absent THEN {"hashes"} ELSE {}
  BY <1>4
<1>9. /\ \A q \in Res \ {r} : rows'[q] = rows[q]
      /\ rows'[r] = IF clears THEN Absent ELSE rows[r]
  BY <1>1, <1>2 DEF RowInv
<1> HIDE DEF new, c, hashes, clears
<1>10. Hashers' = IF hashes /\ plugin[r] \in Hashing THEN Hashers \cup {b} ELSE Hashers
  <2>1. \A a \in Rebuilds : rebuild'[a] = IF a = b THEN c ELSE rebuild[a]
    BY <1>4 DEF c
  <2>2. b \notin Open /\ Open \subseteq Rebuilds
    BY DEF Open
  <2> QED
    BY <2>1, <2>2, <1>7, <1>8 DEF Hashers
<1>11. HashInv'
  BY <1>2, <1>10 DEF HashInv, hashes, Hashers, Open
<1> QED
  BY <1>6, <1>7, <1>11, <1>4, <1>8, <1>9 DEF c, hashes, clears

(* A rebuild that has ended is closed.                                     *)
LEMMA Closes ==
    ASSUME RowInv, HashInv, NEW b \in Rebuilds, ApplyPatch(b),
           hashesInFlight' = hashesInFlight
    PROVE  LET r == b[1]
               c == rebuild[b]
           IN  /\ b \in Open /\ c.todo = {}
               /\ rebuild' \in [Rebuilds -> Optional(Contexts)]
               /\ meta' \in [Res -> Optional(Plugins)]
               /\ marker' \in [Res -> Optional(Plugins)]
               /\ Open' = Open \ {b} /\ Hashers' = Hashers /\ HashInv'
               /\ rebuild'[b] = Absent /\ \A a \in Rebuilds \ {b} : rebuild'[a] = rebuild[a]
               /\ \A q \in Res \ {r} : meta'[q] = meta[q] /\ marker'[q] = marker[q]
               /\ meta'[r] = IF "meta" \in c.patch THEN c.plugin ELSE meta[r]
               /\ marker'[r] = IF "hashes" \in c.patch
                               THEN IF c.plugin \in Hashing THEN c.plugin ELSE Absent ELSE marker[r]
<1> DEFINE r == b[1]
           c == rebuild[b]
<1>1. r \in Res
  BY RebuildsOf
<1>2. /\ b \in Open /\ c.todo = {}
      /\ meta' = [meta EXCEPT ![r] = IF "meta" \in c.patch THEN c.plugin ELSE @]
      /\ marker' = [marker EXCEPT ![r] = IF "hashes" \in c.patch THEN HashesOf(c.plugin) ELSE @]
      /\ rebuild' = [rebuild EXCEPT ![b] = Absent]
  BY DEF ApplyPatch
<1>3. c.plugin \in Plugins
  BY <1>2, ContextType
<1>4. /\ rebuild' \in [Rebuilds -> Optional(Contexts)]
      /\ meta' \in [Res -> Optional(Plugins)]
      /\ marker' \in [Res -> Optional(Plugins)]
  BY <1>1, <1>2, <1>3 DEF RowInv, Optional, HashesOf
<1>5. rebuild'[b] = Absent /\ \A a \in Rebuilds \ {b} : rebuild'[a] = rebuild[a]
  BY <1>2 DEF RowInv
<1>6. Open' = Open \ {b}
  BY <1>5 DEF Open
<1>7. Hashers' = Hashers
  BY <1>2, <1>5, <1>6 DEF Hashers, Open
<1>8. HashInv'
  BY <1>7 DEF HashInv
<1>9. /\ \A q \in Res \ {r} : meta'[q] = meta[q] /\ marker'[q] = marker[q]
      /\ meta'[r] = IF "meta" \in c.patch THEN c.plugin ELSE meta[r]
      /\ marker'[r] = IF "hashes" \in c.patch
                      THEN IF c.plugin \in Hashing THEN c.plugin ELSE Absent ELSE marker[r]
  BY <1>1, <1>2 DEF RowInv, HashesOf
<1> QED
  BY <1>2, <1>4, <1>5, <1>6, <1>7, <1>8, <1>9

(* A pass ends.                                                            *)
LEMMA PassEndsInv ==
    ASSUME MetaInv, NEW b \in Rebuilds, NEW u \in Units, PassEnds(b, u)
    PROVE  MetaInv'
<1> USE DEF MetaInv
<1> DEFINE r == b[1]
           c == rebuild[b]
           known == IF u = "meta" THEN c.meta ELSE c.marker
           writes == known # c.plugin /\ (u = "meta" => c.plugin \in Describing)
<1>1. /\ b \in Open /\ u \in c.todo
      /\ rebuild' = [rebuild EXCEPT ![b].todo = @ \ {u},
                         ![b].patch = IF writes THEN @ \cup {u} ELSE @]
      /\ IF u = "hashes"
         THEN rows' = [rows EXCEPT ![r] = c.plugin] /\ hashesInFlight' = hashesInFlight \ {r}
         ELSE rows' = rows /\ hashesInFlight' = hashesInFlight
      /\ UNCHANGED <<plugin, meta, marker, queue, pending, waiters, rebuildFailures, clearing, owed, overtaken>>
  BY DEF PassEnds, tasks, history
<1>2. r \in Res /\ c \in Contexts /\ c.plugin \in Plugins /\ u \in {"meta", "hashes"}
  BY <1>1, RebuildsOf, ContextType DEF Units
<1> DEFINE d == rebuild'[b]
<1>3. /\ d \in Contexts /\ d.plugin = c.plugin /\ d.meta = c.meta /\ d.marker = c.marker
      /\ d.todo = c.todo \ {u} /\ d.patch = IF writes THEN c.patch \cup {u} ELSE c.patch
      /\ \A a \in Rebuilds \ {b} : rebuild'[a] = rebuild[a]
      /\ rebuild' \in [Rebuilds -> Optional(Contexts)]
  BY <1>1, <1>2 DEF RowInv, Contexts, Optional, Units
<1>4. /\ \A q \in Res \ {r} : rows'[q] = rows[q]
      /\ rows'[r] = IF u = "hashes" THEN c.plugin ELSE rows[r]
      /\ rows' \in [Res -> Optional(Plugins)] /\ hashesInFlight' \subseteq Res
  BY <1>1, <1>2 DEF RowInv, Optional
<1> HIDE DEF d
<1>5. Open' = Open
  BY <1>1, <1>3, MetaAssumption DEF Open, d
<1>6. QueueInv'
  BY <1>1 DEF QueueInv, Waiting, SlotsHeld, Held
<1>7. RowInv'
  <2>1. \A k \in Keys : rebuild'[k] # Absent => queue'[k] = "running"
    BY <1>1, <1>3, <1>5 DEF RowInv, Open, Rebuilds
  <2> QED
    BY <1>1, <1>3, <1>4, <2>1 DEF RowInv
<1>8. Hashers' = IF u = "hashes" THEN Hashers \ {b} ELSE Hashers
  BY <1>1, <1>2, <1>3, <1>5 DEF Hashers, d, Open
<1>9. HashInv'
  <2>1. \A a, e \in Hashers : a[1] = e[1] => a = e
    BY DEF HashInv
  <2>2. CASE u = "hashes"
    <3>1. b \in Hashers
      BY <2>2, <1>1 DEF Hashers
    <3>2. {a[1] : a \in Hashers \ {b}} = {a[1] : a \in Hashers} \ {r}
      BY <2>1, <3>1
    <3>3. hashesInFlight' = {a[1] : a \in Hashers'}
      BY <2>2, <3>2, <1>1, <1>8 DEF HashInv
    <3> QED
      BY <2>1, <2>2, <3>3, <1>8 DEF HashInv
  <2>3. CASE u # "hashes"
    BY <2>3, <1>1, <1>8 DEF HashInv
  <2> QED
    BY <2>2, <2>3
<1>10. ContextInv'
  <2> SUFFICES ASSUME NEW a \in Open
               PROVE  /\ a \in Keys => rebuild'[a].todo \cup rebuild'[a].patch \subseteq {a[2]}
                      /\ "hashes" \in rebuild'[a].todo => rebuild'[a].plugin \in Hashing
                      /\ a \in Views =>
                            /\ "hashes" \in rebuild'[a].todo => rebuild'[a].marker = Absent
                            /\ "hashes" \in rebuild'[a].patch => rebuild'[a].plugin \in Hashing
    BY <1>5 DEF ContextInv
  <2>1. CASE a = b
    BY <2>1, <1>1, <1>2, <1>3 DEF ContextInv, d
  <2>2. CASE a # b
    BY <2>2, <1>3 DEF ContextInv, Open
  <2> QED
    BY <2>1, <2>2
<1>11. OldInv'
  BY <1>1, <1>3, <1>5 DEF OldInv, Followed, d, Open
<1>12. ASSUME NEW q \in Res
       PROVE  SourcesOf(q)'
  <2>0. SourcesOf(q)
    BY DEF SourcesInv
  <2>1. CASE q # r
    <3>1. \A a \in RebuildsAt(q) : rebuild'[a] = rebuild[a]
      BY <2>1, <1>3, RebuildsOf
    <3>2. Untouched(q)
      BY <2>1, <3>1, <1>1, <1>4 DEF Untouched, Coming
    <3> QED
      BY <2>0, <3>2, UntouchedSources
  <2>2. CASE q = r
    <3> DEFINE M == Of(r, "meta")
               H == Of(r, "hashes")
               P == PagesOf(r)
    <3>1. /\ M \in Keys /\ H \in Keys /\ P \subseteq Views /\ P \cap Keys = {} /\ P' = P
          /\ {M, H} \cup P \subseteq Rebuilds /\ b \in {M, H} \cup P
          /\ M # H /\ M \notin P /\ H \notin P
          /\ M[1] = r /\ H[1] = r /\ M[2] = "meta" /\ H[2] = "hashes"
      BY <1>1, <1>2, RebuildsOf DEF RebuildsAt, Open, PagesOf
    <3>2. /\ Coming(M)' <=> Coming(M)
          /\ Coming(H)' <=> Coming(H)
      BY <1>1 DEF Coming
    <3>3. \A a \in {M, H} \cup P : a # b => rebuild'[a] = rebuild[a]
      BY <3>1, <1>3
    <3>4. c.plugin = plugin[r] \/ b \in overtaken \/ b \in pending
      BY <1>1 DEF OldInv, Followed
    <3>5. P \cap pending = {}
      BY <3>1 DEF QueueInv
    <3>6. b = M => c.todo \subseteq {"meta"} /\ c.patch \subseteq {"meta"}
      BY <3>1, <1>1 DEF ContextInv
    <3>7. b = H => c.todo \subseteq {"hashes"} /\ c.patch \subseteq {"hashes"}
      BY <3>1, <1>1 DEF ContextInv
    <3>p. PagesOwn(r)' <=> PagesOwn(r)
      BY <1>1 DEF PagesOwn, PagesOf
    <3>u. plugin' = plugin /\ meta' = meta /\ overtaken' = overtaken
      BY <1>1
    <3> HIDE DEF M, H, P
    <3>8. MetaOf(r)'
      <4> SUFFICES ASSUME M \notin overtaken, PagesOwn(r), ~MetaSound(r)
                   PROVE  plugin[r] \in Describing /\ (Coming(M) \/ MetaMends(M)')
        BY <3>2, <3>p, <3>u DEF MetaOf, MetaSound, M
      <4>1. plugin[r] \in Describing /\ (Coming(M) \/ MetaMends(M))
        BY <2>0, <2>2 DEF SourcesOf, MetaOf, M
      <4>2. CASE b = M
        BY <4>1, <4>2, <1>1, <1>3, <1>5, <3>1, <3>6 DEF MetaMends, d
      <4>3. CASE b # M
        BY <4>1, <4>3, <1>1, <1>5, <3>1, <3>3 DEF MetaMends
      <4> QED
        BY <4>2, <4>3
    <3>9. PassedOf(r)'
      <4> SUFFICES ASSUME PagesOwn(r)
                   PROVE  /\ \A a \in {H} \cup P : Passed(a, r)'
                          /\ H \in Hashers' =>
                                \A v \in P \cap Open' :
                                    "hashes" \in rebuild'[v].todo \cup rebuild'[v].patch
                                        => rebuild'[H].plugin = plugin'[r]
        BY <1>1, <3>p, <3>1 DEF PassedOf, H, P
      <4>1. /\ \A a \in {H} \cup P : Passed(a, r)
            /\ H \in Hashers =>
                  \A v \in P \cap Open :
                      "hashes" \in rebuild[v].todo \cup rebuild[v].patch => rebuild[H].plugin = plugin[r]
        BY <2>0, <2>2 DEF SourcesOf, PassedOf, H, P
      <4>2. CASE u = "meta"
        <5>1. /\ rows'[r] = rows[r] /\ plugin'[r] = plugin[r] /\ pending' = pending /\ overtaken' = overtaken
              /\ Open' = Open /\ Hashers' = Hashers
          BY <4>2, <1>1, <1>4, <1>5, <1>8
        <5>2. \A a \in {H} \cup P :
                  /\ rebuild'[a].plugin = rebuild[a].plugin
                  /\ "hashes" \in rebuild'[a].patch <=> "hashes" \in rebuild[a].patch
                  /\ "hashes" \in rebuild'[a].todo <=> "hashes" \in rebuild[a].todo
          BY <4>2, <1>3, <3>1, <3>3 DEF d
        <5>3. \A a \in {H} \cup P : Passed(a, r) => Passed(a, r)'
          BY <5>1, <5>2 DEF Passed
        <5>4. H \in {H} \cup P /\ \A v \in P : v \in {H} \cup P
          OBVIOUS
        <5> QED
          BY <4>1, <5>1, <5>2, <5>3, <5>4
      <4>3. CASE u = "hashes" /\ b = H
        <5>1. b \in Hashers
          BY <4>3, <1>1 DEF Hashers
        <5> QED
          BY <4>1, <4>3, <5>1, <1>1, <1>3, <1>4, <1>5, <1>8, <3>1, <3>3, <3>4, <3>5 DEF Passed, d
      <4>4. CASE u = "hashes" /\ b \in P
        <5>1. c.plugin = plugin[r]
          BY <4>4, <3>4, <3>5 DEF PagesOwn, P
        <5>2. rows'[r] = plugin'[r]
          BY <5>1, <4>4, <1>1, <1>4
        <5>3. \A v \in P \cap Open' :
                  "hashes" \in rebuild'[v].todo \cup rebuild'[v].patch =>
                      v \in Open /\ "hashes" \in rebuild[v].todo \cup rebuild[v].patch
          BY <4>4, <1>1, <1>3, <1>5, <3>3 DEF d
        <5>4. H \in Hashers' => H \in Hashers /\ rebuild'[H] = rebuild[H]
          BY <4>4, <1>8, <3>1, <3>3
        <5> QED
          BY <4>1, <5>2, <5>3, <5>4, <1>1 DEF Passed
      <4> QED
        BY <4>2, <4>3, <4>4, <1>1, <1>2, <3>1, <3>6
    <3>10. HashedOf(r)'
      <4> SUFFICES ASSUME H \notin overtaken, PagesOwn(r), ~Coming(H)
                   PROVE  HashesSound(r)' \/ \E a \in {H} \cup P : HashesMends(a, r)'
        BY <1>1, <3>1, <3>2, <3>p DEF HashedOf, H, P
      <4>1. HashesSound(r) \/ \E a \in {H} \cup P : HashesMends(a, r)
        BY <2>0, <2>2 DEF SourcesOf, HashedOf, H, P
      <4>2. b \in {H} \cup P => c.plugin = plugin[r]
        BY <3>4, <3>5 DEF Coming, PagesOwn, P
      <4>3. CASE u = "meta"
        <5>1. \A a \in {H} \cup P : HashesMends(a, r) => HashesMends(a, r)'
          BY <4>3, <1>1, <1>3, <1>4, <1>5, <3>1, <3>3, <3>7 DEF HashesMends, d
        <5> QED
          BY <4>1, <4>3, <5>1, <1>1, <1>4 DEF HashesSound
      <4>4. CASE u = "hashes" /\ b \in {H} \cup P
        <5>1. rows'[r] = plugin'[r]
          BY <4>2, <4>4, <1>1, <1>4
        <5>2. HashesSound(r) => HashesSound(r)'
          BY <5>1, <1>1 DEF HashesSound
        <5>3. HashesMends(b, r) => HashesMends(b, r)' \/ HashesSound(r)'
          BY <5>1, <4>2, <4>4, <1>1, <1>3, <1>5 DEF HashesSound, HashesMends, d
        <5>4. \A a \in {H} \cup P : a # b /\ HashesMends(a, r) => HashesMends(a, r)'
          BY <1>1, <1>5, <3>3 DEF HashesMends
        <5> QED
          BY <4>1, <4>4, <5>2, <5>3, <5>4
      <4> QED
        BY <4>3, <4>4, <1>1, <1>2, <3>1, <3>6
    <3> QED
      BY <2>2, <3>8, <3>9, <3>10 DEF SourcesOf
  <2> QED
    BY <2>1, <2>2
<1> QED
  BY <1>6, <1>7, <1>9, <1>10, <1>11, <1>12 DEF SourcesInv

(* A pass fails.                                                           *)
LEMMA PassFailsInv ==
    ASSUME MetaInv, NEW b \in Rebuilds, NEW u \in Units, PassFails(b, u)
    PROVE  MetaInv'
<1> USE DEF MetaInv
<1> DEFINE r == b[1]
           c == rebuild[b]
<1>1. /\ b \in Open /\ u \in c.todo
      /\ rebuild' = [rebuild EXCEPT ![b].todo = @ \ {u}]
      /\ hashesInFlight' = IF u = "hashes" THEN hashesInFlight \ {r} ELSE hashesInFlight
      /\ overtaken' = overtaken \cup {b}
      /\ UNCHANGED <<plugin, meta, marker, rows, queue, pending, waiters, rebuildFailures, clearing, owed>>
  BY DEF PassFails, tasks, record
<1>2. r \in Res /\ c \in Contexts /\ c.plugin \in Plugins /\ u \in {"meta", "hashes"}
  BY <1>1, RebuildsOf, ContextType DEF Units
<1> DEFINE d == rebuild'[b]
<1>3. /\ d \in Contexts /\ d.plugin = c.plugin /\ d.meta = c.meta /\ d.marker = c.marker
      /\ d.todo = c.todo \ {u} /\ d.patch = c.patch
      /\ \A a \in Rebuilds \ {b} : rebuild'[a] = rebuild[a]
      /\ rebuild' \in [Rebuilds -> Optional(Contexts)]
  BY <1>1, <1>2 DEF RowInv, Contexts, Optional, Units
<1> HIDE DEF d
<1>4. Open' = Open
  BY <1>1, <1>3, MetaAssumption DEF Open, d
<1>5. QueueInv'
  BY <1>1 DEF QueueInv, Waiting, SlotsHeld, Held
<1>6. RowInv'
  <2>1. \A k \in Keys : rebuild'[k] # Absent => queue'[k] = "running"
    BY <1>1, <1>3, <1>4 DEF RowInv, Open, Rebuilds
  <2> QED
    BY <1>1, <1>3, <2>1 DEF RowInv
<1>7. Hashers' = IF u = "hashes" THEN Hashers \ {b} ELSE Hashers
  BY <1>1, <1>2, <1>3, <1>4 DEF Hashers, d, Open
<1>8. HashInv'
  <2>1. \A a, e \in Hashers : a[1] = e[1] => a = e
    BY DEF HashInv
  <2>2. CASE u = "hashes"
    <3>1. b \in Hashers
      BY <2>2, <1>1 DEF Hashers
    <3>2. {a[1] : a \in Hashers \ {b}} = {a[1] : a \in Hashers} \ {r}
      BY <2>1, <3>1
    <3>3. hashesInFlight' = {a[1] : a \in Hashers'}
      BY <2>2, <3>2, <1>1, <1>7 DEF HashInv
    <3> QED
      BY <2>1, <2>2, <3>3, <1>7 DEF HashInv
  <2>3. CASE u # "hashes"
    BY <2>3, <1>1, <1>7 DEF HashInv
  <2> QED
    BY <2>2, <2>3
<1>9. ContextInv'
  <2> SUFFICES ASSUME NEW a \in Open
               PROVE  /\ a \in Keys => rebuild'[a].todo \cup rebuild'[a].patch \subseteq {a[2]}
                      /\ "hashes" \in rebuild'[a].todo => rebuild'[a].plugin \in Hashing
                      /\ a \in Views =>
                            /\ "hashes" \in rebuild'[a].todo => rebuild'[a].marker = Absent
                            /\ "hashes" \in rebuild'[a].patch => rebuild'[a].plugin \in Hashing
    BY <1>4 DEF ContextInv
  <2>1. CASE a = b
    BY <2>1, <1>1, <1>2, <1>3 DEF ContextInv, d
  <2>2. CASE a # b
    BY <2>2, <1>3 DEF ContextInv, Open
  <2> QED
    BY <2>1, <2>2
<1>10. OldInv'
  BY <1>1, <1>3, <1>4 DEF OldInv, Followed, d, Open
<1>11. ASSUME NEW q \in Res
       PROVE  SourcesOf(q)'
  <2>0. SourcesOf(q)
    BY DEF SourcesInv
  <2>1. CASE q # r
    <3>1. \A a \in RebuildsAt(q) : rebuild'[a] = rebuild[a]
      BY <2>1, <1>3, RebuildsOf
    <3>2. Untouched(q)
      BY <2>1, <3>1, <1>1 DEF Untouched, Coming
    <3> QED
      BY <2>0, <3>2, UntouchedSources
  <2>2. CASE q = r
    <3> DEFINE M == Of(r, "meta")
               H == Of(r, "hashes")
               P == PagesOf(r)
    <3>1. /\ M \in Keys /\ H \in Keys /\ P \subseteq Views /\ P \cap Keys = {} /\ P' = P
          /\ {M, H} \cup P \subseteq Rebuilds /\ b \in {M, H} \cup P
          /\ M # H /\ M \notin P /\ H \notin P
          /\ M[1] = r /\ H[1] = r /\ M[2] = "meta" /\ H[2] = "hashes"
      BY <1>1, <1>2, RebuildsOf DEF RebuildsAt, Open, PagesOf
    <3>2. /\ Coming(M)' <=> Coming(M)
          /\ Coming(H)' <=> Coming(H)
      BY <1>1 DEF Coming
    <3>3. \A a \in {M, H} \cup P : a # b => rebuild'[a] = rebuild[a]
      BY <3>1, <1>3
    <3>4. b = M => c.todo \subseteq {"meta"}
      BY <3>1, <1>1 DEF ContextInv
    <3>5. b = H => c.todo \subseteq {"hashes"}
      BY <3>1, <1>1 DEF ContextInv
    <3>u. plugin' = plugin /\ meta' = meta /\ overtaken \subseteq overtaken'
      BY <1>1
    <3>p. PagesOwn(r)' => PagesOwn(r) /\ b \notin P
      BY <1>1 DEF PagesOwn, PagesOf
    <3> HIDE DEF M, H, P
    <3>6. MetaOf(r)'
      <4> SUFFICES ASSUME M \notin overtaken', PagesOwn(r)', ~MetaSound(r)
                   PROVE  plugin[r] \in Describing /\ (Coming(M) \/ MetaMends(M)')
        BY <3>2, <3>u DEF MetaOf, MetaSound, M
      <4>1. plugin[r] \in Describing /\ (Coming(M) \/ MetaMends(M)) /\ b # M
        BY <1>1, <2>0, <2>2, <3>p DEF SourcesOf, MetaOf, M
      <4> QED
        BY <4>1, <1>1, <1>4, <3>1, <3>3 DEF MetaMends
    <3>7. PassedOf(r)'
      <4> SUFFICES ASSUME PagesOwn(r)'
                   PROVE  /\ \A a \in {H} \cup P : Passed(a, r)'
                          /\ H \in Hashers' =>
                                \A v \in P \cap Open' :
                                    "hashes" \in rebuild'[v].todo \cup rebuild'[v].patch
                                        => rebuild'[H].plugin = plugin'[r]
        BY <1>1, <3>1 DEF PassedOf, H, P
      <4>1. /\ \A a \in {H} \cup P : Passed(a, r)
            /\ b \notin P
            /\ H \in Hashers =>
                  \A v \in P \cap Open :
                      "hashes" \in rebuild[v].todo \cup rebuild[v].patch => rebuild[H].plugin = plugin[r]
        BY <1>1, <2>0, <2>2, <3>p DEF SourcesOf, PassedOf, H, P
      <4> QED
        BY <4>1, <1>1, <1>3, <1>4, <1>7, <3>1, <3>3 DEF Passed, d
    <3>8. HashedOf(r)'
      <4> SUFFICES ASSUME H \notin overtaken', PagesOwn(r)', ~Coming(H)
                   PROVE  HashesSound(r)' \/ \E a \in {H} \cup P : HashesMends(a, r)'
        BY <1>1, <3>1, <3>2 DEF HashedOf, H, P
      <4>1. b # H /\ b \notin P
        BY <1>1, <3>p
      <4>2. HashesSound(r) \/ \E a \in {H} \cup P : HashesMends(a, r)
        BY <1>1, <2>0, <2>2, <3>p DEF SourcesOf, HashedOf, H, P
      <4>3. \A a \in {H} \cup P : HashesMends(a, r) => HashesMends(a, r)'
        BY <4>1, <1>1, <1>4, <3>1, <3>3 DEF HashesMends
      <4> QED
        BY <4>2, <4>3, <1>1 DEF HashesSound
    <3> QED
      BY <2>2, <3>6, <3>7, <3>8 DEF SourcesOf
  <2> QED
    BY <2>1, <2>2
<1> QED
  BY <1>5, <1>6, <1>8, <1>9, <1>10, <1>11 DEF SourcesInv

(* The content plugin is replaced and the metadata cleared.                *)
LEMMA ReplaceInv ==
    ASSUME MetaInv, NEW r \in Res, NEW p \in Plugins, Replace(r, p)
    PROVE  MetaInv'
<1> USE DEF MetaInv
<1>1. /\ plugin' = [plugin EXCEPT ![r] = p] /\ clearing' = clearing \cup {r}
      /\ meta' = [meta EXCEPT ![r] = Absent] /\ marker' = [marker EXCEPT ![r] = Absent]
      /\ overtaken' = overtaken \cup {b \in Open : b[1] = r}
      /\ UNCHANGED <<rows, rebuild, hashesInFlight, queue, pending, waiters, rebuildFailures, owed>>
  BY DEF Replace, tasks
<1>2. Open' = Open /\ Hashers' = Hashers
  BY <1>1 DEF Open, Hashers
<1>3. QueueInv'
  BY <1>1 DEF QueueInv, Waiting, SlotsHeld, Held
<1>4. RowInv'
  <2>1. overtaken' \subseteq Rebuilds
    BY <1>1 DEF RowInv, Open
  <2> QED
    BY <1>1, <2>1 DEF RowInv, Optional
<1>5. HashInv'
  BY <1>1, <1>2 DEF HashInv
<1>6. ContextInv'
  BY <1>1, <1>2 DEF ContextInv
<1>7. OldInv'
  <2> SUFFICES ASSUME NEW b \in Open, rebuild[b].plugin # plugin'[b[1]]
               PROVE  b \in overtaken' \/ Followed(b)'
    BY <1>1, <1>2 DEF OldInv
  <2>1. b[1] \in Res
    BY RebuildsOf DEF Open
  <2>2. b[1] # r => plugin'[b[1]] = plugin[b[1]]
    BY <2>1, <1>1 DEF RowInv
  <2> QED
    BY <2>2, <1>1 DEF OldInv, Followed
<1>8. ASSUME NEW q \in Res
      PROVE  SourcesOf(q)'
  <2>0. SourcesOf(q)
    BY DEF SourcesInv
  <2>1. CASE q # r
    <3>1. plugin'[q] = plugin[q] /\ meta'[q] = meta[q] /\ marker'[q] = marker[q]
      BY <2>1, <1>1 DEF RowInv
    <3>2. Untouched(q)
      BY <3>1, <1>1 DEF Untouched, Coming
    <3> QED
      BY <2>0, <3>2, UntouchedSources
  <2>2. CASE q = r
    <3>1. meta'[r] = Absent /\ marker'[r] = Absent
      BY <1>1 DEF RowInv
    <3>2. MetaOf(r)' /\ HashedOf(r)'
      BY <3>1 DEF MetaOf, MetaSound, HashedOf, HashesSound
    <3>3. \A b \in RebuildsAt(r) \cap Open : b \in overtaken'
      BY <1>1, RebuildsOf
    <3>4. PassedOf(r)'
      <4>1. \A b \in RebuildsAt(r) : Passed(b, r)'
        BY <3>3, <1>1, <1>2 DEF Passed
      <4>2. PagesOwn(r)' => PagesOf(r) \cap Open' = {}
        BY <3>3, <1>2 DEF PagesOwn, RebuildsAt, PagesOf
      <4>3. PagesOf(r)' = PagesOf(r)
        BY DEF PagesOf
      <4> QED
        BY <4>1, <4>2, <4>3 DEF PassedOf, RebuildsAt
    <3> QED
      BY <2>2, <3>2, <3>4 DEF SourcesOf
  <2> QED
    BY <2>1, <2>2
<1> QED
  BY <1>3, <1>4, <1>5, <1>6, <1>7, <1>8 DEF SourcesInv

(* What is enqueued, by a list or after the plugin was replaced.           *)
LEMMA EnqueuesInv ==
    ASSUME MetaInv, NEW r \in Res, NEW units \in SUBSET Units,
           Enqueue(r, units), clearing' \subseteq Res,
           \/ overtaken' = overtaken
           \/ units = Units /\ overtaken' = overtaken \ Mended(r, plugin[r]),
           UNCHANGED <<plugin, meta, marker, rows, rebuild, hashesInFlight>>
    PROVE  MetaInv'
<1> USE DEF MetaInv
<1>1. /\ QueueInv' /\ rebuildFailures' = rebuildFailures
      /\ pending \subseteq pending'
      /\ \A k \in Keys : queue'[k] = queue[k] \/ (queue[k] = "idle" /\ queue'[k] \in {"started", "waiting"})
      /\ \A k \in Asked(r, units) :
             k \in Keys /\ Coming(k)' /\ (queue[k] # "idle" => k \in pending')
  BY Enqueues
<1>2. Open' = Open /\ Hashers' = Hashers
  BY DEF Open, Hashers
<1>3. RowInv'
  <2>1. \A k \in Keys : rebuild'[k] # Absent => queue'[k] = "running"
    BY <1>1 DEF RowInv
  <2> QED
    BY <2>1 DEF RowInv
<1>4. HashInv' /\ ContextInv'
  BY <1>2 DEF HashInv, ContextInv
<1>a. \A b \in overtaken \ overtaken' :
          b \in Asked(r, units) /\ b[1] = r /\ (b[2] = "meta" => plugin[r] \in Describing)
  BY DEF Mended, Asked
<1>5. \A b \in Open : b \in overtaken => b \in overtaken' \/ Followed(b)'
  <2> SUFFICES ASSUME NEW b \in Open, b \in overtaken \ overtaken'
               PROVE  Followed(b)'
    OBVIOUS
  <2>1. b \in Keys /\ queue[b] = "running"
    BY <1>1, <1>a DEF RowInv, Open
  <2> QED
    BY <2>1, <1>1, <1>a DEF Followed
<1>6. OldInv'
  BY <1>1, <1>2, <1>5 DEF OldInv, Followed
<1>7. ASSUME NEW q \in Res
      PROVE  SourcesOf(q)'
  <2>1. PagesOf(q) \cap overtaken \subseteq overtaken'
    BY <1>1, <1>a, RebuildsOf
  <2>2. \A u \in {"meta", "hashes"} : Of(q, u) \in Keys
    BY RebuildsOf
  <2>3. \A u \in {"meta", "hashes"} : Coming(Of(q, u)) => Coming(Of(q, u))'
    BY <1>1, <2>2 DEF Coming
  <2>4. \A u \in {"meta", "hashes"} : Of(q, u) \in overtaken =>
            \/ Of(q, u) \in overtaken'
            \/ Coming(Of(q, u))' /\ (u = "meta" => plugin[q] \in Describing)
    BY <1>1, <1>a, RebuildsOf
  <2>5. \A b \in RebuildsAt(q) \cap Open : b \in pending \cup overtaken => b \in (pending \cup overtaken)'
    BY <1>1, <1>5 DEF Followed
  <2>6. Untouched(q)
    BY <2>1, <2>3, <2>4, <2>5 DEF Untouched
  <2> QED
    BY <2>6, UntouchedSources DEF SourcesInv
<1> QED
  BY <1>1, <1>3, <1>4, <1>6, <1>7 DEF SourcesInv

(* The plugin is replaced, nothing is cleared and everything is enqueued.  *)
LEMMA RevalidateInv ==
    ASSUME MetaInv, NEW r \in Res, NEW p \in Plugins, Revalidate(r, p)
    PROVE  MetaInv'
<1> USE DEF MetaInv
<1>1. /\ plugin' = [plugin EXCEPT ![r] = p] /\ Enqueue(r, Units)
      /\ overtaken' = (overtaken \cup Left(r)) \ Mended(r, p)
      /\ UNCHANGED <<meta, marker, rows, rebuild, hashesInFlight, clearing>>
  BY DEF Revalidate
<1>2. /\ QueueInv' /\ rebuildFailures' = rebuildFailures
      /\ pending \subseteq pending'
      /\ \A k \in Keys : queue'[k] = queue[k] \/ (queue[k] = "idle" /\ queue'[k] \in {"started", "waiting"})
      /\ \A k \in Asked(r, Units) :
             k \in Keys /\ Coming(k)' /\ (queue[k] # "idle" => k \in pending')
  BY <1>1, Enqueues
<1>3. Open' = Open /\ Hashers' = Hashers
  BY <1>1 DEF Open, Hashers
<1>4. /\ plugin'[r] = p /\ \A q \in Res \ {r} : plugin'[q] = plugin[q]
      /\ plugin' \in [Res -> Plugins]
  BY <1>1 DEF RowInv
<1>5. RowInv'
  <2>1. \A k \in Keys : rebuild'[k] # Absent => queue'[k] = "running"
    BY <1>1, <1>2 DEF RowInv
  <2> QED
    BY <2>1, <1>1, <1>4 DEF RowInv, Left
<1>6. HashInv' /\ ContextInv'
  BY <1>1, <1>3 DEF HashInv, ContextInv
<1>7. \A b \in Mended(r, p) : b \in Asked(r, Units) /\ b \in Keys /\ b[1] = r /\ (b[2] = "meta" => p \in Describing)
  BY <1>2 DEF Mended, Asked
<1>8. \A b \in Open : b[1] = r => b \in overtaken' \/ Followed(b)'
  <2> SUFFICES ASSUME NEW b \in Open, b[1] = r, b \in Mended(r, p)
               PROVE  Followed(b)'
    BY <1>1 DEF Left, Open
  <2>1. queue[b] = "running"
    BY <1>7 DEF RowInv, Open
  <2> QED
    BY <2>1, <1>2, <1>4, <1>7 DEF Followed
<1>9. OldInv'
  <2> SUFFICES ASSUME NEW b \in Open, b[1] # r, rebuild[b].plugin # plugin'[b[1]]
               PROVE  b \in overtaken' \/ Followed(b)'
    BY <1>1, <1>3, <1>8 DEF OldInv
  <2>1. plugin'[b[1]] = plugin[b[1]]
    BY <1>4, RebuildsOf DEF Open
  <2> QED
    BY <2>1, <1>1, <1>2, <1>7 DEF OldInv, Followed
<1>10. ASSUME NEW q \in Res
       PROVE  SourcesOf(q)'
  <2>1. CASE q # r
    <3>1. \A b \in RebuildsAt(q) : b \notin Mended(r, p)
      BY <2>1, <1>7, RebuildsOf
    <3>2. \A u \in {"meta", "hashes"} : Coming(Of(q, u)) => Coming(Of(q, u))'
      BY <1>2, RebuildsOf DEF Coming
    <3>3. Untouched(q)
      BY <2>1, <3>1, <3>2, <1>1, <1>2, <1>4 DEF Untouched, RebuildsAt
    <3> QED
      BY <3>3, UntouchedSources DEF SourcesInv
  <2>2. CASE q = r
    <3>1. \A u \in {"meta", "hashes"} : Of(r, u) \in Keys /\ Of(r, u) \in Rebuilds /\ Of(r, u)[1] = r /\ Of(r, u)[2] = u
      BY RebuildsOf
    <3>2. MetaOf(r)'
      <4> SUFFICES ASSUME Of(r, "meta") \notin overtaken'
                   PROVE  MetaSound(r)' \/ (plugin'[r] \in Describing /\ Coming(Of(r, "meta"))')
        BY DEF MetaOf
      <4>1. CASE Of(r, "meta") \in Mended(r, p)
        BY <4>1, <3>1, <1>2, <1>4, <1>7
      <4>2. CASE Of(r, "meta") \notin Mended(r, p)
        <5>1. meta[r] = Absent
          BY <4>2, <3>1, <1>1 DEF Left
        <5> QED
          BY <5>1, <1>1 DEF MetaSound
      <4> QED
        BY <4>1, <4>2
    <3>3. HashedOf(r)'
      <4> SUFFICES ASSUME Of(r, "hashes") \notin overtaken'
                   PROVE  HashesSound(r)' \/ Coming(Of(r, "hashes"))'
        BY DEF HashedOf
      <4>1. CASE Of(r, "hashes") \in Mended(r, p)
        BY <4>1, <1>2, <1>7
      <4>2. CASE Of(r, "hashes") \notin Mended(r, p)
        <5>1. marker[r] = Absent
          BY <4>2, <3>1, <1>1 DEF Left
        <5> QED
          BY <5>1, <1>1 DEF HashesSound
      <4> QED
        BY <4>1, <4>2
    <3>4. PassedOf(r)'
      <4>1. \A b \in RebuildsAt(r) \cap Open : b \in overtaken' \/ b \in pending'
        BY <1>8, RebuildsOf DEF Followed
      <4>2. \A b \in RebuildsAt(r) : Passed(b, r)'
        BY <4>1, <1>3 DEF Passed
      <4>3. PagesOf(r) \cap pending' = {}
        BY <1>2, RebuildsOf DEF QueueInv
      <4>4. PagesOf(r)' = PagesOf(r)
        BY DEF PagesOf
      <4>5. PagesOwn(r)' => PagesOf(r) \cap Open' = {}
        BY <4>1, <4>3, <4>4, <1>3 DEF PagesOwn, RebuildsAt
      <4> QED
        BY <4>2, <4>4, <4>5 DEF PassedOf, RebuildsAt
    <3> QED
      BY <2>2, <3>2, <3>3, <3>4 DEF SourcesOf
  <2> QED
    BY <2>1, <2>2
<1> QED
  BY <1>2, <1>5, <1>6, <1>9, <1>10 DEF SourcesInv

(* A rebuild is opened: by a task that has its slot, or by a page.         *)
LEMMA OpensContexts ==
    ASSUME MetaInv, NEW b \in Rebuilds, rebuild[b] = Absent,
           NEW units \in SUBSET Units, OpenContext(b, units),
           b \in Keys => units = {b[2]},
           b \in Views => units = Missing(b[1]),
           UNCHANGED <<plugin, meta, marker, pending, overtaken>>,
           \A k \in Keys \ {b} : queue'[k] = queue[k]
    PROVE  ContextInv' /\ OldInv' /\ SourcesInv'
<1> USE DEF MetaInv
<1> DEFINE r == b[1]
           c == rebuild'[b]
           clears == "hashes" \in units /\ r \notin hashesInFlight /\ plugin[r] \notin Hashing
<1>1. /\ Open' = Open \cup {b} /\ HashInv'
      /\ \A a \in Rebuilds \ {b} : rebuild'[a] = rebuild[a]
      /\ c.plugin = plugin[r] /\ c.meta = meta[r] /\ c.marker = marker[r]
      /\ "meta" \in c.todo <=> "meta" \in units
      /\ "hashes" \in c.todo <=>
             "hashes" \in units /\ r \notin hashesInFlight /\ plugin[r] \in Hashing
      /\ c.todo \subseteq units
      /\ c.patch = IF clears /\ marker[r] # Absent THEN {"hashes"} ELSE {}
      /\ \A q \in Res \ {r} : rows'[q] = rows[q]
      /\ rows'[r] = IF clears THEN Absent ELSE rows[r]
  BY Opens
<1>2. /\ r \in Res /\ b \notin Open /\ Open \subseteq Rebuilds
      /\ b \in Keys \/ b \in Views
  BY RebuildsOf DEF Open
<1>3. b \in Views /\ "hashes" \in units => marker[r] = Absent /\ plugin[r] \in Hashing
  BY DEF Missing
<1> HIDE DEF c, clears
<1>4. c.patch # {} => clears /\ c.patch = {"hashes"}
  BY <1>1
<1>5. ContextInv'
  <2> SUFFICES ASSUME NEW a \in Open'
               PROVE  /\ a \in Keys => rebuild'[a].todo \cup rebuild'[a].patch \subseteq {a[2]}
                      /\ "hashes" \in rebuild'[a].todo => rebuild'[a].plugin \in Hashing
                      /\ a \in Views =>
                            /\ "hashes" \in rebuild'[a].todo => rebuild'[a].marker = Absent
                            /\ "hashes" \in rebuild'[a].patch => rebuild'[a].plugin \in Hashing
    BY DEF ContextInv
  <2>1. CASE a = b
    BY <2>1, <1>1, <1>2, <1>3, <1>4 DEF c, clears
  <2>2. CASE a # b
    BY <2>2, <1>1, <1>2 DEF ContextInv
  <2> QED
    BY <2>1, <2>2
<1>6. OldInv'
  BY <1>1, <1>2 DEF OldInv, Followed, c
<1>7. ASSUME NEW q \in Res
      PROVE  SourcesOf(q)'
  <2>0. SourcesOf(q)
    BY DEF SourcesInv
  <2>1. CASE q # r
    <3>1. RebuildsAt(q) \subseteq Rebuilds \ {b} /\ Of(q, "meta") # b /\ Of(q, "hashes") # b
      BY <2>1, RebuildsOf
    <3>2. \A u \in {"meta", "hashes"} : Coming(Of(q, u)) => Coming(Of(q, u))'
      BY <3>1, RebuildsOf DEF Coming
    <3>3. rows'[q] = rows[q] /\ \A a \in RebuildsAt(q) : rebuild'[a] = rebuild[a]
      BY <2>1, <3>1, <1>1
    <3>4. Untouched(q)
      BY <3>2, <3>3 DEF Untouched
    <3> QED
      BY <2>0, <3>4, UntouchedSources
  <2>2. CASE q = r
    <3> DEFINE M == Of(r, "meta")
               H == Of(r, "hashes")
               P == PagesOf(r)
    <3>1. /\ M \in Keys /\ H \in Keys /\ P \subseteq Views /\ P \cap Keys = {} /\ P' = P
          /\ {M, H} \cup P \subseteq Rebuilds /\ b \in {M, H} \cup P
          /\ M # H /\ M \notin P /\ H \notin P
          /\ M[1] = r /\ H[1] = r /\ M[2] = "meta" /\ H[2] = "hashes"
      BY <1>1, <1>2, RebuildsOf DEF RebuildsAt, Open, PagesOf
    <3>2. /\ b # M /\ Coming(M) => Coming(M)'
          /\ b # H /\ Coming(H) => Coming(H)'
      BY <3>1 DEF Coming
    <3>3. \A a \in {M, H} \cup P : a # b => rebuild'[a] = rebuild[a] /\ (a \in Open' <=> a \in Open)
      BY <3>1, <1>1
    <3>4. \A a \in Hashers : a[1] \in hashesInFlight
      BY DEF HashInv
    <3>5. P \cap pending = {}
      BY <3>1 DEF QueueInv
    <3>p. PagesOwn(r)' <=> PagesOwn(r)
      BY DEF PagesOwn, PagesOf
    <3> HIDE DEF M, H, P
    <3>6. MetaOf(r)'
      <4> SUFFICES ASSUME M \notin overtaken, PagesOwn(r), ~MetaSound(r)
                   PROVE  plugin[r] \in Describing /\ (Coming(M)' \/ MetaMends(M)')
        BY <3>p DEF MetaOf, MetaSound, M
      <4>1. plugin[r] \in Describing /\ (Coming(M) \/ MetaMends(M))
        BY <2>0, <2>2 DEF SourcesOf, MetaOf, M
      <4>2. CASE b = M
        BY <4>1, <4>2, <1>1, <3>1 DEF MetaMends, MetaSound, c
      <4>3. CASE b # M
        BY <4>1, <4>3, <3>1, <3>2, <3>3 DEF MetaMends
      <4> QED
        BY <4>2, <4>3
    <3>7. plugin[r] \in Hashing => rows'[r] = rows[r]
      BY <1>1 DEF clears
    <3>8. PassedOf(r)'
      <4> SUFFICES ASSUME PagesOwn(r)
                   PROVE  /\ \A a \in {H} \cup P : Passed(a, r)'
                          /\ H \in Hashers' =>
                                \A v \in P \cap Open' :
                                    "hashes" \in rebuild'[v].todo \cup rebuild'[v].patch
                                        => rebuild'[H].plugin = plugin'[r]
        BY <3>1, <3>p DEF PassedOf, H, P
      <4>1. /\ \A a \in {H} \cup P : Passed(a, r)
            /\ H \in Hashers =>
                  \A v \in P \cap Open :
                      "hashes" \in rebuild[v].todo \cup rebuild[v].patch => rebuild[H].plugin = plugin[r]
        BY <2>0, <2>2 DEF SourcesOf, PassedOf, H, P
      <4>2. \A a \in {H} \cup P : Passed(a, r) => Passed(a, r)'
        <5> SUFFICES ASSUME NEW a \in {H} \cup P, Passed(a, r), a \in Open',
                            "hashes" \in rebuild'[a].patch, plugin[r] \in Hashing, a \notin pending \cup overtaken
                     PROVE  rows'[r] = plugin[r]
          BY DEF Passed
        <5>1. a # b
          BY <1>4 DEF c, clears
        <5> QED
          BY <5>1, <3>3, <3>7 DEF Passed
      <4>3. ASSUME NEW v \in P, v \in Open', H \in Hashers',
                   "hashes" \in rebuild'[v].todo \cup rebuild'[v].patch
            PROVE  rebuild'[H].plugin = plugin[r]
        <5>1. CASE b = H
          BY <5>1, <1>1 DEF c
        <5>2. CASE b = v
          <6>1. H \in Hashers
            BY <4>3, <5>2, <3>1, <3>3 DEF Hashers
          <6>2. r \in hashesInFlight
            BY <6>1, <3>1, <3>4
          <6>3. "hashes" \notin rebuild'[v].todo \cup rebuild'[v].patch
            BY <6>2, <5>2, <1>1, <1>4 DEF c, clears
          <6> QED
            BY <4>3, <6>3
        <5>3. CASE b # H /\ b # v
          BY <4>1, <4>3, <5>3, <3>1, <3>3 DEF Hashers
        <5> QED
          BY <5>1, <5>2, <5>3
      <4> QED
        BY <4>1, <4>2, <4>3
    <3>9. HashedOf(r)'
      <4> SUFFICES ASSUME H \notin overtaken, PagesOwn(r), ~Coming(H)'
                   PROVE  HashesSound(r)' \/ \E a \in {H} \cup P : HashesMends(a, r)'
        BY <3>1, <3>p DEF HashedOf, H, P
      <4>1. HashesSound(r) \/ Coming(H) \/ \E a \in {H} \cup P : HashesMends(a, r)
        BY <2>0, <2>2 DEF SourcesOf, HashedOf, H, P
      <4>2. CASE b = H
        <5>1. units = {"hashes"} /\ b \in Open'
          BY <4>2, <3>1, <1>1
        <5>2. CASE r \notin hashesInFlight /\ plugin[r] \in Hashing
          BY <4>2, <5>1, <5>2, <1>1 DEF HashesMends, c
        <5>3. CASE r \notin hashesInFlight /\ plugin[r] \notin Hashing
          <6>1. clears
            BY <5>1, <5>3 DEF clears
          <6>2. marker[r] # Absent => "hashes" \in c.patch
            BY <6>1, <1>1
          <6> QED
            BY <4>2, <5>1, <6>2, <1>1 DEF HashesMends, HashesSound, c
        <5>4. CASE r \in hashesInFlight
          <6>1. PICK a \in Hashers : a[1] = r
            BY <5>4 DEF HashInv
          <6>2. a \in Open /\ "hashes" \in rebuild[a].todo /\ a \in Rebuilds
            BY <6>1, <1>2 DEF Hashers
          <6>3. a \in P /\ a # b
            <7>1. a # b
              BY <6>2, <1>2
            <7>2. a # M
              BY <6>2, <3>1 DEF ContextInv
            <7>3. a \in {M, H} \cup P
              BY <6>1, <6>2, RebuildsOf DEF M, H, P, RebuildsAt
            <7> QED
              BY <7>1, <7>2, <7>3, <4>2
          <6>4. rebuild[a].plugin = plugin[r] /\ rebuild[a].marker = Absent
            BY <6>1, <6>2, <6>3, <3>1, <3>5 DEF OldInv, Followed, ContextInv, PagesOwn, P
          <6>5. plugin[r] # Absent
            BY <1>2, MetaAssumption DEF RowInv
          <6> QED
            BY <6>2, <6>3, <6>4, <6>5, <3>3 DEF HashesMends
        <5> QED
          BY <5>2, <5>3, <5>4
      <4>3. CASE b # H
        <5>1. rows'[r] = rows[r]
          <6>1. ~clears
            BY <4>3, <1>3, <3>1 DEF clears
          <6> QED
            BY <6>1, <1>1
        <5>2. HashesSound(r) => HashesSound(r)'
          BY <5>1 DEF HashesSound
        <5>3. \A a \in {H} \cup P : HashesMends(a, r) => HashesMends(a, r)'
          <6>1. \A a \in Open : a # b
            BY <1>2
          <6> QED
            BY <6>1, <3>3 DEF HashesMends
        <5> QED
          BY <4>1, <4>3, <5>2, <5>3, <3>2
      <4> QED
        BY <4>2, <4>3
    <3> QED
      BY <2>2, <3>6, <3>8, <3>9 DEF SourcesOf
  <2> QED
    BY <2>1, <2>2
<1> QED
  BY <1>5, <1>6, <1>7 DEF SourcesInv

LEMMA BeginInv ==
    ASSUME MetaInv, NEW k \in Keys, Begin(k)
    PROVE  MetaInv'
<1> USE DEF MetaInv
<1>1. /\ queue[k] \in {"started", "granted"} /\ queue' = [queue EXCEPT ![k] = "running"]
      /\ OpenContext(k, {k[2]}) /\ owed' = owed \ {k}
      /\ UNCHANGED <<plugin, meta, marker, pending, waiters, rebuildFailures, clearing, overtaken>>
  BY DEF Begin
<1>2. /\ k \in Rebuilds /\ rebuild[k] = Absent /\ {k[2]} \in SUBSET Units /\ k \notin Views
      /\ queue'[k] = "running" /\ \A q \in Keys \ {k} : queue'[q] = queue[q]
      /\ queue' \in QueueType
  BY <1>1, RebuildsOf DEF Rebuilds, RowInv, QueueInv, QueueType, Keys
<1>3. QueueInv'
  <2>1. Held' = Held
    BY <1>1, <1>2 DEF Held
  <2>2. Waiting'
    BY <1>1, <1>2 DEF QueueInv, Waiting
  <2>3. SlotsHeld'
    BY <2>1, <1>1 DEF SlotsHeld, QueueInv
  <2> QED
    BY <2>2, <2>3, <1>1, <1>2 DEF QueueInv
<1>4. /\ rebuild' \in [Rebuilds -> Optional(Contexts)]
      /\ rows' \in [Res -> Optional(Plugins)]
      /\ hashesInFlight' \subseteq Res /\ HashInv'
      /\ \A a \in Rebuilds \ {k} : rebuild'[a] = rebuild[a]
  BY <1>1, <1>2, Opens
<1>5. RowInv'
  <2>1. \A q \in Keys : rebuild'[q] # Absent => queue'[q] = "running"
    BY <1>2, <1>4 DEF RowInv, Rebuilds
  <2> QED
    BY <2>1, <1>1, <1>4 DEF RowInv
<1>6. ContextInv' /\ OldInv' /\ SourcesInv'
  BY <1>1, <1>2, OpensContexts
<1> QED
  BY <1>3, <1>4, <1>5, <1>6

(* The detail page.                                                        *)
LEMMA ViewInv ==
    ASSUME MetaInv, NEW b \in Views, View(b)
    PROVE  MetaInv'
<1> USE DEF MetaInv
<1>1. /\ rebuild[b] = Absent /\ OpenContext(b, Missing(b[1]))
      /\ UNCHANGED <<plugin, meta, marker, queue, pending, waiters, rebuildFailures, clearing, owed, overtaken>>
  BY DEF View, tasks, history
<1>2. b \in Rebuilds /\ b \notin Keys /\ Missing(b[1]) \in SUBSET Units
  BY RebuildsOf DEF Missing, Rebuilds
<1>3. QueueInv'
  BY <1>1 DEF QueueInv, Waiting, SlotsHeld, Held
<1>4. /\ rebuild' \in [Rebuilds -> Optional(Contexts)]
      /\ rows' \in [Res -> Optional(Plugins)]
      /\ hashesInFlight' \subseteq Res /\ HashInv'
      /\ \A a \in Rebuilds \ {b} : rebuild'[a] = rebuild[a]
  BY <1>1, <1>2, Opens
<1>5. RowInv'
  <2>1. \A q \in Keys : rebuild'[q] # Absent => queue'[q] = "running"
    BY <1>1, <1>2, <1>4 DEF RowInv, Rebuilds
  <2> QED
    BY <2>1, <1>1, <1>4 DEF RowInv
<1>6. ContextInv' /\ OldInv' /\ SourcesInv'
  BY <1>1, <1>2, OpensContexts
<1> QED
  BY <1>3, <1>4, <1>5, <1>6

(* A rebuild is written and closed: that of a task that ends, or of a page.*)
LEMMA ClosesContexts ==
    ASSUME MetaInv, NEW b \in Rebuilds, ApplyPatch(b),
           UNCHANGED <<plugin, rows, hashesInFlight, pending, overtaken>>,
           \A k \in Keys : Coming(k) => Coming(k)'
    PROVE  ContextInv' /\ OldInv' /\ SourcesInv'
<1> USE DEF MetaInv
<1> DEFINE r == b[1]
           c == rebuild[b]
<1>1. /\ b \in Open /\ c.todo = {}
      /\ Open' = Open \ {b} /\ Hashers' = Hashers
      /\ rebuild'[b] = Absent /\ \A a \in Rebuilds \ {b} : rebuild'[a] = rebuild[a]
      /\ \A q \in Res \ {r} : meta'[q] = meta[q] /\ marker'[q] = marker[q]
      /\ meta'[r] = IF "meta" \in c.patch THEN c.plugin ELSE meta[r]
      /\ marker'[r] = IF "hashes" \in c.patch
                      THEN IF c.plugin \in Hashing THEN c.plugin ELSE Absent ELSE marker[r]
  BY Closes
<1>2. r \in Res /\ c.plugin \in Plugins /\ Open \subseteq Rebuilds
  BY <1>1, RebuildsOf, ContextType DEF Open
<1>3. ContextInv'
  BY <1>1, <1>2 DEF ContextInv
<1>4. OldInv'
  BY <1>1, <1>2 DEF OldInv, Followed
<1>5. ASSUME NEW q \in Res
      PROVE  SourcesOf(q)'
  <2>0. SourcesOf(q)
    BY DEF SourcesInv
  <2>1. CASE q # r
    <3>1. RebuildsAt(q) \subseteq Rebuilds \ {b}
      BY <2>1, RebuildsOf
    <3>2. \A u \in {"meta", "hashes"} : Coming(Of(q, u)) => Coming(Of(q, u))'
      BY RebuildsOf
    <3>3. /\ meta'[q] = meta[q] /\ marker'[q] = marker[q]
          /\ \A a \in RebuildsAt(q) : rebuild'[a] = rebuild[a]
      BY <2>1, <3>1, <1>1
    <3>4. Untouched(q)
      BY <3>2, <3>3 DEF Untouched
    <3> QED
      BY <2>0, <3>4, UntouchedSources
  <2>2. CASE q = r
    <3> DEFINE M == Of(r, "meta")
               H == Of(r, "hashes")
               P == PagesOf(r)
    <3>1. /\ M \in Keys /\ H \in Keys /\ P \subseteq Views /\ P \cap Keys = {} /\ P' = P
          /\ {M, H} \cup P \subseteq Rebuilds /\ b \in {M, H} \cup P
          /\ M # H /\ M \notin P /\ H \notin P
          /\ M[1] = r /\ H[1] = r /\ M[2] = "meta" /\ H[2] = "hashes"
      BY <1>1, <1>2, RebuildsOf DEF RebuildsAt, Open, PagesOf
    <3>2. (Coming(M) => Coming(M)') /\ (Coming(H) => Coming(H)')
      BY <3>1
    <3>3. \A a \in {M, H} \cup P : a # b => rebuild'[a] = rebuild[a] /\ (a \in Open' <=> a \in Open)
      BY <3>1, <1>1
    <3>4. Followed(b) \/ b \in overtaken \/ c.plugin = plugin[r]
      BY <1>1 DEF OldInv
    <3>5. P \cap pending = {}
      BY <3>1 DEF QueueInv
    <3>6. b = M => "hashes" \notin c.patch
      BY <3>1, <1>1 DEF ContextInv
    <3>7. b = H => "meta" \notin c.patch
      BY <3>1, <1>1 DEF ContextInv
    <3>8. b \in P /\ "hashes" \in c.patch => c.plugin \in Hashing
      BY <3>1, <1>1 DEF ContextInv
    <3>p. PagesOwn(r)' <=> PagesOwn(r)
      BY DEF PagesOwn, PagesOf
    <3> HIDE DEF M, H, P
    <3>9. MetaOf(r)'
      <4> SUFFICES ASSUME M \notin overtaken, PagesOwn(r)
                   PROVE  \/ MetaSound(r)'
                          \/ plugin[r] \in Describing /\ (Coming(M)' \/ MetaMends(M)')
        BY <3>p DEF MetaOf, M
      <4>1. MetaSound(r) \/ (plugin[r] \in Describing /\ (Coming(M) \/ MetaMends(M)))
        BY <2>0, <2>2 DEF SourcesOf, MetaOf, M
      <4>2. b \in P => c.plugin = plugin[r]
        BY <3>4, <3>5 DEF Followed, PagesOwn, P
      <4>3. CASE "meta" \in c.patch
        <5>1. CASE c.plugin = plugin[r]
          BY <4>3, <5>1, <1>1 DEF MetaSound
        <5>2. CASE c.plugin # plugin[r]
          <6>1. b = M
            BY <4>2, <4>3, <5>2, <3>1, <3>7
          <6>2. plugin[r] \in Describing /\ M \in pending
            BY <6>1, <5>2, <3>1, <3>4 DEF Followed
          <6> QED
            BY <6>2, <3>2 DEF Coming
        <5> QED
          BY <5>1, <5>2
      <4>4. CASE "meta" \notin c.patch
        <5>1. meta'[r] = meta[r]
          BY <4>4, <1>1
        <5>2. MetaMends(M) => MetaMends(M)'
          BY <4>4, <1>1, <3>1, <3>3 DEF MetaMends
        <5> QED
          BY <4>1, <5>1, <5>2, <3>2 DEF MetaSound
      <4> QED
        BY <4>3, <4>4
    <3>10. PassedOf(r)'
      <4> SUFFICES ASSUME PagesOwn(r)
                   PROVE  /\ \A a \in {H} \cup P : Passed(a, r)'
                          /\ H \in Hashers' =>
                                \A v \in P \cap Open' :
                                    "hashes" \in rebuild'[v].todo \cup rebuild'[v].patch
                                        => rebuild'[H].plugin = plugin'[r]
        BY <3>1, <3>p DEF PassedOf, H, P
      <4>1. /\ \A a \in {H} \cup P : Passed(a, r)
            /\ H \in Hashers =>
                  \A v \in P \cap Open :
                      "hashes" \in rebuild[v].todo \cup rebuild[v].patch => rebuild[H].plugin = plugin[r]
        BY <2>0, <2>2 DEF SourcesOf, PassedOf, H, P
      <4>2. b \notin Open' /\ b \notin Hashers
        BY <1>1 DEF Hashers
      <4> QED
        BY <4>1, <4>2, <1>1, <3>1, <3>3 DEF Passed
    <3>11. HashedOf(r)'
      <4> SUFFICES ASSUME H \notin overtaken, PagesOwn(r), ~Coming(H)'
                   PROVE  HashesSound(r)' \/ \E a \in {H} \cup P : HashesMends(a, r)'
        BY <3>1, <3>p DEF HashedOf, H, P
      <4>1. HashesSound(r) \/ \E a \in {H} \cup P : HashesMends(a, r)
        BY <2>0, <2>2, <3>2 DEF SourcesOf, HashedOf, H, P
      <4>2. b \in {H} \cup P => c.plugin = plugin[r]
        BY <3>2, <3>4, <3>5 DEF Coming, Followed, PagesOwn, P
      <4>3. CASE "hashes" \in c.patch
        <5>1. b \in {H} \cup P /\ c.plugin = plugin[r]
          BY <4>2, <4>3, <3>1, <3>6
        <5>2. Passed(b, r)
          BY <5>1, <2>0, <2>2 DEF SourcesOf, PassedOf, H, P
        <5>3. b \notin pending \cup overtaken
          BY <5>1, <3>2, <3>5 DEF Coming, PagesOwn, P
        <5>4. plugin[r] \in Hashing => rows[r] = plugin[r]
          BY <4>3, <5>2, <5>3, <1>1 DEF Passed
        <5> QED
          BY <4>3, <5>1, <5>4, <1>1 DEF HashesSound
      <4>4. CASE "hashes" \notin c.patch
        <5>1. marker'[r] = marker[r]
          BY <4>4, <1>1
        <5>2. \A a \in {H} \cup P : HashesMends(a, r) => HashesMends(a, r)'
          BY <4>4, <5>1, <1>1, <3>3 DEF HashesMends
        <5> QED
          BY <4>1, <5>1, <5>2 DEF HashesSound
      <4> QED
        BY <4>3, <4>4
    <3> QED
      BY <2>2, <3>9, <3>10, <3>11 DEF SourcesOf
  <2> QED
    BY <2>1, <2>2
<1> QED
  BY <1>3, <1>4, <1>5 DEF SourcesInv

LEMMA ViewEndsInv ==
    ASSUME MetaInv, NEW b \in Views, ViewEnds(b)
    PROVE  MetaInv'
<1> USE DEF MetaInv
<1>1. /\ ApplyPatch(b)
      /\ UNCHANGED <<plugin, rows, hashesInFlight, queue, pending, waiters, rebuildFailures, clearing, owed, overtaken>>
  BY DEF ViewEnds, tasks, history
<1>2. b \in Rebuilds /\ b \notin Keys
  BY RebuildsOf DEF Rebuilds
<1>3. QueueInv'
  BY <1>1 DEF QueueInv, Waiting, SlotsHeld, Held
<1>4. /\ rebuild' \in [Rebuilds -> Optional(Contexts)]
      /\ meta' \in [Res -> Optional(Plugins)]
      /\ marker' \in [Res -> Optional(Plugins)] /\ HashInv'
      /\ \A a \in Rebuilds \ {b} : rebuild'[a] = rebuild[a]
  BY <1>1, <1>2, Closes
<1>5. RowInv'
  <2>1. \A q \in Keys : rebuild'[q] # Absent => queue'[q] = "running"
    BY <1>1, <1>2, <1>4 DEF RowInv, Rebuilds
  <2> QED
    BY <2>1, <1>1, <1>4 DEF RowInv
<1>6. ContextInv' /\ OldInv' /\ SourcesInv'
  BY <1>1, <1>2, ClosesContexts DEF Coming
<1> QED
  BY <1>3, <1>4, <1>5, <1>6

(* A task ends and hands its slot to the first that waits.                 *)
LEMMA FinishInv ==
    ASSUME MetaInv, NEW k \in Keys, Finish(k)
    PROVE  MetaInv'
<1> USE DEF MetaInv
<1>1. /\ queue[k] = "running" /\ ApplyPatch(k)
      /\ rebuildFailures' \subseteq rebuildFailures \cup {k}
      /\ queue' = [q \in Keys |-> IF q = k THEN "ended"
                      ELSE IF waiters # <<>> /\ q = waiters[1] THEN "granted" ELSE queue[q]]
      /\ waiters' = IF waiters = <<>> THEN waiters ELSE Tail(waiters)
      /\ UNCHANGED <<plugin, rows, hashesInFlight, pending, clearing, owed, overtaken>>
  BY DEF Finish, history
<1>2. k \in Rebuilds
  BY DEF Rebuilds
<1>3. waiters \in Seq(Keys) /\ Distinct(waiters) /\ \A i \in DOMAIN waiters : queue[waiters[i]] = "waiting"
  BY DEF QueueInv, Waiting
<1>4. waiters # <<>> => /\ waiters[1] \in Keys /\ 1 \in DOMAIN waiters /\ queue[waiters[1]] = "waiting"
                        /\ waiters' \in Seq(Keys) /\ DOMAIN waiters' = 1..Len(waiters')
                        /\ \A i \in 1..Len(waiters') : i + 1 \in DOMAIN waiters /\ waiters'[i] = waiters[i + 1]
  <2> SUFFICES ASSUME waiters # <<>>
               PROVE  /\ waiters[1] \in Keys /\ 1 \in DOMAIN waiters /\ queue[waiters[1]] = "waiting"
                      /\ waiters' \in Seq(Keys) /\ DOMAIN waiters' = 1..Len(waiters')
                      /\ \A i \in 1..Len(waiters') : i + 1 \in DOMAIN waiters /\ waiters'[i] = waiters[i + 1]
    OBVIOUS
  <2>1. 1 \in DOMAIN waiters /\ DOMAIN waiters = 1..Len(waiters)
    BY <1>3
  <2>2. /\ Tail(waiters) \in Seq(Keys) /\ Len(Tail(waiters)) = Len(waiters) - 1
        /\ \A i \in 1..Len(Tail(waiters)) : Tail(waiters)[i] = waiters[i + 1]
    BY <1>3, HeadTailProperties
  <2>3. waiters' = Tail(waiters)
    BY <1>1
  <2>4. \A i \in 1..Len(waiters') : i + 1 \in 1..Len(waiters)
    BY <2>2, <2>3, <1>3
  <2> QED
    BY <2>1, <2>2, <2>3, <2>4, <1>3
<1>5. queue' \in QueueType
  BY <1>1 DEF QueueInv, QueueType
<1>6. Waiting'
  <2>1. CASE waiters = <<>>
    BY <2>1, <1>1, <1>3 DEF Waiting, Distinct
  <2>2. CASE waiters # <<>>
    <3>1. \A i, j \in DOMAIN waiters' : waiters'[i] = waiters'[j] => i = j
      BY <2>2, <1>3, <1>4 DEF Distinct
    <3>2. \A i \in DOMAIN waiters' : queue'[waiters'[i]] = "waiting"
      <4> SUFFICES ASSUME NEW i \in DOMAIN waiters'
                   PROVE  queue'[waiters'[i]] = "waiting"
        OBVIOUS
      <4>1. i + 1 \in DOMAIN waiters /\ waiters'[i] = waiters[i + 1] /\ i + 1 # 1
        BY <2>2, <1>4
      <4>2. waiters[i + 1] # waiters[1] /\ queue[waiters[i + 1]] = "waiting" /\ waiters[i + 1] \in Keys
        BY <2>2, <4>1, <1>3, <1>4 DEF Distinct
      <4> QED
        BY <4>1, <4>2, <1>1
    <3> QED
      BY <2>2, <3>1, <3>2, <1>4 DEF Waiting, Distinct
  <2> QED
    BY <2>1, <2>2
<1>7. SlotsHeld'
  <2>1. CASE waiters = <<>>
    BY <2>1, <1>1 DEF SlotsHeld
  <2>2. CASE waiters # <<>>
    <3>1. Held' = (Held \ {k}) \cup {waiters[1]}
      BY <2>2, <1>1, <1>4 DEF Held
    <3>2. k \in Held /\ waiters[1] \notin Held \ {k} /\ IsFiniteSet(Held)
      BY <2>2, <1>1, <1>4, KeysAreFinite, FS_Subset DEF Held
    <3>3. IsFiniteSet(Held \ {k}) /\ Cardinality(Held \ {k}) = Cardinality(Held) - 1
      BY <3>2, FS_RemoveElement
    <3>4. Cardinality(Held') = Cardinality(Held) - 1 + 1
      BY <3>1, <3>2, <3>3, FS_AddElement
    <3>5. Cardinality(Held) \in Nat
      BY <3>2, FS_CardinalityType
    <3>6. Cardinality(Held') = Cardinality(Held)
      BY <3>4, <3>5
    <3> QED
      BY <2>2, <3>6 DEF SlotsHeld, QueueInv
  <2> QED
    BY <2>1, <2>2
<1>8. QueueInv'
  <2>1. \A q \in pending' : queue'[q] # "idle"
    BY <1>1 DEF QueueInv
  <2> QED
    BY <2>1, <1>1, <1>5, <1>6, <1>7 DEF QueueInv
<1>9. /\ rebuild' \in [Rebuilds -> Optional(Contexts)]
      /\ meta' \in [Res -> Optional(Plugins)]
      /\ marker' \in [Res -> Optional(Plugins)] /\ HashInv'
      /\ rebuild'[k] = Absent /\ \A a \in Rebuilds \ {k} : rebuild'[a] = rebuild[a]
  BY <1>1, <1>2, Closes
<1>10. RowInv'
  <2>1. \A q \in Keys : rebuild'[q] # Absent => queue'[q] = "running"
    <3> SUFFICES ASSUME NEW q \in Keys, rebuild'[q] # Absent
                 PROVE  queue'[q] = "running"
      OBVIOUS
    <3>1. q # k /\ queue[q] = "running"
      BY <1>9 DEF RowInv, Rebuilds
    <3> QED
      BY <3>1, <1>1, <1>4
  <2> QED
    BY <2>1, <1>1, <1>9 DEF RowInv
<1>11. \A q \in Keys : Coming(q) => Coming(q)'
  BY <1>1 DEF Coming
<1>12. ContextInv' /\ OldInv' /\ SourcesInv'
  BY <1>1, <1>2, <1>11, ClosesContexts
<1> QED
  BY <1>8, <1>9, <1>10, <1>12

(* The queue goes on: with the task to follow, if there is one.            *)
LEMMA FollowInv ==
    ASSUME MetaInv, NEW k \in Keys, Follow(k)
    PROVE  MetaInv'
<1> USE DEF MetaInv
<1>1. /\ queue[k] = "ended" /\ pending' = pending \ {k}
      /\ IF k \in pending THEN Schedule(<<k>>)
         ELSE queue' = [queue EXCEPT ![k] = "idle"] /\ waiters' = waiters
      /\ UNCHANGED <<plugin, meta, marker, rows, rebuild, hashesInFlight, rebuildFailures, clearing, owed, overtaken>>
  BY DEF Follow, record, history
<1>2. /\ queue' \in QueueType /\ Waiting' /\ SlotsHeld'
      /\ k \in pending => queue'[k] \in {"started", "waiting"}
      /\ \A q \in Keys \ {k} : queue'[q] = queue[q]
  <2>1. CASE k \in pending
    <3> DEFINE keys == <<k>>
    <3>1. keys \in Seq(Keys) /\ DOMAIN keys = {1} /\ keys[1] = k
      OBVIOUS
    <3> HIDE DEF keys
    <3>2. Distinct(keys) /\ \A i \in DOMAIN keys : queue[keys[i]] \in {"idle", "ended"}
      BY <3>1, <1>1 DEF Distinct
    <3>3. Schedule(keys)
      BY <2>1, <1>1 DEF keys
    <3>4. /\ queue' \in QueueType /\ Waiting' /\ SlotsHeld'
          /\ \A i \in DOMAIN keys : queue'[keys[i]] \in {"started", "waiting"}
          /\ \A q \in Keys :
                 queue'[q] = queue[q] \/ \E i \in DOMAIN keys : keys[i] = q
      BY <3>1, <3>2, <3>3, Schedules
    <3> QED
      BY <3>1, <3>4
  <2>2. CASE k \notin pending
    <3>1. queue' = [queue EXCEPT ![k] = "idle"] /\ waiters' = waiters
      BY <2>2, <1>1
    <3>2. queue' \in QueueType
      BY <3>1 DEF QueueInv, QueueType
    <3>3. Held' = Held
      BY <3>1, <1>1 DEF Held, QueueInv, QueueType
    <3>4. Waiting'
      BY <3>1, <1>1 DEF QueueInv, Waiting, QueueType
    <3>5. SlotsHeld'
      BY <3>1, <3>3 DEF SlotsHeld, QueueInv
    <3>6. \A q \in Keys \ {k} : queue'[q] = queue[q]
      BY <3>1 DEF QueueInv, QueueType
    <3> QED
      BY <2>2, <3>2, <3>4, <3>5, <3>6
  <2> QED
    BY <2>1, <2>2
<1>3. QueueInv'
  BY <1>1, <1>2 DEF QueueInv
<1>4. k \notin Open
  BY <1>1 DEF RowInv, Open
<1>5. RowInv'
  <2>1. \A q \in Keys : rebuild'[q] # Absent => queue'[q] = "running"
    BY <1>1, <1>2 DEF RowInv
  <2> QED
    BY <2>1, <1>1 DEF RowInv
<1>6. Open' = Open /\ Hashers' = Hashers
  BY <1>1 DEF Open, Hashers
<1>7. HashInv' /\ ContextInv'
  BY <1>1, <1>6 DEF HashInv, ContextInv
<1>8. OldInv'
  BY <1>1, <1>4, <1>6 DEF OldInv, Followed
<1>9. ASSUME NEW q \in Res
      PROVE  SourcesOf(q)'
  <2>1. \A a \in Keys : Coming(a) => Coming(a)'
    BY <1>1, <1>2 DEF Coming
  <2>2. \A u \in {"meta", "hashes"} : Of(q, u) \in Keys
    BY RebuildsOf
  <2>3. Untouched(q)
    BY <1>1, <1>4, <2>1, <2>2 DEF Untouched
  <2> QED
    BY <2>3, UntouchedSources DEF SourcesInv
<1> QED
  BY <1>3, <1>5, <1>7, <1>8, <1>9 DEF SourcesInv

(* Nothing happens to a rebuild or a row.                                  *)
LEMMA QuietInv ==
    ASSUME MetaInv, rebuildFailures' \subseteq rebuildFailures, clearing' \subseteq clearing,
           UNCHANGED <<plugin, meta, marker, rows, rebuild, hashesInFlight, queue, pending, waiters, owed, overtaken>>
    PROVE  MetaInv'
<1> USE DEF MetaInv
<1>1. Open' = Open /\ Hashers' = Hashers
  BY DEF Open, Hashers
<1>2. QueueInv'
  BY DEF QueueInv, Waiting, SlotsHeld, Held
<1>3. RowInv'
  BY DEF RowInv
<1>4. HashInv' /\ ContextInv' /\ OldInv'
  BY <1>1 DEF HashInv, ContextInv, OldInv, Followed
<1>5. ASSUME NEW q \in Res
      PROVE  SourcesOf(q)'
  BY UntouchedSources DEF Untouched, Coming, SourcesInv
<1> QED
  BY <1>2, <1>3, <1>4, <1>5 DEF SourcesInv

LEMMA MetaInitially ==
    ASSUME MetaInit
    PROVE  MetaInv
<1> USE DEF MetaInit
<1>1. Open = {} /\ Hashers = {}
  BY DEF Open, Hashers
<1>2. QueueInv
  <2>1. Waiting
    BY DEF Waiting, Distinct
  <2> QED
    BY <2>1 DEF QueueInv, QueueType, SlotsHeld
<1>3. RowInv
  <2>1. /\ meta \in [Res -> {Absent, First}] /\ {Absent, First} \subseteq Optional(Plugins)
        /\ First \in Plugins
    BY MetaAssumption DEF Optional, MetaOfPlugin
  <2>2. \A r \in Res : marker[r] \in {Absent, First}
    BY DEF HashesOf
  <2>3. marker \in [Res -> Optional(Plugins)]
    BY <2>1, <2>2
  <2> QED
    BY <2>1, <2>3, MetaAssumption DEF RowInv, Optional, Rebuilds
<1>4. HashInv /\ ContextInv /\ OldInv
  BY <1>1 DEF HashInv, ContextInv, OldInv
<1>5. ASSUME NEW r \in Res
      PROVE  SourcesOf(r)
  BY <1>1 DEF SourcesOf, MetaOf, MetaSound, MetaOfPlugin, PassedOf, Passed, HashedOf, HashesSound, HashesOf
<1> QED
  BY <1>2, <1>3, <1>4, <1>5 DEF MetaInv, SourcesInv

LEMMA MetaInductive ==
    ASSUME MetaInv, [MetaNext]_metaVars
    PROVE  MetaInv'
<1>1. CASE UNCHANGED metaVars
  BY <1>1, QuietInv DEF metaVars, record, tasks, history
<1>2. ASSUME NEW b \in Rebuilds, NEW u \in Units, PassEnds(b, u)
      PROVE  MetaInv'
  BY <1>2, PassEndsInv
<1>3. ASSUME NEW b \in Views, ViewEnds(b)
      PROVE  MetaInv'
  BY <1>3, ViewEndsInv
<1>4. ASSUME NEW b \in Rebuilds, NEW u \in Units, PassFails(b, u)
      PROVE  MetaInv'
  BY <1>4, PassFailsInv
<1>5. ASSUME NEW k \in Keys, Task(k)
      PROVE  MetaInv'
  BY <1>5, BeginInv, FinishInv, FollowInv DEF Task
<1>6. ASSUME NEW k \in Keys, CooldownEnds(k)
      PROVE  MetaInv'
  BY <1>6, QuietInv DEF CooldownEnds, record, history
<1>7. ASSUME NEW b \in Views, View(b)
      PROVE  MetaInv'
  BY <1>7, ViewInv
<1>8. ASSUME NEW r \in Res, List(r)
      PROVE  MetaInv'
  <2>1. /\ Enqueue(r, Missing(r)) /\ Missing(r) \in SUBSET Units
        /\ UNCHANGED <<plugin, meta, marker, rows, rebuild, hashesInFlight, clearing, overtaken>>
    BY <1>8 DEF List, Missing, record
  <2>2. clearing' \subseteq Res
    BY <2>1 DEF MetaInv, RowInv
  <2> QED
    BY <2>1, <2>2, EnqueuesInv
<1>9. ASSUME NEW r \in Res, Replaced(r)
      PROVE  MetaInv'
  <2>1. /\ clearing' = clearing \ {r}
        /\ UNCHANGED <<plugin, meta, marker, rows, rebuild, hashesInFlight>>
        /\ \/ Enqueue(r, Units) /\ overtaken' = overtaken \ Mended(r, plugin[r])
           \/ UNCHANGED <<queue, pending, waiters, rebuildFailures, owed, overtaken>>
    BY <1>9 DEF Replaced, record, tasks, history
  <2>2. clearing' \subseteq Res /\ clearing' \subseteq clearing
    BY <2>1 DEF MetaInv, RowInv
  <2>3. CASE Enqueue(r, Units) /\ overtaken' = overtaken \ Mended(r, plugin[r])
    BY <2>1, <2>2, <2>3, EnqueuesInv
  <2>4. CASE UNCHANGED <<queue, pending, waiters, rebuildFailures, owed, overtaken>>
    BY <2>1, <2>2, <2>4, QuietInv
  <2> QED
    BY <2>1, <2>3, <2>4
<1>10. ASSUME NEW r \in Res, NEW p \in Plugins, Replace(r, p)
       PROVE  MetaInv'
  BY <1>10, ReplaceInv
<1>11. ASSUME NEW r \in Res, NEW p \in Plugins, Revalidate(r, p)
       PROVE  MetaInv'
  BY <1>11, RevalidateInv
<1> QED
  BY <1>1, <1>2, <1>3, <1>4, <1>5, <1>6, <1>7, <1>8, <1>9, <1>10, <1>11 DEF MetaNext, Passes

(* Rows, rebuilds and tasks have their type.                               *)
THEOREM MetaTypeCorrect == MetaSpec => []MetaTypeOK
<1>1. MetaInit => MetaInv
  BY MetaInitially
<1>2. MetaInv /\ [MetaNext]_metaVars => MetaInv'
  BY MetaInductive
<1>3. MetaInv => MetaTypeOK
  BY MetaTyped
<1> QED
  BY <1>1, <1>2, <1>3, PTL DEF MetaSpec

(* Once its rebuilds have ended, what a resource says of itself comes from *)
(* the plugin it has or is missing, but for what an old or failed rebuild  *)
(* left that no task wrote over: for any number of resources, plugins that *)
(* provide metadata or hashes or neither, pages and slots.                 *)
THEOREM MetadataIsItsOwn == MetaSpec => []ServesOwn
<1>1. MetaInit => MetaInv
  BY MetaInitially
<1>2. MetaInv /\ [MetaNext]_metaVars => MetaInv'
  BY MetaInductive
<1>3. MetaInv => ServesOwn
  <2> SUFFICES ASSUME MetaInv, NEW r \in Res, Settled(r)
               PROVE  /\ Spared(r, "meta") => meta[r] \in {Absent, plugin[r]}
                      /\ Spared(r, "hashes") =>
                            /\ marker[r] \in {Absent, plugin[r]}
                            /\ marker[r] # Absent => rows[r] = plugin[r]
    BY DEF ServesOwn
  <2>1. \A b \in RebuildsAt(r) : b \notin Open
    BY RebuildsOf DEF Settled
  <2>2. \A u \in {"meta", "hashes"} :
            Of(r, u) \in Keys /\ Of(r, u)[1] = r /\ Of(r, u)[2] = u /\ queue[Of(r, u)] = "idle"
    BY RebuildsOf DEF Settled
  <2>3. \A u \in {"meta", "hashes"} : ~Coming(Of(r, u))
    BY <2>2 DEF Coming, MetaInv, QueueInv
  <2>4. \A u \in {"meta", "hashes"} : Spared(r, u) => Of(r, u) \notin overtaken /\ PagesOwn(r)
    <3> SUFFICES ASSUME NEW u \in {"meta", "hashes"}, Spared(r, u)
                 PROVE  Of(r, u) \notin overtaken /\ PagesOwn(r)
      OBVIOUS
    <3>1. Of(r, u) \notin overtaken
      BY <2>2 DEF Spared
    <3>2. \A v \in PagesOf(r) : v[1] = r /\ v[2] \notin Units
      BY MetaAssumption DEF PagesOf, Views
    <3> QED
      BY <3>1, <3>2 DEF Spared, PagesOwn
  <2>5. MetaOf(r) /\ HashedOf(r)
    BY DEF MetaInv, SourcesInv, SourcesOf
  <2>6. Spared(r, "meta") => MetaSound(r)
    BY <2>1, <2>3, <2>4, <2>5 DEF MetaOf, MetaMends, RebuildsAt
  <2>7. Spared(r, "hashes") => HashesSound(r)
    BY <2>1, <2>3, <2>4, <2>5 DEF HashedOf, HashesMends, RebuildsAt
  <2> QED
    BY <2>6, <2>7 DEF MetaSound, HashesSound
<1> QED
  BY <1>1, <1>2, <1>3, PTL DEF MetaSpec

(* No slot stays free while a task waits, and no resource counts as being  *)
(* hashed when nothing hashes it.                                          *)
THEOREM SlotsAreHandedOn == MetaSpec => []NothingStaysHeld
<1>1. MetaInit => MetaInv
  BY MetaInitially
<1>2. MetaInv /\ [MetaNext]_metaVars => MetaInv'
  BY MetaInductive
<1>3. MetaInv => NothingStaysHeld
  <2> SUFFICES ASSUME MetaInv
               PROVE  NothingStaysHeld
    OBVIOUS
  <2> DEFINE Run == {k \in Keys : queue[k] \in {"started", "running"}}
             Got == {k \in Keys : queue[k] = "granted"}
  <2>1. Held = Run \cup Got /\ Run \cap Got = {}
    BY DEF Held
  <2>2. IsFiniteSet(Run) /\ IsFiniteSet(Got)
    BY KeysAreFinite, FS_Subset
  <2>3. running = Cardinality(Run) /\ Cardinality({k \in Keys : queue[k] = "granted"}) = Cardinality(Got)
    BY DEF running
  <2>4. Cardinality(Run) \in Nat /\ Cardinality(Got) \in Nat /\ Cardinality(Run \cap Got) = 0
    BY <2>1, <2>2, FS_CardinalityType, FS_EmptySet
  <2> HIDE DEF Run, Got
  <2>5. Cardinality(Held) = Cardinality(Run) + Cardinality(Got)
    <3>1. Cardinality(Held) = Cardinality(Run) + Cardinality(Got) - Cardinality(Run \cap Got)
      BY <2>1, <2>2, FS_Union
    <3> QED
      BY <3>1, <2>4
  <2>6. waiters # <<>> => running + Cardinality({k \in Keys : queue[k] = "granted"}) >= Slots
    BY <2>3, <2>5 DEF MetaInv, QueueInv, SlotsHeld
  <2>7. hashesInFlight = {b[1] : b \in {o \in Open : "hashes" \in rebuild[o].todo}}
    BY DEF MetaInv, HashInv, Hashers
  <2> QED
    BY <2>6, <2>7 DEF NothingStaysHeld
<1> QED
  BY <1>1, <1>2, <1>3, PTL DEF MetaSpec

=============================================================================
