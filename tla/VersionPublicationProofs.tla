---------------------- MODULE VersionPublicationProofs ----------------------
(***************************************************************************)
(* Proofs about archive creation, for any set of creators, any number of   *)
(* versions, crashes, failures and selections: the history of versions     *)
(* stays complete, the steps of a creation are one step of the history,    *)
(* and the result of a creation tells what is on the disk.                 *)
(***************************************************************************)
EXTENDS VersionPublication, TLAPS

(* The versions 1..n are on the disk and no other.                         *)
Upto(tree_, n) ==
    n \in Versions /\ \A v \in Versions : tree_[v] = IF v <= n THEN "whole" ELSE "none"

(* A registered publication is in place, or its directory is staged.       *)
PendingInv ==
    /\ Upto(tree, latest)
    /\ pending # 0 =>
         \/ pending = latest + 1 /\ pending <= MaxVersions /\ next = "whole"
         \/ pending = latest /\ latest > 1 /\ snapshot[latest - 1] = "whole"

(* Earlier versions have their database, the last of them perhaps staged.  *)
SnapshotsInv ==
    \A v \in Versions :
        /\ v >= Committed => snapshot[v] = "none"
        /\ v < Committed => \/ snapshot[v] = "whole"
                            \/ pending = v + 1 /\ snapshot[v] = "none" /\ db = "whole"

Preparing == {"clear", "copy", "snapshot", "mark"}

(* What is known at each label of the recovery and of the publication.     *)
LabelsInv ==
    /\ pc.at \in {"database", "directory", "activate"} => pending # 0
    /\ pc.at = "directory" => snapshot[pending - 1] = "whole"
    /\ pc.at \in {"activate", "remove"} => pending \in {0, latest}
    /\ pc.at \in Preparing \cup {"source"} => pc.for = "start"
    /\ pc.at \in Preparing \cup {"source", "discard", "reload"} => pending = 0
    /\ pc.at \in {"snapshot", "mark"} => next = "whole"
    /\ pc.at = "mark" => db = "whole"
    /\ pc.for = "start" => Committed < MaxVersions
    /\ pc.at = "idle" => pc.for = "boot"
    /\ pc.at \in {"catch", "discard", "reload"} => pc.for # "boot"
    /\ owner = NoOne <=> pc.for = "boot"

(* `before` is the version the creation froze, or is about to freeze.      *)
BeforeInv ==
    owner # NoOne =>
        /\ pc.at \in Preparing => before = latest
        /\ pc.at \in {"catch", "discard"} =>
             /\ before # 0
             /\ \/ pending = 0 /\ Committed = before
                \/ Committed = before + 1 /\ (pending # 0 \/ unnoticed)
        /\ pc.for = "start" /\ pc.at \notin Preparing \cup {"catch", "discard"} => before = 0
        /\ pc.for \in {"finish", "catch"} /\ pc.at \notin {"catch", "discard"} =>
             /\ before # 0 /\ Committed = before + 1
             /\ pc.at = "recover" => pending # 0

DiskInv == PendingInv /\ SnapshotsInv
IInv == TypeOK /\ DiskInv /\ LabelsInv /\ BeforeInv

-----------------------------------------------------------------------------
(* The latest version is the last of the versions on the disk.             *)
LEMMA LatestIs ==
    ASSUME NEW tree_, NEW n, Upto(tree_, n)
    PROVE  n = CHOOSE v \in Versions :
                   tree_[v] # "none" /\ \A w \in Versions : w > v => tree_[w] = "none"
  <1> DEFINE IsLatest(v) == tree_[v] # "none" /\ \A w \in Versions : w > v => tree_[w] = "none"
  <1>1. \A v \in Versions : v \in Nat
    BY BoundsAssumption DEF Versions
  <1>2. n \in Versions /\ IsLatest(n)
    BY <1>1 DEF Upto
  <1>3. \A v \in Versions : IsLatest(v) => v = n
    BY <1>1, <1>2 DEF Upto
  <1>4. QED
    BY <1>2, <1>3

LEMMA LatestNext ==
    ASSUME NEW n, Upto(tree', n)
    PROVE  latest' = n
  BY LatestIs DEF latest

LEMMA Bounds ==
    ASSUME DiskInv
    PROVE  /\ latest \in Nat /\ latest \in Versions /\ 1 <= latest /\ latest <= MaxVersions
           /\ Committed \in Nat /\ Committed \in Versions /\ Committed >= latest
           /\ \A v \in Versions : v \in Nat /\ 1 <= v /\ v <= MaxVersions
  <1>1. MaxVersions \in Nat
    BY BoundsAssumption
  <1>2. latest \in Versions
    BY DEF DiskInv, PendingInv, Upto
  <1>3. QED
    BY <1>1, <1>2 DEF DiskInv, PendingInv, Committed, Versions

LEMMA InitDisk ==
    ASSUME Init
    PROVE  DiskInv /\ latest = 1
  <1>1. MaxVersions \in Nat \ {0}
    BY BoundsAssumption
  <1>2. Upto(tree, 1)
    BY <1>1 DEF Init, Upto, Versions
  <1>3. latest = 1
    BY <1>2, LatestIs DEF latest
  <1>4. PendingInv
    BY <1>2, <1>3 DEF PendingInv, Init
  <1>5. SnapshotsInv
    BY <1>1, <1>3 DEF SnapshotsInv, Init, Committed, Versions
  <1>6. QED
    BY <1>3, <1>4, <1>5 DEF DiskInv

-----------------------------------------------------------------------------
(* What each kind of step does to the versions and the registered          *)
(* publication.  First, those that leave them alone.                       *)
LEMMA DiskStays ==
    ASSUME DiskInv, UNCHANGED versions, pending' = pending, pending = 0 \/ UNCHANGED <<next, db>>
    PROVE  DiskInv' /\ latest' = latest /\ Committed' = Committed
  <1>1. tree' = tree /\ snapshot' = snapshot
    BY DEF versions
  <1>2. latest' = latest
    BY <1>1, LatestNext DEF DiskInv, PendingInv
  <1>3. Committed' = Committed
    BY <1>2 DEF Committed
  <1>4. PendingInv'
    BY <1>1, <1>2 DEF DiskInv, PendingInv, Upto
  <1>5. SnapshotsInv'
    <2>1. CASE pending = 0
      <3>1. \A v \in Versions : pending # v + 1
        BY <2>1, Bounds
      <3>2. QED
        BY <1>1, <1>3, <3>1 DEF DiskInv, SnapshotsInv
    <2>2. CASE UNCHANGED <<next, db>>
      BY <1>1, <1>3, <2>2 DEF DiskInv, SnapshotsInv
    <2>3. QED
      BY <2>1, <2>2
  <1>6. QED
    BY <1>2, <1>3, <1>4, <1>5 DEF DiskInv

(* rm(work) runs when nothing is registered or all of it is in place.      *)
LEMMA DiskSweeps ==
    ASSUME DiskInv, pending \in {0, latest}, Sweep
    PROVE  /\ DiskInv' /\ latest' = latest /\ Committed' = Committed
           /\ pending' \in {0, pending}
  <1>1. tree' = tree /\ snapshot' = snapshot
    BY DEF versions, Sweep
  <1>2. latest' = latest
    BY <1>1, LatestNext DEF DiskInv, PendingInv
  <1>3. pending' \in {0, pending}
    BY DEF Sweep
  <1>4. Committed' = Committed
    BY <1>2, <1>3 DEF Committed
  <1>5. PendingInv'
    <2>1. pending # 0 => pending # latest + 1
      BY Bounds
    <2>2. QED
      BY <1>1, <1>2, <1>3, <2>1 DEF DiskInv, PendingInv, Upto
  <1>6. SnapshotsInv'
    <2>1. ASSUME NEW v \in Versions, v < Committed
          PROVE  snapshot[v] = "whole"
      <3>1. CASE pending = 0
        BY <2>1, <3>1, Bounds DEF DiskInv, SnapshotsInv
      <3>2. CASE pending = latest /\ pending # 0
        <4>1. pending = v + 1 => v = latest - 1
          BY <3>2, Bounds
        <4>2. snapshot[latest - 1] = "whole"
          BY <3>2, Bounds DEF DiskInv, PendingInv
        <4>3. QED
          BY <2>1, <4>1, <4>2 DEF DiskInv, SnapshotsInv
      <3>3. QED
        BY <3>1, <3>2
    <2>2. QED
      BY <1>1, <1>4, <2>1 DEF DiskInv, SnapshotsInv
  <1>7. QED
    BY <1>2, <1>3, <1>4, <1>5, <1>6 DEF DiskInv

LEMMA DatabaseMoves ==
    ASSUME TypeOK, DiskInv, LabelsInv, MoveDatabase
    PROVE  /\ DiskInv' /\ latest' = latest /\ Committed' = Committed /\ pending' = pending
           /\ snapshot'[pending - 1] = "whole" /\ pending # 0
  <1>1. At("database") /\ pending # 0 /\ tree' = tree /\ next' = next /\ pending' = pending
    BY DEF MoveDatabase, LabelsInv, At
  <1>2. latest' = latest
    BY <1>1, LatestNext DEF DiskInv, PendingInv
  <1>3. Committed' = Committed /\ Committed = pending
    BY <1>1, <1>2 DEF Committed
  <1>4. pending - 1 \in Versions /\ pending - 1 < Committed /\ pending = (pending - 1) + 1
    <2>1. MaxVersions \in Nat /\ latest \in Nat /\ 1 <= latest
      BY BoundsAssumption, Bounds
    <2>2. \/ pending = latest + 1 /\ latest <= MaxVersions
          \/ pending = latest /\ latest > 1 /\ latest <= MaxVersions
      BY <1>1, Bounds DEF DiskInv, PendingInv
    <2>3. QED
      BY <1>3, <2>1, <2>2 DEF Versions
  <1>5. snapshot[pending - 1] = "whole" \/ (snapshot[pending - 1] = "none" /\ db = "whole")
    BY <1>4 DEF DiskInv, SnapshotsInv
  <1>6. \A v \in Versions : snapshot'[v] = IF v = pending - 1 THEN "whole" ELSE snapshot[v]
    BY <1>4, <1>5 DEF MoveDatabase, TypeOK
  <1>7. PendingInv'
    BY <1>1, <1>2, <1>4, <1>6, Bounds DEF DiskInv, PendingInv, Upto
  <1>8. SnapshotsInv'
    <2>1. \A v \in Versions : pending = v + 1 => v = pending - 1
      BY <1>4, Bounds
    <2>2. \A v \in Versions : v >= Committed => v # pending - 1
      BY <1>4, Bounds
    <2>3. QED
      BY <1>1, <1>3, <1>6, <2>1, <2>2 DEF DiskInv, SnapshotsInv
  <1>9. QED
    BY <1>1, <1>2, <1>3, <1>4, <1>6, <1>7, <1>8 DEF DiskInv

LEMMA DirectoryMoves ==
    ASSUME TypeOK, DiskInv, LabelsInv, MoveDirectory
    PROVE  /\ DiskInv' /\ latest' = pending /\ Committed' = Committed /\ pending' = pending
           /\ pending # 0
  <1>1. /\ At("directory") /\ pending # 0 /\ snapshot[pending - 1] = "whole"
        /\ snapshot' = snapshot /\ db' = db /\ pending' = pending
    BY DEF MoveDirectory, LabelsInv, At
  <1>2. Committed = pending
    BY <1>1 DEF Committed
  <1>3. Upto(tree', pending)
    <2>1. CASE tree[pending] = "none"
      <3>1. pending # latest
        BY <2>1, Bounds DEF DiskInv, PendingInv, Upto
      <3>2. pending = latest + 1 /\ next = "whole"
        BY <1>1, <3>1 DEF DiskInv, PendingInv
      <3>3. \A v \in Versions : tree'[v] = IF v = pending THEN "whole" ELSE tree[v]
        BY <2>1, <3>2 DEF MoveDirectory, TypeOK
      <3>4. QED
        BY <1>2, <3>2, <3>3, Bounds DEF DiskInv, PendingInv, Upto
    <2>2. CASE tree[pending] # "none"
      <3>1. tree' = tree
        BY <2>2 DEF MoveDirectory
      <3>2. pending # latest + 1
        BY <1>2, <2>2, Bounds DEF DiskInv, PendingInv, Upto
      <3>3. QED
        BY <1>1, <3>1, <3>2 DEF DiskInv, PendingInv
    <2>3. QED
      BY <2>1, <2>2
  <1>4. latest' = pending
    BY <1>3, LatestNext
  <1>5. Committed' = Committed
    BY <1>1, <1>2 DEF Committed
  <1>6. PendingInv'
    <2>1. pending > 1
      BY <1>1, Bounds DEF DiskInv, PendingInv
    <2>2. QED
      BY <1>1, <1>3, <1>4, <2>1 DEF PendingInv, Upto
  <1>7. SnapshotsInv'
    BY <1>1, <1>5 DEF DiskInv, SnapshotsInv
  <1>8. QED
    BY <1>1, <1>4, <1>5, <1>6, <1>7 DEF DiskInv

(* Registration: the only step that adds a version.                        *)
LEMMA Marks ==
    ASSUME TypeOK, DiskInv, LabelsInv, BeforeInv, Mark
    PROVE  /\ DiskInv' /\ latest' = latest /\ pending = 0 /\ Committed = latest
           /\ before = latest /\ pending' = latest + 1 /\ Committed' = latest + 1
           /\ latest < MaxVersions /\ owner # NoOne
  <1>1. /\ pc.at = "mark" /\ pending = 0 /\ next = "whole" /\ db = "whole" /\ pc.for = "start"
        /\ owner # NoOne /\ Committed < MaxVersions
    BY DEF Mark, At, LabelsInv, Preparing
  <1>2. Committed = latest /\ before = latest
    BY <1>1 DEF Committed, BeforeInv, Preparing
  <1>3. /\ tree' = tree /\ snapshot' = snapshot /\ next' = next /\ db' = db
        /\ pending' = latest + 1
    BY <1>2 DEF Mark, versions
  <1>4. latest' = latest
    BY <1>3, LatestNext DEF DiskInv, PendingInv
  <1>5. Committed' = latest + 1
    BY <1>3, <1>4, Bounds DEF Committed
  <1>6. PendingInv'
    BY <1>1, <1>2, <1>3, <1>4, Bounds, BoundsAssumption DEF DiskInv, PendingInv, Upto
  <1>7. SnapshotsInv'
    <2>1. \A v \in Versions : /\ v >= latest + 1 => v >= Committed
                              /\ v < latest + 1 => v < Committed \/ v = latest
                              /\ pending # v + 1
      BY <1>1, <1>2, Bounds
    <2>2. snapshot[latest] = "none"
      BY <1>2, Bounds DEF DiskInv, SnapshotsInv
    <2>3. QED
      BY <1>1, <1>3, <1>5, <2>1, <2>2 DEF DiskInv, SnapshotsInv
  <1>8. QED
    BY <1>1, <1>2, <1>3, <1>4, <1>5, <1>6, <1>7 DEF DiskInv

-----------------------------------------------------------------------------
(* Where the boot or the owner goes next.                                  *)
LEMMA Goes ==
    ASSUME TypeOK, NEW label \in Labels, Goto(label)
    PROVE  pc'.at = label /\ pc'.for = pc.for /\ pc' \in [at: Labels, for: Callers]
  BY DEF TypeOK, Goto

LEMMA Called ==
    ASSUME NEW caller \in Callers, Call(caller)
    PROVE  pc'.at = "recover" /\ pc'.for = caller /\ pc' \in [at: Labels, for: Callers]
  BY DEF Call, Labels

LEMMA Idles == Idle.at = "idle" /\ Idle.for = "boot" /\ Idle \in [at: Labels, for: Callers]
  BY DEF Idle, Labels, Callers

FlowInv == LabelsInv /\ BeforeInv

(* Nobody owns the root when pc is Idle or belongs to the boot.            *)
LEMMA FlowAtRest ==
    ASSUME pc' = Idle \/ (pc'.at = "recover" /\ pc'.for = "boot"), owner' = NoOne
    PROVE  FlowInv'
  BY Idles DEF FlowInv, LabelsInv, BeforeInv, Preparing

(* The disk and the flow stay: requests beside a creation.                 *)
LEMMA FlowStays ==
    ASSUME DiskInv, FlowInv, UNCHANGED <<versions, work, pc, owner, before, unnoticed>>
    PROVE  FlowInv'
  <1>1. latest' = latest /\ Committed' = Committed /\ snapshot' = snapshot
    BY DiskStays DEF work, versions
  <1>2. QED
    BY <1>1 DEF FlowInv, LabelsInv, BeforeInv, work

LEMMA RecoveryEndsFlow ==
    ASSUME TypeOK, DiskInv, FlowInv, RecoverNothing \/ RecoverRemoved
    PROVE  FlowInv'
  <1>1. /\ pc.at \in {"recover", "remove"} /\ pending = 0 /\ RecoveryEnds
        /\ UNCHANGED <<versions, work, owner, before, unnoticed>>
    BY DEF RecoverNothing, RecoverRemoved, At, Swept, history
  <1>2. latest' = latest /\ Committed' = Committed /\ pending' = 0 /\ UNCHANGED <<owner, before>>
    BY <1>1, DiskStays DEF work
  <1>3. CASE pc.for = "boot"
    <2>1. pc' = Idle /\ owner' = NoOne
      BY <1>1, <1>3 DEF RecoveryEnds, FlowInv, LabelsInv
    <2>2. QED
      BY <2>1, FlowAtRest
  <1>4. CASE pc.for = "start"
    <2>1. pc'.at = "source" /\ pc'.for = "start"
      BY <1>1, <1>4, Goes DEF RecoveryEnds, Labels
    <2>2. QED
      BY <1>1, <1>2, <1>4, <2>1 DEF FlowInv, LabelsInv, BeforeInv, Preparing
  <1>5. CASE pc.for \in {"finish", "catch"}
    <2>1. pc'.at = "reload" /\ pc'.for = pc.for
      BY <1>1, <1>5, Goes DEF RecoveryEnds, Labels
    <2>2. QED
      BY <1>1, <1>2, <1>5, <2>1 DEF FlowInv, LabelsInv, BeforeInv, Preparing
  <1>6. QED
    BY <1>3, <1>4, <1>5 DEF TypeOK, Callers

LEMMA RecoveryFlow ==
    ASSUME TypeOK, DiskInv, FlowInv,
           RecoverChecks \/ MoveDatabase \/ MoveDirectory \/ Activate \/ RecoverRemoves
    PROVE  FlowInv'
  <1>1. CASE RecoverChecks
    <2>1. /\ pc.at = "recover" /\ pending # 0 /\ pc'.at = "database" /\ pc'.for = pc.for
          /\ UNCHANGED <<versions, work, owner, before, unnoticed>>
      BY <1>1, Goes DEF RecoverChecks, At, Labels, control, history
    <2>2. latest' = latest /\ Committed' = Committed /\ pending' = pending
      BY <2>1, DiskStays DEF work
    <2>3. QED
      BY <2>1, <2>2 DEF FlowInv, LabelsInv, BeforeInv, Preparing
  <1>2. CASE MoveDatabase
    <2>1. /\ pc.at = "database" /\ pc'.at = "directory" /\ pc'.for = pc.for
          /\ UNCHANGED <<owner, before, unnoticed>>
      BY <1>2, Goes DEF MoveDatabase, At, Labels, control, history
    <2>2. /\ Committed' = Committed /\ pending' = pending /\ pending # 0
          /\ snapshot'[pending - 1] = "whole"
      BY <1>2, DatabaseMoves DEF FlowInv
    <2>3. QED
      BY <2>1, <2>2 DEF FlowInv, LabelsInv, BeforeInv, Preparing
  <1>3. CASE MoveDirectory
    <2>1. /\ pc.at = "directory" /\ pc'.at = "activate" /\ pc'.for = pc.for
          /\ UNCHANGED <<owner, before, unnoticed>>
      BY <1>3, Goes DEF MoveDirectory, At, Labels, control, history
    <2>2. latest' = pending /\ Committed' = Committed /\ pending' = pending /\ pending # 0
      BY <1>3, DirectoryMoves DEF FlowInv
    <2>3. QED
      BY <2>1, <2>2 DEF FlowInv, LabelsInv, BeforeInv, Preparing
  <1>4. CASE Activate
    <2>1. /\ pc.at = "activate" /\ pc'.at = "remove" /\ pc'.for = pc.for
          /\ UNCHANGED <<versions, work, owner, before, unnoticed>>
      BY <1>4, Goes DEF Activate, At, Labels, control, history
    <2>2. latest' = latest /\ Committed' = Committed /\ pending' = pending
      BY <2>1, DiskStays DEF work
    <2>3. QED
      BY <2>1, <2>2 DEF FlowInv, LabelsInv, BeforeInv, Preparing
  <1>5. CASE RecoverRemoves
    <2>1. pc.at = "remove" /\ pc' = pc /\ UNCHANGED <<owner, before, unnoticed>>
      BY <1>5 DEF RecoverRemoves, Sweep, At, control, history
    <2>2. latest' = latest /\ Committed' = Committed /\ pending' \in {0, latest}
      BY <1>5, <2>1, DiskSweeps DEF RecoverRemoves, FlowInv, LabelsInv
    <2>3. QED
      BY <2>1, <2>2 DEF FlowInv, LabelsInv, BeforeInv, Preparing
  <1>6. QED
    BY <1>1, <1>2, <1>3, <1>4, <1>5

LEMMA PreparationFlow ==
    ASSUME TypeOK, DiskInv, FlowInv,
           Prepare \/ PrepareClears \/ CopyBegins \/ CopyEnds \/ Snapshot \/ Mark
    PROVE  FlowInv'
  <1>1. \A label \in Labels : Goto(label) => pc'.at = label /\ pc'.for = pc.for
    BY Goes
  <1>2. CASE Mark
    <2>1. /\ pc.at = "mark" /\ pc'.at = "recover" /\ pc'.for = "finish" /\ owner' = owner
          /\ before' = before
      BY <1>2, Called DEF Mark, At, Callers, control
    <2>2. /\ Committed' = before + 1 /\ pending' = latest + 1 /\ owner # NoOne
          /\ latest \in Nat /\ before = latest /\ 1 <= latest
      BY <1>2, Marks, Bounds DEF FlowInv
    <2>3. QED
      BY <2>1, <2>2 DEF FlowInv, LabelsInv, BeforeInv, Preparing
  <1>3. CASE Prepare \/ PrepareClears \/ CopyBegins \/ CopyEnds \/ Snapshot
    <2>1. /\ pc.at \in Preparing \cup {"source"} /\ pending = 0 /\ pc.for = "start"
          /\ Committed < MaxVersions /\ Committed = latest
      BY <1>3 DEF Prepare, PrepareClears, CopyBegins, CopyEnds, Snapshot, At, FlowInv, LabelsInv,
         Preparing, Committed
    <2>2. UNCHANGED versions /\ pending' = 0 /\ owner' = owner
      BY <1>3, <2>1 DEF Prepare, PrepareClears, CopyBegins, CopyEnds, Snapshot, Sweep, work, control
    <2>3. latest' = latest /\ Committed' = Committed
      BY <2>1, <2>2, DiskStays
    <2>4. before' = latest
      BY <1>3, <2>1 DEF Prepare, PrepareClears, CopyBegins, CopyEnds, Snapshot, Sweep, At, FlowInv,
         BeforeInv, LabelsInv, Preparing, history
    <2>5. pc'.at \in Preparing /\ pc'.for = "start"
      BY <1>1, <1>3, <2>1 DEF Prepare, PrepareClears, CopyBegins, CopyEnds, Snapshot, Sweep, At,
         Preparing, Labels
    <2>6. pc'.at \in {"snapshot", "mark"} => next' = "whole"
      BY <1>1, <1>3 DEF Prepare, PrepareClears, CopyBegins, CopyEnds, Snapshot, Sweep, At,
         Labels, FlowInv, LabelsInv, work
    <2>7. pc'.at = "mark" => db' = "whole"
      BY <1>1, <1>3 DEF Prepare, PrepareClears, CopyBegins, CopyEnds, Snapshot, Sweep, At,
         Labels, work
    <2>8. owner # NoOne
      BY <2>1 DEF FlowInv, LabelsInv
    <2>9. QED
      BY <2>1, <2>2, <2>3, <2>4, <2>5, <2>6, <2>7, <2>8
      DEF FlowInv, LabelsInv, BeforeInv, Preparing
  <1>4. QED
    BY <1>2, <1>3

(* After an error the publication is completed or given up.                *)
LEMMA CatchFlow ==
    ASSUME TypeOK, DiskInv, FlowInv, Catch \/ Discard \/ Discarded \/ Reload
    PROVE  FlowInv'
  <1>1. CASE Catch
    <2>1. /\ pc.at = "catch" /\ UNCHANGED <<versions, work, owner, before, unnoticed>>
          /\ IF pending # 0 THEN pc'.at = "recover" /\ pc'.for = "catch"
             ELSE pc'.at = "discard" /\ pc'.for = pc.for
      BY <1>1, Goes, Called DEF Catch, At, Labels, Callers, control, history
    <2>2. /\ latest' = latest /\ Committed' = Committed /\ pending' = pending
          /\ UNCHANGED <<owner, before, unnoticed>>
      BY <2>1, DiskStays DEF work
    <2>3. owner # NoOne
      BY <2>1 DEF FlowInv, LabelsInv
    <2>4. QED
      BY <2>1, <2>2, <2>3 DEF FlowInv, LabelsInv, BeforeInv, Preparing
  <1>2. CASE Discard
    <2>1. pc.at = "discard" /\ pc' = pc /\ UNCHANGED <<owner, before, unnoticed>> /\ pending = 0
      BY <1>2 DEF Discard, Sweep, At, control, history, FlowInv, LabelsInv
    <2>2. latest' = latest /\ Committed' = Committed /\ pending' = 0
      BY <1>2, <2>1, DiskSweeps DEF Discard
    <2>3. QED
      BY <2>1, <2>2 DEF FlowInv, LabelsInv, BeforeInv, Preparing
  <1>3. CASE Discarded \/ Reload
    BY <1>3, FlowAtRest DEF Discarded, Reload, End
  <1>4. QED
    BY <1>1, <1>2, <1>3

LEMMA FailureFlow ==
    ASSUME TypeOK, DiskInv, FlowInv, Failure \/ Crash
    PROVE  FlowInv'
  <1>1. CASE FailInTry
    <2>1. /\ pc'.at = "catch" /\ pc'.for = pc.for /\ owner # NoOne
          /\ UNCHANGED <<versions, work, owner, before>>
      BY <1>1, Goes DEF FailInTry, Labels, control
    <2>2. latest' = latest /\ Committed' = Committed /\ pending' = pending /\ UNCHANGED <<owner, before>>
      BY <2>1, DiskStays DEF work
    <2>3. LabelsInv'
      BY <2>1, <2>2 DEF FlowInv, LabelsInv, Preparing
    <2>4. before # 0 /\ \/ pending = 0 /\ Committed = before
                        \/ Committed = before + 1 /\ (pending # 0 \/ unnoticed')
      <3>1. unnoticed' = (unnoticed \/ (At("remove") /\ pending = 0))
        BY <1>1 DEF FailInTry, Notice
      <3>2. CASE pc.at \in Preparing
        BY <2>1, <3>2, Bounds DEF FlowInv, LabelsInv, BeforeInv, Preparing, Committed
      <3>3. CASE pc.at \in {"catch", "discard"}
        BY <2>1, <3>1, <3>3 DEF FlowInv, BeforeInv
      <3>4. CASE pc.at \notin Preparing \cup {"catch", "discard"}
        <4>1. pc.for = "finish" /\ pc.at # "reload"
          BY <1>1, <3>4 DEF FailInTry, Trying, At, Preparing
        <4>2. pc.at \in {"recover", "database", "directory", "activate", "remove"}
          BY <3>4, <4>1 DEF FlowInv, LabelsInv, TypeOK, Labels, Preparing
        <4>3. QED
          BY <2>1, <3>1, <3>4, <4>1, <4>2 DEF FlowInv, LabelsInv, BeforeInv, At
      <3>5. QED
        BY <3>2, <3>3, <3>4
    <2>5. QED
      BY <2>1, <2>2, <2>3, <2>4 DEF FlowInv, BeforeInv, Preparing
  <1>2. CASE FailOutside \/ ReloadFails
    BY <1>2, FlowAtRest DEF FailOutside, ReloadFails, End
  <1>3. CASE BootFails \/ Crash
    <2>1. pc'.at = "recover" /\ pc'.for = "boot" /\ owner' = NoOne
      BY <1>3, Called DEF BootFails, Crash, Callers, control
    <2>2. QED
      BY <2>1, FlowAtRest
  <1>4. QED
    BY <1>1, <1>2, <1>3 DEF Failure

LEMMA RequestFlow ==
    ASSUME TypeOK, DiskInv, FlowInv,
           \/ \E c \in Creators : CreateCall(c) \/ Begin(c)
           \/ \E v \in Versions : SwitchTo(v)
           \/ SwitchReload \/ UNCHANGED vars
    PROVE  FlowInv'
  <1>1. ASSUME NEW c \in Creators, Begin(c)
        PROVE  FlowInv'
    <2>1. /\ pc'.at = "recover" /\ pc'.for = "start" /\ owner' = c /\ before' = 0
          /\ Committed < MaxVersions /\ UNCHANGED <<versions, work>>
      BY <1>1, Called DEF Begin, Callers
    <2>2. latest' = latest /\ Committed' = Committed /\ c # NoOne
      BY <2>1, DiskStays, BoundsAssumption DEF work
    <2>3. QED
      BY <2>1, <2>2 DEF FlowInv, LabelsInv, BeforeInv, Preparing
  <1>2. CASE \/ \E c \in Creators : CreateCall(c)
             \/ \E v \in Versions : SwitchTo(v)
             \/ SwitchReload \/ UNCHANGED vars
    BY <1>2, FlowStays DEF CreateCall, SwitchTo, SwitchReload, vars, control, history
  <1>3. QED
    BY <1>1, <1>2

LEMMA FlowStep ==
    ASSUME TypeOK, DiskInv, FlowInv, [Next]_vars
    PROVE  FlowInv'
  BY RecoveryEndsFlow, RecoveryFlow, PreparationFlow, CatchFlow, FailureFlow, RequestFlow
  DEF Next, Recovery, Publication

(* Only registration changes how many versions there are.                  *)
LEMMA DiskStep ==
    ASSUME TypeOK, DiskInv, FlowInv, [Next]_vars
    PROVE  DiskInv' /\ (Mark \/ Committed' = Committed)
  <1> USE DEF FlowInv
  <1>1. CASE MoveDatabase \/ MoveDirectory \/ Mark
    BY <1>1, DatabaseMoves, DirectoryMoves, Marks
  <1>2. CASE RecoverRemoves \/ PrepareClears \/ Discard
    <2>1. pending \in {0, latest} /\ Sweep
      BY <1>2 DEF RecoverRemoves, PrepareClears, Discard, LabelsInv, At, Preparing
    <2>2. QED
      BY <2>1, DiskSweeps
  <1>3. CASE CopyBegins \/ CopyEnds \/ Snapshot
    <2>1. UNCHANGED versions /\ pending' = pending /\ pending = 0
      BY <1>3 DEF CopyBegins, CopyEnds, Snapshot, LabelsInv, At, Preparing
    <2>2. QED
      BY <2>1, DiskStays
  <1>4. CASE \/ RecoverNothing \/ RecoverChecks \/ Activate \/ RecoverRemoved
             \/ Prepare \/ Catch \/ Discarded \/ Reload \/ Failure \/ Crash
    <2>1. UNCHANGED <<versions, work>>
      BY <1>4 DEF RecoverNothing, RecoverChecks, Activate, RecoverRemoved, Prepare, Catch, Discarded,
         Reload, Failure, FailInTry, FailOutside, ReloadFails, BootFails, Crash, End
    <2>2. QED
      BY <2>1, DiskStays DEF work
  <1>5. CASE \/ \E c \in Creators : CreateCall(c) \/ Begin(c)
             \/ \E v \in Versions : SwitchTo(v)
             \/ SwitchReload \/ UNCHANGED vars
    <2>1. UNCHANGED <<versions, work>>
      BY <1>5 DEF CreateCall, Begin, SwitchTo, SwitchReload, vars
    <2>2. QED
      BY <2>1, DiskStays DEF work
  <1>6. QED
    BY <1>1, <1>2, <1>3, <1>4, <1>5 DEF Next, Recovery, Publication

-----------------------------------------------------------------------------
(* Types, action by action.                                                *)
LEMMA InitType == ASSUME Init PROVE TypeOK
  <1>1. MaxVersions \in Nat \ {0} /\ MaxCrashes \in Nat /\ MaxFailures \in Nat /\ MaxSwitches \in Nat
    BY BoundsAssumption
  <1>2. pending \in 0..MaxVersions /\ activeFile \in 0..MaxVersions /\ before \in 0..MaxVersions
        /\ 1 \in Versions /\ crashes \in 0..MaxCrashes /\ failures \in 0..MaxFailures
        /\ switches \in 0..MaxSwitches
    BY <1>1 DEF Init, Versions
  <1>3. QED
    BY <1>2 DEF Init, TypeOK, State, Outcomes, Labels, Callers

LEMMA Fails ==
    ASSUME TypeOK, \/ failures < MaxFailures /\ failures' = failures + 1
                   \/ failures' = failures
    PROVE  failures' \in 0..MaxFailures
  BY BoundsAssumption DEF TypeOK

LEMMA Tears ==
    ASSUME TypeOK, TornActive
    PROVE  activeFile' \in 0..MaxVersions
  <1>1. 0 \in 0..MaxVersions
    BY BoundsAssumption
  <1>2. QED
    BY <1>1 DEF TypeOK, TornActive

LEMMA Resolves ==
    ASSUME DiskInv, Resolve
    PROVE  readOnly' \in BOOLEAN /\ view' \in Versions
  <1>1. readOnly' = (active # latest) /\ view' = latest
    BY DEF Resolve
  <1>2. latest \in Versions
    BY Bounds
  <1>3. QED
    BY <1>1, <1>2

LEMMA RecoveryType ==
    ASSUME TypeOK, DiskInv, FlowInv, Recovery
    PROVE  TypeOK'
  <1> USE DEF control, context, history, budget, versions, work
  <1>1. CASE RecoverNothing \/ RecoverRemoved
    <2>1. RecoveryEnds /\ UNCHANGED <<versions, meta, work, activeFile, waiting, owner, history, budget>>
      BY <1>1 DEF RecoverNothing, RecoverRemoved
    <2>2. /\ pc' \in [at: Labels, for: Callers] /\ maintenance' \in BOOLEAN
          /\ readOnly' \in BOOLEAN /\ view' \in Versions
      <3>1. CASE pc.for = "boot"
        BY <2>1, <3>1, Idles, Resolves DEF RecoveryEnds
      <3>2. CASE pc.for # "boot"
        <4>1. /\ \E label \in {"source", "reload"} : Goto(label)
              /\ UNCHANGED <<context, maintenance>>
          BY <2>1, <3>2 DEF RecoveryEnds
        <4>2. QED
          BY <4>1, Goes DEF Labels, TypeOK
      <3>3. QED
        BY <3>1, <3>2
    <2>3. QED
      BY <2>1, <2>2 DEF TypeOK
  <1>2. CASE RecoverChecks
    <2>1. pc' \in [at: Labels, for: Callers]
      BY <1>2, Goes DEF RecoverChecks, Labels
    <2>2. QED
      BY <1>2, <2>1 DEF RecoverChecks, TypeOK
  <1>3. CASE MoveDatabase
    <2>1. pc' \in [at: Labels, for: Callers]
      BY <1>3, Goes DEF MoveDatabase, Labels
    <2>2. snapshot' \in [Versions -> State] /\ db' \in State
      BY <1>3 DEF MoveDatabase, TypeOK, State
    <2>3. QED
      BY <1>3, <2>1, <2>2 DEF MoveDatabase, TypeOK
  <1>4. CASE MoveDirectory
    <2>1. pc' \in [at: Labels, for: Callers]
      BY <1>4, Goes DEF MoveDirectory, Labels
    <2>2. tree' \in [Versions -> State] /\ next' \in State
      BY <1>4 DEF MoveDirectory, TypeOK, State
    <2>3. QED
      BY <1>4, <2>1, <2>2 DEF MoveDirectory, TypeOK
  <1>5. CASE Activate
    <2>1. pc' \in [at: Labels, for: Callers]
      BY <1>5, Goes DEF Activate, Labels
    <2>2. activeFile' \in 0..MaxVersions
      BY <1>5 DEF Activate, TypeOK
    <2>3. QED
      BY <1>5, <2>1, <2>2 DEF Activate, TypeOK
  <1>6. CASE RecoverRemoves
    <2>1. Sweep
      BY <1>6 DEF RecoverRemoves
    <2>2. next' \in State /\ db' \in State /\ pending' \in 0..MaxVersions
      BY <2>1, BoundsAssumption DEF Sweep, Thinned, State, TypeOK
    <2>3. QED
      BY <2>1, <2>2 DEF Sweep, TypeOK
  <1>7. QED
    BY <1>1, <1>2, <1>3, <1>4, <1>5, <1>6 DEF Recovery

LEMMA PublicationType ==
    ASSUME TypeOK, DiskInv, FlowInv, Publication
    PROVE  TypeOK'
  <1> USE DEF control, context, history, budget, versions, work
  <1>1. \A label \in Labels : Goto(label) => pc' \in [at: Labels, for: Callers]
    BY Goes
  <1>2. CASE Prepare
    <2>1. pc' \in [at: Labels, for: Callers]
      BY <1>1, <1>2 DEF Prepare, Labels
    <2>2. before' \in 0..MaxVersions
      BY <1>2, Bounds, BoundsAssumption DEF Prepare
    <2>3. QED
      BY <1>2, <2>1, <2>2 DEF Prepare, TypeOK
  <1>3. CASE PrepareClears \/ Discard
    <2>1. Sweep
      BY <1>3 DEF PrepareClears, Discard
    <2>2. next' \in State /\ db' \in State /\ pending' \in 0..MaxVersions
      BY <2>1, BoundsAssumption DEF Sweep, Thinned, State, TypeOK
    <2>3. QED
      BY <2>1, <2>2 DEF Sweep, TypeOK
  <1>4. CASE CopyBegins \/ CopyEnds
    <2>1. pc' \in [at: Labels, for: Callers] /\ next' \in State
      BY <1>1, <1>4 DEF CopyBegins, CopyEnds, Labels, State
    <2>2. QED
      BY <1>4, <2>1 DEF CopyBegins, CopyEnds, TypeOK
  <1>5. CASE Snapshot
    <2>1. pc' \in [at: Labels, for: Callers] /\ db' \in State
      BY <1>1, <1>5 DEF Snapshot, Labels, State, TypeOK
    <2>2. QED
      BY <1>5, <2>1 DEF Snapshot, TypeOK
  <1>6. CASE Mark
    <2>1. /\ pending' = latest + 1 /\ latest < MaxVersions /\ latest \in Nat
          /\ before = latest /\ latest \in Versions
      BY <1>6, Marks, Bounds DEF FlowInv
    <2>2. pc' \in [at: Labels, for: Callers]
      BY <1>6, Called DEF Mark, Callers
    <2>3. pending' \in 0..MaxVersions
      BY <2>1, BoundsAssumption
    <2>4. archivedBy' \in [Versions -> Creators \cup {NoOne}]
      BY <1>6, <2>1 DEF Mark, TypeOK
    <2>5. QED
      BY <1>6, <2>2, <2>3, <2>4 DEF Mark, TypeOK
  <1>7. CASE Catch
    <2>1. pc' \in [at: Labels, for: Callers]
      BY <1>1, <1>7, Called DEF Catch, Labels, Callers
    <2>2. QED
      BY <1>7, <2>1 DEF Catch, TypeOK
  <1>8. CASE Discarded \/ Reload
    <2>1. /\ pc' \in [at: Labels, for: Callers] /\ owner' \in Creators \cup {NoOne}
          /\ outcome' \in Outcomes /\ readOnly' \in BOOLEAN /\ view' \in Versions
      BY <1>8, Idles, Resolves DEF Discarded, Reload, End, Outcomes, TypeOK
    <2>2. QED
      BY <1>8, <2>1 DEF Discarded, Reload, End, TypeOK
  <1>9. QED
    BY <1>2, <1>3, <1>4, <1>5, <1>6, <1>7, <1>8 DEF Publication

LEMMA FailureType ==
    ASSUME TypeOK, DiskInv, FlowInv, Failure \/ Crash
    PROVE  TypeOK'
  <1> USE DEF control, context, history, budget, versions, work
  <1>1. ASSUME Notice PROVE unnoticed' \in BOOLEAN
    BY <1>1, Zenon DEF Notice
  <1>2. CASE FailInTry
    <2>1. pc' \in [at: Labels, for: Callers]
      BY <1>2, Goes DEF FailInTry, Labels
    <2>2. activeFile' \in 0..MaxVersions /\ failures' \in 0..MaxFailures /\ unnoticed' \in BOOLEAN
      BY <1>1, <1>2, Tears, Fails DEF FailInTry
    <2>3. QED
      BY <1>2, <2>1, <2>2 DEF FailInTry, TypeOK
  <1>3. CASE FailOutside
    <2>1. pc' \in [at: Labels, for: Callers] /\ owner' \in Creators \cup {NoOne}
      BY <1>3, Idles DEF FailOutside
    <2>2. activeFile' \in 0..MaxVersions /\ failures' \in 0..MaxFailures /\ unnoticed' \in BOOLEAN
      BY <1>1, <1>3, Tears, Fails DEF FailOutside
    <2>3. maintenance' \in BOOLEAN /\ outcome' \in Outcomes
      BY <1>3 DEF FailOutside, Outcomes, TypeOK
    <2>4. QED
      BY <1>3, <2>1, <2>2, <2>3 DEF FailOutside, TypeOK
  <1>4. CASE ReloadFails
    <2>1. pc' \in [at: Labels, for: Callers] /\ owner' \in Creators \cup {NoOne}
          /\ outcome' \in Outcomes
      BY <1>4, Idles DEF ReloadFails, End, Outcomes
    <2>2. failures' \in 0..MaxFailures
      BY <1>4, Fails DEF ReloadFails
    <2>3. QED
      BY <1>4, <2>1, <2>2 DEF ReloadFails, End, TypeOK
  <1>5. CASE BootFails
    <2>1. pc' \in [at: Labels, for: Callers]
      BY <1>5, Called DEF BootFails, Callers
    <2>2. activeFile' \in 0..MaxVersions /\ failures' \in 0..MaxFailures
      BY <1>5, Tears, Fails DEF BootFails
    <2>3. QED
      BY <1>5, <2>1, <2>2 DEF BootFails, TypeOK
  <1>6. CASE Crash
    <2>1. pc' \in [at: Labels, for: Callers]
      BY <1>6, Called DEF Crash, Callers
    <2>2. activeFile' \in 0..MaxVersions
      BY <1>6, Tears DEF Crash
    <2>3. crashes' \in 0..MaxCrashes
      BY <1>6, BoundsAssumption DEF Crash, TypeOK
    <2>4. QED
      BY <1>6, <2>1, <2>2, <2>3 DEF Crash, TypeOK, Outcomes
  <1>7. QED
    BY <1>2, <1>3, <1>4, <1>5, <1>6 DEF Failure

LEMMA RequestType ==
    ASSUME TypeOK, DiskInv,
           \/ \E c \in Creators : CreateCall(c) \/ Begin(c)
           \/ \E v \in Versions : SwitchTo(v)
           \/ SwitchReload \/ UNCHANGED vars
    PROVE  TypeOK'
  <1> USE DEF control, context, history, budget, versions, work
  <1>1. ASSUME NEW c \in Creators, CreateCall(c)
        PROVE  TypeOK'
    BY <1>1 DEF CreateCall, TypeOK
  <1>2. ASSUME NEW c \in Creators, Begin(c)
        PROVE  TypeOK'
    <2>1. pc' \in [at: Labels, for: Callers]
      BY <1>2, Called DEF Begin, Callers
    <2>2. meta' \in [Versions -> Creators \cup {NoOne}]
      BY <1>2 DEF Begin, TypeOK
    <2>3. before' \in 0..MaxVersions
      BY <1>2, BoundsAssumption DEF Begin
    <2>4. QED
      BY <1>2, <2>1, <2>2, <2>3 DEF Begin, TypeOK
  <1>3. ASSUME NEW v \in Versions, SwitchTo(v)
        PROVE  TypeOK'
    <2>1. activeFile' \in 0..MaxVersions
      BY <1>3, BoundsAssumption DEF SwitchTo, Versions
    <2>2. switches' \in 0..MaxSwitches
      BY <1>3, BoundsAssumption DEF SwitchTo, TypeOK
    <2>3. QED
      BY <1>3, <2>1, <2>2 DEF SwitchTo, TypeOK
  <1>4. CASE SwitchReload
    <2>1. readOnly' \in BOOLEAN /\ view' \in Versions
      BY <1>4, Resolves DEF SwitchReload
    <2>2. QED
      BY <1>4, <2>1 DEF SwitchReload, TypeOK
  <1>5. CASE UNCHANGED vars
    BY <1>5 DEF vars, TypeOK
  <1>6. QED
    BY <1>1, <1>2, <1>3, <1>4, <1>5

LEMMA TypeStep ==
    ASSUME TypeOK, DiskInv, FlowInv, [Next]_vars
    PROVE  TypeOK'
  BY RecoveryType, PublicationType, FailureType, RequestType DEF Next

-----------------------------------------------------------------------------
(* The inductive invariant holds: what each version has in place or        *)
(* staged, at every label of the recovery and of the publication.          *)
THEOREM Inductive == Spec => []IInv
  <1>1. Init => IInv
    <2> SUFFICES ASSUME Init PROVE IInv
      OBVIOUS
    <2>1. LabelsInv /\ BeforeInv
      BY DEF Init, LabelsInv, BeforeInv, Preparing
    <2>2. QED
      BY <2>1, InitType, InitDisk DEF IInv
  <1>2. IInv /\ [Next]_vars => IInv'
    BY TypeStep, DiskStep, FlowStep DEF IInv, FlowInv
  <1>3. QED
    BY <1>1, <1>2, PTL DEF Spec

(* The state of archive creation stays of its types.                       *)
THEOREM TypeCorrect == Spec => []TypeOK
  <1>1. IInv => TypeOK
    BY DEF IInv
  <1>2. QED
    BY <1>1, Inductive, PTL

(* Which versions are complete follows from the state of the disk.         *)
LEMMA Complete ==
    ASSUME DiskInv
    PROVE  /\ \A v \in 1..Committed : TreeOf(v) = "whole"
           /\ \A v \in 1..Committed - 1 : SnapshotOf(v) = "whole"
           /\ SnapshotOf(Committed) = "none"
  <1>1. \A v \in 1..Committed : v \in Versions /\ v \in Nat
    BY Bounds, BoundsAssumption DEF Versions
  <1>2. ASSUME NEW v \in 1..Committed
        PROVE  TreeOf(v) = "whole"
    <2>1. CASE v <= latest
      BY <1>1, <2>1 DEF DiskInv, PendingInv, Upto, TreeOf
    <2>2. CASE ~(v <= latest)
      <3>1. pending # 0 /\ pending = latest + 1 /\ v = pending /\ next = "whole"
        BY <1>1, <2>2, Bounds DEF DiskInv, PendingInv, Committed
      <3>2. tree[v] = "none"
        BY <1>1, <2>2 DEF DiskInv, PendingInv, Upto
      <3>3. QED
        BY <3>1, <3>2 DEF TreeOf
    <2>3. QED
      BY <2>1, <2>2
  <1>3. ASSUME NEW v \in 1..Committed - 1
        PROVE  SnapshotOf(v) = "whole"
    <2>1. v \in Versions /\ v < Committed
      BY Bounds, BoundsAssumption DEF Versions
    <2>2. QED
      BY <2>1 DEF DiskInv, SnapshotsInv, SnapshotOf
  <1>4. SnapshotOf(Committed) = "none"
    <2>1. Committed \in Versions /\ Committed >= Committed
      BY Bounds
    <2>2. pending # Committed + 1
      BY Bounds DEF Committed
    <2>3. QED
      BY <2>1, <2>2 DEF DiskInv, SnapshotsInv, SnapshotOf
  <1>5. QED
    BY <1>2, <1>3, <1>4

(* Whatever was interrupted, every version has its plugins and every       *)
(* archived one its database, in place or where the next recovery takes    *)
(* them from (recoverVersionPublication, publishVersion).                  *)
THEOREM HistoryStaysComplete == Spec => []HistoryIsComplete
  <1>1. IInv => HistoryIsComplete
    BY Complete DEF IInv, HistoryIsComplete
  <1>2. QED
    BY <1>1, Inductive, PTL

-----------------------------------------------------------------------------
(* What the history shows: the archived versions are those before the      *)
(* last, and the selected version exists.                                  *)
Selected == IF pending # 0 THEN pending ELSE active
Shown ==
    /\ {v \in 1..Committed : SnapshotOf(v) = "whole"} = 1..Committed - 1
    /\ Committed \in Nat /\ 1 <= Committed /\ Committed <= MaxVersions
    /\ Selected \in 1..Committed

LEMMA IsShown ==
    ASSUME DiskInv
    PROVE  Shown
  <1>1. Committed \in Nat /\ 1 <= Committed /\ Committed <= MaxVersions
    BY Bounds
  <1>2. {v \in 1..Committed : SnapshotOf(v) = "whole"} = 1..Committed - 1
    <2>1. \A v \in 1..Committed : v # Committed => v \in 1..Committed - 1
      BY <1>1
    <2>2. \A v \in 1..Committed - 1 : v \in 1..Committed
      BY <1>1
    <2>3. QED
      BY <2>1, <2>2, Complete
  <1>3. Selected \in 1..Committed
    <2>1. CASE pending # 0
      BY <1>1, <2>1 DEF Selected, Committed
    <2>2. CASE pending = 0
      <3>1. Committed = latest /\ Selected = active
        BY <2>2 DEF Committed, Selected
      <3>2. active \in 1..latest
        BY <3>1, <1>1 DEF active
      <3>3. QED
        BY <3>1, <3>2
    <2>3. QED
      BY <2>1, <2>2
  <1>4. QED
    BY <1>1, <1>2, <1>3 DEF Shown

(* Registration is an archive, with all of it at once; no other step       *)
(* touches the history, and any may follow the selection.                  *)
LEMMA StepOfHistory ==
    ASSUME IInv, Shown, Shown', [Next]_vars
    PROVE  History!Next
  <1>1. TypeOK /\ DiskInv /\ FlowInv
    BY DEF IInv, FlowInv
  <1>2. CASE Mark
    <2>1. /\ Committed' = Committed + 1 /\ Committed < MaxVersions /\ pending' = Committed + 1
          /\ Committed \in Nat
      BY <1>1, <1>2, Marks, Bounds DEF FlowInv
    <2>2. Selected' = Committed'
      <3>1. pending' # 0 /\ pending' = Committed'
        BY <2>1
      <3>2. QED
        BY <3>1, Zenon DEF Selected
    <2>3. 1..Committed' - 1 = (1..Committed - 1) \cup {Committed}
      BY <2>1 DEF Shown
    <2>4. History!Archive
      BY <2>1, <2>2, <2>3 DEF History!Archive, Shown, Selected
    <2>5. QED
      BY <2>4 DEF History!Next
  <1>3. CASE Committed' = Committed
    <2>1. Selected' \in 1..Committed /\ Selected' \in 1..MaxVersions
      BY <1>3, BoundsAssumption DEF Shown
    <2>2. History!Select(Selected')
      BY <1>3, <2>1 DEF History!Select, Shown, Selected
    <2>3. QED
      BY <2>1, <2>2 DEF History!Next
  <1>4. QED
    BY <1>1, <1>2, <1>3, DiskStep

(* Archive creation, with its recovery at boot and after errors, does what *)
(* an atomic archive does: versions are added one at a time, complete, and *)
(* never lost.                                                             *)
THEOREM HistoryImplemented == Spec => ImplementsHistory
  <1>1. Init => History!Init
    <2> SUFFICES ASSUME Init PROVE History!Init
      OBVIOUS
    <2>1. DiskInv /\ latest = 1 /\ pending = 0 /\ activeFile = 1
      BY InitDisk DEF Init
    <2>2. Committed = 1 /\ Selected = 1
      BY <2>1 DEF Committed, Selected, active
    <2>3. {v \in 1..Committed : SnapshotOf(v) = "whole"} = {}
      BY <2>1, <2>2, IsShown DEF Shown
    <2>4. QED
      BY <2>2, <2>3 DEF History!Init, Selected
  <1>2. IInv => Shown
    BY IsShown DEF IInv
  <1>3. IInv /\ Shown /\ Shown' /\ [Next]_vars => History!Next
    BY StepOfHistory
  <1>4. QED
    BY <1>1, <1>2, <1>3, Inductive, PTL DEF Spec, ImplementsHistory, History!HistorySpec

-----------------------------------------------------------------------------
Truthful ==
    owner # NoOne /\ owner' = NoOne /\ before # 0 /\ ~unnoticed' =>
        /\ outcome' = "created" => Committed' = before + 1 /\ pending' = 0
        /\ outcome' = "failed" => Committed' = before
        /\ outcome' = "interrupted" => maintenance' /\ Committed' = before + 1

(* The steps that take the root from its owner.                            *)
LEMMA Releases ==
    ASSUME TypeOK, FlowInv, [Next]_vars, owner # NoOne, owner' = NoOne
    PROVE  Discarded \/ Reload \/ FailOutside \/ ReloadFails \/ Crash
  <1>1. CASE Recovery
    BY <1>1 DEF Recovery, RecoverNothing, RecoverChecks, MoveDatabase, MoveDirectory, Activate,
       RecoverRemoves, RecoverRemoved, Sweep, control
  <1>2. CASE Publication
    BY <1>2 DEF Publication, Prepare, PrepareClears, CopyBegins, CopyEnds, Snapshot, Mark, Catch,
       Discard, Sweep, control
  <1>3. CASE Failure
    BY <1>3 DEF Failure, FailInTry, BootFails, control
  <1>4. CASE \/ \E c \in Creators : CreateCall(c) \/ Begin(c)
             \/ \E v \in Versions : SwitchTo(v)
             \/ SwitchReload \/ UNCHANGED vars
    BY <1>4, BoundsAssumption DEF CreateCall, Begin, SwitchTo, SwitchReload, vars, control
  <1>5. QED
    BY <1>1, <1>2, <1>3, <1>4 DEF Next

LEMMA TruthStep ==
    ASSUME IInv, [Next]_vars
    PROVE  Truthful
  <1> SUFFICES ASSUME owner # NoOne, owner' = NoOne, before # 0, ~unnoticed'
               PROVE  /\ outcome' = "created" => Committed' = before + 1 /\ pending' = 0
                      /\ outcome' = "failed" => Committed' = before
                      /\ outcome' = "interrupted" => maintenance' /\ Committed' = before + 1
    BY DEF Truthful
  <1>1. TypeOK /\ DiskInv /\ FlowInv /\ LabelsInv /\ BeforeInv
    BY DEF IInv, FlowInv
  <1>2. Discarded \/ Reload \/ FailOutside \/ ReloadFails \/ Crash
    BY <1>1, Releases
  <1>3. UNCHANGED <<versions, work>>
    BY <1>2 DEF Discarded, Reload, FailOutside, ReloadFails, Crash, End
  <1>4. Committed' = Committed /\ pending' = pending
    BY <1>1, <1>3, DiskStays DEF work
  <1>5. CASE Discarded
    BY <1>1, <1>4, <1>5 DEF Discarded, End, At, BeforeInv, LabelsInv
  <1>6. CASE Reload
    <2>1. pc.at = "reload" /\ pending = 0 /\ outcome' = "created"
      BY <1>1, <1>6 DEF Reload, End, At, LabelsInv
    <2>2. pc.for \in {"finish", "catch"}
      BY <1>1, <2>1 DEF BeforeInv, LabelsInv, TypeOK, Callers, Preparing
    <2>3. QED
      BY <1>1, <1>4, <2>1, <2>2 DEF BeforeInv
  <1>7. CASE FailOutside
    <2>1. /\ ~Trying /\ pc.at # "reload"
          /\ unnoticed' = (unnoticed \/ (pc.at = "remove" /\ pending = 0))
          /\ IF pending # 0 THEN maintenance' = TRUE /\ outcome' = "interrupted"
             ELSE outcome' = "failed"
      BY <1>7 DEF FailOutside, Notice, At
    <2>2. CASE pc.at \in Preparing
      <3>1. pending = 0 /\ Committed = before
        BY <1>1, <2>2 DEF BeforeInv, LabelsInv, Committed, Preparing
      <3>2. QED
        BY <1>4, <2>1, <3>1
    <2>3. CASE pc.at \in {"catch", "discard"}
      BY <1>1, <1>4, <2>1, <2>3 DEF BeforeInv
    <2>4. CASE pc.at \notin Preparing \cup {"catch", "discard"}
      <3>1. pc.for \in {"finish", "catch"} /\ Committed = before + 1
        BY <1>1, <2>4 DEF BeforeInv, LabelsInv, TypeOK, Callers
      <3>2. pc.at \in {"recover", "database", "directory", "activate", "remove"}
        BY <1>1, <2>1, <2>4, <3>1 DEF LabelsInv, TypeOK, Labels, Preparing
      <3>3. pending # 0
        BY <1>1, <2>1, <2>4, <3>1, <3>2 DEF BeforeInv, LabelsInv
      <3>4. QED
        BY <1>4, <2>1, <3>1, <3>3
    <2>5. QED
      BY <2>2, <2>3, <2>4
  <1>8. CASE ReloadFails \/ Crash
    BY <1>8 DEF ReloadFails, End, Crash
  <1>9. QED
    BY <1>2, <1>5, <1>6, <1>7, <1>8

(* The result of a creation is what happened on the disk: "created" means  *)
(* one more version, "failed" none, "interrupted" one more and maintenance *)
(* (the catch block of publishVersion, and its callers).                   *)
THEOREM OutcomesAreTrue == Spec => OutcomeIsTrue
  <1>1. IInv /\ [Next]_vars => [Truthful]_vars
    BY TruthStep
  <1>2. QED
    BY <1>1, Inductive, PTL DEF Spec, OutcomeIsTrue, Truthful

=============================================================================
