-------------------- MODULE CheckpointPublicationProofs --------------------
(***************************************************************************)
(* Proofs about the publication of a checkpoint, for any number of archive *)
(* versions, preparations, crashes and errors: the type invariant, that a  *)
(* returned checkpoint is kept, and that a publication is atomic.          *)
(*                                                                         *)
(* The argument: while a publication is registered, the checkpoint of its  *)
(* version is in place, or next/ holds a complete one that is newer than   *)
(* every other.  So the generation in force changes in two steps only, the *)
(* registration of a first checkpoint and the move aside of an older one.  *)
(***************************************************************************)
EXTENDS CheckpointPublication, TLAPS

(* The checkpoints in place are complete, whatever next/ and previous/ are. *)
PlacesWhole == \A v \in Versions : Exists(checkpoint[v]) => checkpoint[v].whole
PlacesEmpty == \A v \in Versions : ~Exists(checkpoint[v]) => checkpoint[v] = NoTree

(* A preparation that has not staged yet is newer than every checkpoint,   *)
(* and a staged checkpoint is newer than those in place.                   *)
Unstaged == pc.for = "prepare" /\ pc.at \in {"recover", "sweep", "clear"}
Newest ==
    /\ \A v \in Versions : checkpoint[v].gen <= attempt
    /\ next.gen <= attempt
    /\ Unstaged => /\ next.gen < attempt
                   /\ \A v \in Versions : checkpoint[v].gen < attempt
    /\ Exists(next) => \A v \in Versions : checkpoint[v].gen < next.gen

(* A registered publication has a checkpoint to put in force.              *)
Registered ==
    pending # 0 =>
        /\ pending <= latest
        /\ ~Exists(checkpoint[pending]) => Exists(next) /\ next.whole

(* What stands on disk at each step of a preparation or a recovery.        *)
Staged == next.gen = attempt /\ Exists(next)
Standing ==
    /\ At("sweep") /\ pending # 0 => Exists(checkpoint[pending])
    /\ At("clear") => pending = 0
    /\ At("stage") => pending = 0 /\ Staged
    /\ At("staged") => pending = 0 /\ Staged /\ next.whole
    /\ At("marked") => pending = latest /\ Staged /\ next.whole
    /\ At("aside") => pending = latest /\ Staged /\ next.whole /\ ~Exists(checkpoint[latest])
    /\ At("published") => /\ pending \in {0, latest} /\ next = NoTree
                          /\ Exists(checkpoint[latest]) /\ checkpoint[latest].gen = attempt

DiskInv == PlacesWhole /\ PlacesEmpty /\ Newest /\ Registered /\ Standing

IInv == TypeOK /\ DiskInv /\ ReturnedIsKept

-----------------------------------------------------------------------------
(* A process counter is a step and a caller, and Goto changes the step.    *)
LEMMA Counters ==
    ASSUME TypeOK
    PROVE  /\ pc.for \in Callers
           /\ pc.at \in {"recover", "sweep", "clear", "stage", "staged", "marked", "aside",
                         "published", "idle"}
           /\ pc.at \notin {"recover", "sweep"} => pc.for = "prepare"
           /\ pc = [at |-> pc.at, for |-> pc.for]
           /\ \A label : [pc EXCEPT !.at = label] = [at |-> label, for |-> pc.for]
  BY DEF TypeOK, Recovering, Preparing, Idle, Callers

LEMMA NoTreeIsTree == NoTree \in Tree /\ ~Exists(NoTree)
  BY BoundsAssumption DEF NoTree, Tree, Exists

LEMMA InitInv ==
    ASSUME Init
    PROVE  IInv
  <1>1. 1 \in Versions /\ pc.at = "recover" /\ pc.for = "boot"
    BY BoundsAssumption DEF Init, Versions
  <1>2. TypeOK
    BY <1>1, NoTreeIsTree, BoundsAssumption
    DEF Init, TypeOK, Recovering, Callers
  <1>3. DiskInv
    BY <1>1, NoTreeIsTree
    DEF Init, DiskInv, PlacesWhole, PlacesEmpty, Newest, Unstaged, Registered, Standing, At,
        NoTree, Exists
  <1>4. ReturnedIsKept
    BY DEF Init, ReturnedIsKept
  <1>5. QED
    BY <1>2, <1>3, <1>4 DEF IInv

-----------------------------------------------------------------------------
(* Types, action by action.                                                *)
LEMMA SweepType ==
    ASSUME TypeOK, Sweep
    PROVE  TypeOK'
  <1>1. \A t \in Tree : Thinned(t) \subseteq Tree
    BY NoTreeIsTree DEF Thinned, Tree
  <1>2. next' \in Tree /\ previous' \in Tree /\ pending' \in 0..MaxArchives
    BY <1>1, BoundsAssumption DEF Sweep, TypeOK
  <1>3. QED
    BY <1>2 DEF Sweep, TypeOK, budget

LEMMA RecoverType ==
    ASSUME TypeOK, Recover
    PROVE  TypeOK'
  <1>1. pc' \in Recovering
    BY Counters DEF Recover, Goto, Recovering
  <1>2. pending \in Versions
    BY BoundsAssumption DEF Recover, TypeOK, Versions
  <1>3. checkpoint' \in [Versions -> Tree] /\ next' \in Tree /\ previous' \in Tree
    BY <1>2, NoTreeIsTree DEF Recover, TypeOK
  <1>4. QED
    BY <1>1, <1>3 DEF Recover, TypeOK, budget

LEMMA TypeStep ==
    ASSUME TypeOK, [Next]_vars
    PROVE  TypeOK'
  <1> USE BoundsAssumption
  <1>1. ASSUME RecoveryEnds
        PROVE  pc' \in Preparing \cup {Idle}
    BY <1>1, Counters DEF RecoveryEnds, Preparing
  <1>2. \A label \in {"clear", "stage", "staged", "marked", "aside", "published"} :
            [at |-> label, for |-> "prepare"] \in Preparing
    BY DEF Preparing
  <1>3. ASSUME NEW label \in {"clear", "stage", "staged", "marked", "aside", "published"},
               pc.at \notin {"recover", "sweep"}, Goto(label)
        PROVE  pc' \in Preparing
    BY <1>2, <1>3, Counters DEF Goto
  <1>4. \A c \in Callers : [at |-> "recover", for |-> c] \in Recovering
    BY DEF Recovering
  <1>5. CASE RecoverNothing
    BY <1>5, <1>1 DEF RecoverNothing, TypeOK, files, budget
  <1>6. CASE Recover
    BY <1>6, RecoverType
  <1>7. CASE RecoverSweeps \/ PrepareClears \/ PrepareSweeps
    BY <1>7, SweepType DEF RecoverSweeps, PrepareClears, PrepareSweeps
  <1>8. CASE RecoverSwept
    BY <1>8, <1>1 DEF RecoverSwept, TypeOK, files, budget
  <1>9. CASE PrepareCall
    BY <1>9, <1>4 DEF PrepareCall, TypeOK, Callers, files, budget
  <1>10. CASE StageBegins
    BY <1>10, <1>3 DEF StageBegins, At, TypeOK, Tree, budget
  <1>11. CASE StageEnds
    BY <1>11, <1>3 DEF StageEnds, At, TypeOK, Tree, budget
  <1>12. CASE Mark
    BY <1>12, <1>3 DEF Mark, At, TypeOK, Versions, budget
  <1>13. CASE MoveAside
    BY <1>13, <1>3, NoTreeIsTree DEF MoveAside, At, TypeOK, budget
  <1>14. CASE Publish
    BY <1>14, <1>3, NoTreeIsTree DEF Publish, At, TypeOK, budget
  <1>15. CASE PrepareReturns
    BY <1>15 DEF PrepareReturns, TypeOK, files, budget
  <1>16. CASE Fail
    <2>1. pc' \in Recovering \cup {Idle}
      BY <1>16, <1>4 DEF Fail, Callers
    <2>2. QED
      BY <1>16, <2>1 DEF Fail, TypeOK, files
  <1>17. CASE CreateArchive
    BY <1>17 DEF CreateArchive, TypeOK, Versions, files, budget
  <1>18. CASE Crash
    BY <1>18, <1>4 DEF Crash, TypeOK, Callers, files
  <1>19. CASE UNCHANGED vars
    BY <1>19 DEF TypeOK, vars, files, budget
  <1>20. QED
    BY <1>5, <1>6, <1>7, <1>8, <1>9, <1>10, <1>11, <1>12, <1>13, <1>14, <1>15, <1>16, <1>17,
       <1>18, <1>19 DEF Next, Recovery, Preparation, Quiescent

-----------------------------------------------------------------------------
(* What is in force is a checkpoint in place or the staged one: complete.  *)
LEMMA InForceIsWhole ==
    ASSUME TypeOK, DiskInv, NEW v \in Versions
    PROVE  /\ InForce(v) \in Tree
           /\ Exists(InForce(v)) => InForce(v).whole
           /\ InForce(v).gen <= attempt
  BY DEF TypeOK, DiskInv, PlacesWhole, Newest, Registered, InForce, Versions

(* A step leaves what is in force alone, or puts the staged checkpoint in  *)
(* force in the version p.                                                 *)
Kept == \A v \in Versions : InForce(v)' = InForce(v)
Commits(p) ==
    /\ next.whole /\ next.gen \in 1..MaxAttempts
    /\ InForce(p).gen < next.gen /\ InForce(p)' = next
    /\ \A v \in Versions : v # p => InForce(v)' = InForce(v)
Committed == \E p \in Versions : Commits(p)

(* The files only matter: a step of the process alone keeps all in force.  *)
LEMMA FilesAlone ==
    ASSUME UNCHANGED files
    PROVE  Kept
  BY DEF Kept, InForce, files, Exists

(* Two steps that end a recovery, and the one that begins another.         *)
LEMMA RecoveryEndKeeps ==
    ASSUME TypeOK, DiskInv, RecoverNothing \/ RecoverSwept
    PROVE  DiskInv' /\ Kept
  <1>1. UNCHANGED <<files, latest, attempt>> /\ pending = 0 /\ RecoveryEnds
    BY DEF RecoverNothing, RecoverSwept, Swept
  <1>2. \/ pc.for = "prepare" /\ pc.at \in {"recover", "sweep"} /\ pc' = [at |-> "clear", for |-> "prepare"]
        \/ pc' = Idle
    BY <1>1, Counters DEF RecoveryEnds, RecoverNothing, RecoverSwept, At
  <1>3. DiskInv'
    BY <1>1, <1>2 DEF DiskInv, PlacesWhole, PlacesEmpty, Newest, Unstaged, Registered, Standing,
       Staged, At, Idle, files, Exists
  <1>4. QED
    BY <1>1, <1>3, FilesAlone

LEMMA ProcessKeeps ==
    ASSUME TypeOK, DiskInv, Fail \/ Crash \/ PrepareCall \/ CreateArchive \/ PrepareReturns
    PROVE  DiskInv' /\ Kept
  <1>1. UNCHANGED files
    BY DEF Fail, Crash, PrepareCall, CreateArchive, PrepareReturns
  <1>2. \/ /\ pc' = Idle \/ (pc'.at = "recover" /\ pc'.for # "prepare")
           /\ UNCHANGED <<latest, attempt>>
        \/ /\ attempt' = attempt + 1 /\ latest' = latest
           /\ pc' = [at |-> "recover", for |-> "prepare"]
        \/ /\ pc = Idle /\ pc' = Idle /\ latest' = latest + 1 /\ attempt' = attempt
    BY DEF Fail, Crash, PrepareCall, CreateArchive, PrepareReturns
  <1>3. attempt \in Nat /\ latest \in Nat /\ pending \in Nat /\ next.gen \in Nat
        /\ \A v \in Versions : checkpoint[v].gen \in Nat
    BY BoundsAssumption DEF TypeOK, Versions, Tree
  <1>4. (PlacesWhole /\ PlacesEmpty)'
    BY <1>1 DEF DiskInv, PlacesWhole, PlacesEmpty, files, Exists
  <1>5. Newest'
    <2>1. attempt' \in {attempt, attempt + 1} /\ (Unstaged' => attempt' = attempt + 1)
      BY <1>2 DEF Unstaged, Idle
    <2>2. UNCHANGED <<checkpoint, next>>
      BY <1>1 DEF files
    <2>3. \A v \in Versions : checkpoint[v].gen <= attempt /\ checkpoint[v].gen < attempt + 1
      BY <1>3 DEF DiskInv, Newest
    <2>4. next.gen <= attempt /\ next.gen < attempt + 1
      BY <1>3 DEF DiskInv, Newest
    <2>5. Exists(next) => \A v \in Versions : checkpoint[v].gen < next.gen
      BY DEF DiskInv, Newest
    <2>6. QED
      BY <1>3, <2>1, <2>2, <2>3, <2>4, <2>5 DEF Newest, Exists
  <1>6. Registered'
    BY <1>1, <1>2, <1>3 DEF DiskInv, Registered, files, Exists
  <1>7. Standing'
    BY <1>2 DEF Standing, At, Idle
  <1>8. QED
    BY <1>1, <1>4, <1>5, <1>6, <1>7, FilesAlone DEF DiskInv

(* A removal of the work directory: what it thins out is not in force.     *)
LEMMA SweepKeeps ==
    ASSUME TypeOK, DiskInv, Sweep, At("sweep") \/ At("clear") \/ At("published")
    PROVE  DiskInv' /\ Kept
  <1>1. pending # 0 => Exists(checkpoint[pending])
    BY DEF DiskInv, Standing, At
  <1>2. UNCHANGED <<checkpoint, latest, pc, attempt>> /\ pending' \in {0, pending}
        /\ next' \in Thinned(next) \cup {next}
    BY DEF Sweep
  <1>3. next'.gen \in {0, next.gen} /\ (next = NoTree => next' = NoTree)
        /\ 0 <= attempt /\ next.gen \in Nat
    BY <1>2, BoundsAssumption DEF Thinned, NoTree, TypeOK, Tree
  <1>4. \A v \in Versions : InForce(v) = checkpoint[v] /\ InForce(v)' = checkpoint[v]
    BY <1>1, <1>2 DEF InForce, Exists, Versions
  <1>5. \A v \in Versions : checkpoint[v].gen \in Nat
    BY DEF TypeOK, Tree
  <1>6. Newest'
    <2>1. UNCHANGED <<checkpoint, attempt, pc>>
      BY <1>2
    <2>2. attempt \in Nat
      BY BoundsAssumption DEF TypeOK
    <2>3. next'.gen <= next.gen /\ (next'.gen = 0 \/ next'.gen = next.gen)
      BY <1>3
    <2>4. next'.gen \in Nat
      BY <1>3
    <2>5. QED
      BY <1>3, <1>5, <2>1, <2>2, <2>3, <2>4 DEF DiskInv, Newest, Unstaged, Exists
  <1>7. Standing'
    BY <1>2, <1>3 DEF DiskInv, Standing, At, Staged, Exists
  <1>8. QED
    BY <1>1, <1>2, <1>4, <1>6, <1>7
    DEF DiskInv, PlacesWhole, PlacesEmpty, Registered, Exists, Kept

(* Recovery puts in place what was in force already.                       *)
LEMMA RecoverKeeps ==
    ASSUME TypeOK, DiskInv, Recover
    PROVE  DiskInv' /\ Kept
  <1>1. pending \in Versions /\ pending # 0
    BY BoundsAssumption DEF Recover, TypeOK, Versions
  <1>2. UNCHANGED <<pending, latest, attempt>> /\ pc' = [at |-> "sweep", for |-> pc.for]
        /\ pc.at = "recover"
    BY Counters DEF Recover, Goto, At
  <1>3. CASE Exists(checkpoint[pending]) /\ UNCHANGED <<checkpoint, next, previous>>
    BY <1>1, <1>2, <1>3
    DEF DiskInv, PlacesWhole, PlacesEmpty, Newest, Unstaged, Registered, Standing, At, Staged,
        Exists, Kept, InForce
  <1>4. CASE /\ ~Exists(checkpoint[pending]) /\ Exists(next)
             /\ checkpoint' = [checkpoint EXCEPT ![pending] = next]
             /\ next' = NoTree
             /\ UNCHANGED previous
    <2>1. /\ \A v \in Versions : checkpoint'[v] = IF v = pending THEN next ELSE checkpoint[v]
          /\ next' = NoTree /\ ~Exists(next')
      BY <1>4, NoTreeIsTree DEF TypeOK
    <2>2. next.whole
      BY <1>1, <1>4 DEF DiskInv, Registered
    <2>3. (PlacesWhole /\ PlacesEmpty /\ Registered /\ Standing)'
      BY <1>1, <1>2, <1>4, <2>1, <2>2
      DEF DiskInv, PlacesWhole, PlacesEmpty, Registered, Standing, At, Exists
    <2>4. next'.gen = 0 /\ next.gen \in Nat /\ next.gen > 0
      BY <1>4, <2>1 DEF NoTree, TypeOK, Tree, Exists
    <2>5. Newest'
      BY <1>1, <1>2, <2>1, <2>4, BoundsAssumption
      DEF DiskInv, Newest, Unstaged, Exists, TypeOK, Tree
    <2>6. Kept
      BY <1>1, <1>2, <1>4, <2>1 DEF Kept, InForce, Exists
    <2>7. QED
      BY <2>3, <2>5, <2>6 DEF DiskInv
  <1>5. CASE ~Exists(checkpoint[pending]) /\ ~Exists(next)
    BY <1>1, <1>5 DEF DiskInv, Registered
  <1>6. QED
    BY <1>3, <1>4, <1>5 DEF Recover

(* Staging is out of force, as the publication is not registered.          *)
LEMMA StageKeeps ==
    ASSUME TypeOK, DiskInv, StageBegins \/ StageEnds
    PROVE  DiskInv' /\ Kept
  <1>1. UNCHANGED <<checkpoint, previous, pending, latest, attempt>> /\ pending = 0
    BY DEF StageBegins, StageEnds, Swept, DiskInv, Standing
  <1>2. pc.for = "prepare" /\ pc'.at \in {"stage", "staged"}
    BY Counters DEF StageBegins, StageEnds, At, Goto
  <1>3. attempt \in Nat /\ \A v \in Versions : checkpoint[v].gen \in Nat
    BY BoundsAssumption DEF TypeOK, Tree
  <1>4. /\ next'.gen = attempt /\ attempt # 0
        /\ pc'.at = "staged" => next'.whole
        /\ \A v \in Versions : checkpoint[v].gen < attempt
    <2>1. CASE StageBegins
      <3>1. next' = [gen |-> attempt, whole |-> FALSE] /\ pc'.at = "stage" /\ Unstaged
        BY <1>2, <2>1, Counters DEF StageBegins, Unstaged, At, Goto
      <3>2. \A v \in Versions : checkpoint[v].gen < attempt
        BY <3>1 DEF DiskInv, Newest
      <3>3. 1 \in Versions
        BY BoundsAssumption DEF Versions
      <3>4. QED
        BY <1>3, <3>1, <3>2, <3>3
    <2>2. CASE StageEnds
      <3>1. next' = [next EXCEPT !.whole = TRUE] /\ Staged
        BY <2>2 DEF StageEnds, DiskInv, Standing
      <3>2. next'.gen = next.gen /\ next'.whole
        BY <3>1 DEF TypeOK, Tree
      <3>3. QED
        BY <3>1, <3>2 DEF Staged, DiskInv, Newest, Exists
    <2>3. QED
      BY <2>1, <2>2
  <1>5. (PlacesWhole /\ PlacesEmpty /\ Registered)'
    BY <1>1 DEF DiskInv, PlacesWhole, PlacesEmpty, Registered, Exists
  <1>6. Newest'
    BY <1>1, <1>2, <1>3, <1>4 DEF Newest, Unstaged
  <1>7. Standing'
    BY <1>1, <1>2, <1>4 DEF Standing, Staged, At, Exists
  <1>8. Kept
    BY <1>1 DEF Kept, InForce, Versions, Exists
  <1>9. QED
    BY <1>5, <1>6, <1>7, <1>8 DEF DiskInv

(* Registration puts a first checkpoint in force; an older one stays.      *)
LEMMA MarkCommits ==
    ASSUME TypeOK, DiskInv, Mark
    PROVE  DiskInv' /\ (Kept \/ Committed)
  <1>1. /\ UNCHANGED <<checkpoint, next, previous, latest, attempt>>
        /\ pending' = latest /\ pending = 0
        /\ Staged /\ next.whole
    BY DEF Mark, DiskInv, Standing
  <1>2. pc'.at = "marked"
    BY Counters DEF Mark, Goto
  <1>3. DiskInv'
    BY <1>1, <1>2 DEF DiskInv, PlacesWhole, PlacesEmpty, Newest, Unstaged, Registered, Standing,
       Staged, At, Exists, TypeOK, Versions
  <1>4. \A v \in Versions : InForce(v) = checkpoint[v]
    BY <1>1 DEF InForce, Versions
  <1>5. \A v \in Versions : v # latest \/ Exists(checkpoint[latest]) => InForce(v)' = checkpoint[v]
    BY <1>1 DEF InForce, Exists
  <1>6. CASE Exists(checkpoint[latest])
    BY <1>3, <1>4, <1>5, <1>6 DEF Kept
  <1>7. CASE ~Exists(checkpoint[latest])
    <2>1. PICK p \in Versions : p = latest
      BY DEF TypeOK
    <2>2. InForce(p)' = next
      BY <1>1, <1>7, <2>1 DEF InForce, Exists, Staged
    <2>3. next.gen \in 1..MaxAttempts
      BY <1>1, BoundsAssumption DEF Staged, Exists, TypeOK, Tree
    <2>4. checkpoint[p].gen < next.gen
      BY <1>1 DEF DiskInv, Newest, Staged
    <2>5. Commits(p)
      BY <1>1, <1>4, <1>5, <2>1, <2>2, <2>3, <2>4 DEF Commits
    <2>6. QED
      BY <1>3, <2>5 DEF Committed
  <1>8. QED
    BY <1>6, <1>7

(* The move aside of an older checkpoint puts the staged one in force.     *)
LEMMA MoveAsideCommits ==
    ASSUME TypeOK, DiskInv, MoveAside
    PROVE  DiskInv' /\ (Kept \/ Committed)
  <1>1. /\ UNCHANGED <<next, pending, latest, attempt>>
        /\ pending = latest /\ Staged /\ next.whole
        /\ latest \in Versions /\ latest # 0
    BY DEF MoveAside, DiskInv, Standing, TypeOK, Versions
  <1>2. pc'.at = "aside"
    BY Counters DEF MoveAside, Goto
  <1>3. \A v \in Versions : checkpoint'[v] = IF v = latest THEN NoTree ELSE checkpoint[v]
    BY DEF MoveAside, TypeOK
  <1>4. NoTree.gen = 0 /\ next.gen \in 1..MaxAttempts /\ attempt \in Nat
    BY <1>1, BoundsAssumption DEF Staged, Exists, TypeOK, Tree, NoTree
  <1>5. (PlacesWhole /\ PlacesEmpty /\ Registered)'
    BY <1>1, <1>3, <1>4 DEF DiskInv, PlacesWhole, PlacesEmpty, Registered, Staged, Exists
  <1>6. Newest'
    BY <1>1, <1>2, <1>3, <1>4 DEF DiskInv, Newest, Unstaged, Staged, Exists
  <1>7. Standing'
    BY <1>1, <1>2, <1>3, <1>4 DEF Standing, At, Staged, Exists
  <1>8. \A p \in Versions : p = latest => InForce(p)' = next
    BY <1>1, <1>3, <1>4 DEF InForce, Exists, Staged
  <1>9. \A v \in Versions : v # latest => InForce(v) = checkpoint[v] /\ InForce(v)' = checkpoint[v]
    BY <1>1, <1>3 DEF InForce, Exists
  <1>10. DiskInv'
    BY <1>5, <1>6, <1>7 DEF DiskInv
  <1>11. CASE Exists(checkpoint[latest])
    <2>1. PICK p \in Versions : p = latest
      BY <1>1
    <2>2. InForce(p) = checkpoint[p] /\ checkpoint[p].gen < next.gen
      BY <1>1, <1>11, <2>1 DEF InForce, DiskInv, Newest, Staged
    <2>3. Commits(p)
      BY <1>1, <1>4, <1>8, <1>9, <2>1, <2>2 DEF Commits
    <2>4. QED
      BY <1>10, <2>3 DEF Committed
  <1>12. CASE ~Exists(checkpoint[latest])
    BY <1>1, <1>8, <1>9, <1>10, <1>12 DEF Kept, InForce, Staged
  <1>13. QED
    BY <1>11, <1>12

(* The move in of the staged checkpoint, which was in force already.       *)
LEMMA PublishKeeps ==
    ASSUME TypeOK, DiskInv, Publish
    PROVE  DiskInv' /\ Kept
  <1>1. /\ UNCHANGED <<previous, pending, latest, attempt>> /\ next' = NoTree
        /\ pending = latest /\ Staged /\ next.whole /\ ~Exists(checkpoint[latest])
        /\ latest \in Versions /\ latest # 0
    BY DEF Publish, DiskInv, Standing, TypeOK, Versions
  <1>2. pc'.at = "published"
    BY Counters DEF Publish, Goto
  <1>3. \A v \in Versions : checkpoint'[v] = IF v = latest THEN next ELSE checkpoint[v]
    BY DEF Publish, TypeOK
  <1>4. NoTree.gen = 0 /\ next.gen = attempt /\ attempt # 0 /\ attempt \in Nat
    BY <1>1, BoundsAssumption DEF Staged, Exists, TypeOK, Tree, NoTree
  <1>5. (PlacesWhole /\ PlacesEmpty /\ Registered)'
    BY <1>1, <1>3, <1>4 DEF DiskInv, PlacesWhole, PlacesEmpty, Registered, Exists
  <1>6. Newest'
    BY <1>1, <1>2, <1>3, <1>4 DEF DiskInv, Newest, Unstaged, Exists
  <1>7. Standing'
    BY <1>1, <1>2, <1>3, <1>4 DEF Standing, At, Exists
  <1>8. Kept
    BY <1>1, <1>3, <1>4 DEF Kept, InForce, Staged, Exists
  <1>9. QED
    BY <1>5, <1>6, <1>7, <1>8 DEF DiskInv

-----------------------------------------------------------------------------
(* A step of the whole: the disk invariant, and what comes into force.     *)
LEMMA DiskStep ==
    ASSUME TypeOK, DiskInv, [Next]_vars
    PROVE  DiskInv' /\ (Kept \/ Committed)
  <1>1. CASE Recovery
    BY <1>1, RecoveryEndKeeps, RecoverKeeps, SweepKeeps DEF Recovery, RecoverSweeps
  <1>2. CASE Preparation
    BY <1>2, SweepKeeps, StageKeeps, MarkCommits, MoveAsideCommits, PublishKeeps, ProcessKeeps
    DEF Preparation, PrepareClears, PrepareSweeps
  <1>3. CASE PrepareCall \/ Fail \/ CreateArchive \/ Crash
    BY <1>3, ProcessKeeps
  <1>4. CASE UNCHANGED vars
    <2>1. DiskInv'
      BY <1>4 DEF vars, files, DiskInv, PlacesWhole, PlacesEmpty, Newest, Unstaged, Registered,
         Standing, Staged, At, Exists
    <2>2. QED
      BY <1>4, <2>1, FilesAlone DEF vars
  <1>5. QED
    BY <1>1, <1>2, <1>3, <1>4 DEF Next, Quiescent

(* A return names the checkpoint in place; all other steps leave the       *)
(* returned ones as they are, and a commit is newer.                       *)
LEMMA ReturnedStep ==
    ASSUME TypeOK, DiskInv, ReturnedIsKept, [Next]_vars
    PROVE  ReturnedIsKept'
  <1>1. \A v \in Versions : InForce(v) \in Tree /\ InForce(v)' \in Tree
    BY TypeStep DEF TypeOK, InForce
  <1>2. \A v \in Versions : /\ InForce(v).gen \in Nat /\ InForce(v)'.gen \in Nat
                            /\ returned[v] \in Nat
    BY <1>1 DEF Tree, TypeOK
  <1>3. \A v \in Versions :
            \/ InForce(v)' = InForce(v)
            \/ InForce(v)'.whole /\ InForce(v)'.gen > InForce(v).gen
    <2>1. CASE Kept
      BY <2>1 DEF Kept
    <2>2. CASE Committed
      BY <1>2, <2>2 DEF Committed, Commits, TypeOK
    <2>3. QED
      BY <2>1, <2>2, DiskStep
  <1>4. CASE PrepareReturns
    <2>1. /\ UNCHANGED files /\ pc.at = "published" /\ latest \in Versions
          /\ returned' = [returned EXCEPT ![latest] = attempt]
      BY <1>4 DEF PrepareReturns, At, TypeOK
    <2>2. Exists(checkpoint[latest]) /\ checkpoint[latest].gen = attempt
      BY <2>1 DEF DiskInv, Standing, At
    <2>3. InForce(latest) = checkpoint[latest] /\ InForce(latest).whole
      BY <2>1, <2>2 DEF InForce, DiskInv, PlacesWhole
    <2>4. \A v \in Versions : InForce(v)' = InForce(v)
      BY <2>1, FilesAlone DEF Kept
    <2>5. \A v \in Versions : returned'[v] = IF v = latest THEN attempt ELSE returned[v]
      BY <2>1 DEF TypeOK
    <2>6. attempt \in Nat
      BY DEF TypeOK
    <2>7. QED
      BY <1>2, <2>2, <2>3, <2>4, <2>5, <2>6 DEF ReturnedIsKept
  <1>5. CASE returned' = returned
    BY <1>2, <1>3, <1>5 DEF ReturnedIsKept
  <1>6. PrepareReturns \/ returned' = returned
    BY DEF Next, vars, Recovery, Preparation, RecoverNothing, Recover, RecoverSweeps, RecoverSwept,
       PrepareClears, PrepareSweeps, Sweep, StageBegins, StageEnds, Mark, MoveAside, Publish,
       PrepareCall, Fail, CreateArchive, Crash, Quiescent
  <1>7. QED
    BY <1>4, <1>5, <1>6

(* The disk is as each step of a preparation or recovery expects it, in    *)
(* every reachable state.                                                  *)
THEOREM Inductive == Spec => []IInv
  <1>1. IInv /\ [Next]_vars => IInv'
    BY TypeStep, DiskStep, ReturnedStep DEF IInv
  <1>2. QED
    BY <1>1, InitInv, PTL DEF Spec

(* The variables of a publication keep their types, whatever the numbers   *)
(* of versions, preparations, crashes and errors.                          *)
THEOREM TypeCorrect == Spec => []TypeOK
  <1>1. IInv => TypeOK
    BY DEF IInv
  <1>2. QED
    BY <1>1, Inductive, PTL

(* The checkpoint whose manifest prepareCheckpoint returned stays in force *)
(* in its version until a newer one is, and the one in force is complete.  *)
THEOREM CheckpointsAreKept == Spec => []ReturnedIsKept
  <1>1. IInv => ReturnedIsKept
    BY DEF IInv
  <1>2. QED
    BY <1>1, Inductive, PTL

(* A registered publication always has a checkpoint in place or a complete *)
(* staged one, so recovery never has to put the old one back.              *)
THEOREM NeverUndone == Spec => []Registered
  <1>1. IInv => Registered
    BY DEF IInv, DiskInv
  <1>2. QED
    BY <1>1, Inductive, PTL

-----------------------------------------------------------------------------
(* The abstract replacement sees the generation in force: none in the      *)
(* beginning, and a step that puts one in force commits it.                *)
LEMMA InitReplaces ==
    ASSUME Init
    PROVE  Replace!Init
  <1>1. \A v \in Versions : InForce(v) = NoTree
    BY DEF Init, InForce
  <1>2. Generation(NoTree) = 0
    BY DEF Generation, NoTree, Exists
  <1>3. QED
    BY <1>1, <1>2 DEF Replace!Init, InForceNow

LEMMA StepReplaces ==
    ASSUME IInv, [Next]_vars
    PROVE  [Replace!Next]_InForceNow
  <1>1. TypeOK /\ DiskInv /\ TypeOK' /\ DiskInv'
    BY TypeStep, DiskStep DEF IInv
  <1>2. \A v \in Versions : Generation(InForce(v)) = InForce(v).gen
    BY <1>1, InForceIsWhole DEF Generation
  <1>3. CASE Kept
    BY <1>3 DEF Kept, InForceNow, Generation, Exists
  <1>4. CASE Committed
    <2>1. PICK p \in Versions : Commits(p)
      BY <1>4 DEF Committed
    <2>2. next.gen \in 1..MaxAttempts /\ next.whole /\ InForceNow[p] = InForce(p).gen
      BY <1>2, <2>1 DEF Commits, InForceNow
    <2>3. InForceNow' = [InForceNow EXCEPT ![p] = next.gen]
      BY <2>1, <2>2 DEF Commits, InForceNow, Generation, Exists
    <2>4. InForce(p).gen \in Nat /\ next.gen \in Nat
      BY <1>1, <2>2, InForceIsWhole DEF Tree
    <2>5. Replace!Commit(p, next.gen)
      BY <2>1, <2>2, <2>3, <2>4 DEF Replace!Commit, Commits
    <2>6. QED
      BY <2>2, <2>5 DEF Replace!Next
  <1>5. QED
    BY <1>1, <1>3, <1>4, DiskStep

(* A checkpoint publication is an atomic replacement, version by version:  *)
(* a newer complete checkpoint comes into force at once, or nothing does.  *)
THEOREM PublicationIsAtomic == Spec => ImplementsReplace
  <1>1. Init => Replace!Init
    BY InitReplaces
  <1>2. IInv /\ [Next]_vars => [Replace!Next]_InForceNow
    BY StepReplaces
  <1>3. QED
    BY <1>1, <1>2, Inductive, PTL DEF Spec, ImplementsReplace, Replace!ReplaceSpec

=============================================================================
