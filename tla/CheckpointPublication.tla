----------------------- MODULE CheckpointPublication -----------------------
(***************************************************************************)
(* The checkpoint of an archive version: prepareCheckpoint stages a new    *)
(* one in local/checkpoint-publication, registers the publication, moves   *)
(* the old checkpoint aside and the new one in; recoverCheckpointPublica-  *)
(* tion finishes or undoes what an error or a crash interrupted.           *)
(*                                                                         *)
(* A backup holds the frozen root while it prepares a checkpoint, so there *)
(* is one publication at a time and no archive is created meanwhile.       *)
(* Generations count the checkpoints staged, 0 is none.  Renames and       *)
(* atomicWrite are atomic; staging and recursive removals are not.         *)
(***************************************************************************)
EXTENDS Naturals

CONSTANTS
    MaxArchives,   \* bound: archive versions
    MaxAttempts,   \* bound: checkpoints prepared
    MaxCrashes,    \* bound: process crashes
    MaxFailures    \* bound: errors, file system or cancellation

ASSUME BoundsAssumption ==
    /\ MaxArchives \in Nat \ {0} /\ MaxAttempts \in Nat
    /\ MaxCrashes \in Nat /\ MaxFailures \in Nat

Versions == 1..MaxArchives
Tree == [gen: 0..MaxAttempts, whole: BOOLEAN]
NoTree == [gen |-> 0, whole |-> FALSE]
Exists(tree) == tree.gen # 0

VARIABLES
    checkpoint,  \* versions/<v>/checkpoint
    next,        \* local/checkpoint-publication/next
    previous,    \* local/checkpoint-publication/previous
    pending,     \* the version in pending.json, 0 when there is none
    latest,      \* paths.latestVersion
    pc,          \* where the process stands
    attempt,     \* the checkpoint being prepared
    returned,    \* history: the last generation returned for each version
    crashes, failures

files == <<checkpoint, next, previous, pending>>
budget == <<crashes, failures>>
vars == <<files, latest, pc, attempt, returned, budget>>

\* Recovery runs at boot, at the start of a preparation and in its catch block.
Callers == {"boot", "prepare", "catch"}
Recovering == [at: {"recover", "sweep"}, for: Callers]
Preparing == [at: {"clear", "stage", "staged", "marked", "aside", "published"}, for: {"prepare"}]
Idle == [at |-> "idle", for |-> "prepare"]

At(label) == pc.at = label
Goto(label) == pc' = [pc EXCEPT !.at = label]

TypeOK ==
    /\ checkpoint \in [Versions -> Tree]
    /\ next \in Tree /\ previous \in Tree
    /\ pending \in 0..MaxArchives
    /\ latest \in Versions
    /\ pc \in Recovering \cup Preparing \cup {Idle}
    /\ attempt \in 0..MaxAttempts /\ returned \in [Versions -> 0..MaxAttempts]
    /\ crashes \in 0..MaxCrashes /\ failures \in 0..MaxFailures

Init ==
    /\ checkpoint = [v \in Versions |-> NoTree]
    /\ next = NoTree /\ previous = NoTree /\ pending = 0
    /\ latest = 1
    /\ pc = [at |-> "recover", for |-> "boot"]
    /\ attempt = 0 /\ returned = [v \in Versions |-> 0]
    /\ crashes = 0 /\ failures = 0

-----------------------------------------------------------------------------
(* Where a recovery that ends lets its caller go on: the preparation, the  *)
(* error it was called for, the server.                                    *)
RecoveryEnds == pc' = IF pc.for = "prepare" THEN [pc EXCEPT !.at = "clear"] ELSE Idle

RecoverNothing ==
    /\ At("recover") /\ pending = 0
    /\ RecoveryEnds
    /\ UNCHANGED <<files, latest, attempt, returned, budget>>

(* A registered publication that left no checkpoint in place is completed, *)
(* or undone when the new one is gone.                                     *)
Recover ==
    /\ At("recover") /\ pending # 0
    /\ \/ /\ Exists(checkpoint[pending])
          /\ UNCHANGED <<checkpoint, next, previous>>
       \/ /\ ~Exists(checkpoint[pending]) /\ Exists(next)
          /\ checkpoint' = [checkpoint EXCEPT ![pending] = next]
          /\ next' = NoTree
          /\ UNCHANGED previous
       \/ /\ ~Exists(checkpoint[pending]) /\ ~Exists(next) /\ Exists(previous)
          /\ checkpoint' = [checkpoint EXCEPT ![pending] = previous]
          /\ previous' = NoTree
          /\ UNCHANGED next
    /\ Goto("sweep")
    /\ UNCHANGED <<pending, latest, attempt, returned, budget>>

(* rm(work) removes the items in any order, a tree file by file.           *)
Thinned(tree) == {NoTree} \cup {[tree EXCEPT !.whole = FALSE]}
Sweep ==
    /\ \/ pending' = 0 /\ pending # 0 /\ UNCHANGED <<next, previous>>
       \/ next' \in Thinned(next) /\ next' # next /\ UNCHANGED <<pending, previous>>
       \/ previous' \in Thinned(previous) /\ previous' # previous /\ UNCHANGED <<pending, next>>
    /\ UNCHANGED <<checkpoint, latest, pc, attempt, returned, budget>>
Swept == pending = 0 /\ next = NoTree /\ previous = NoTree

RecoverSweeps == At("sweep") /\ Sweep

RecoverSwept ==
    /\ At("sweep") /\ Swept
    /\ RecoveryEnds
    /\ UNCHANGED <<files, latest, attempt, returned, budget>>

-----------------------------------------------------------------------------
PrepareCall ==
    /\ pc = Idle /\ attempt < MaxAttempts
    /\ attempt' = attempt + 1
    /\ pc' = [at |-> "recover", for |-> "prepare"]
    /\ UNCHANGED <<files, latest, returned, budget>>

PrepareClears == At("clear") /\ Sweep

(* next/ is made, and the snapshot and the manifest are being written.     *)
StageBegins ==
    /\ At("clear") /\ Swept
    /\ next' = [gen |-> attempt, whole |-> FALSE]
    /\ Goto("stage")
    /\ UNCHANGED <<checkpoint, previous, pending, latest, attempt, returned, budget>>

StageEnds ==
    /\ At("stage")
    /\ next' = [next EXCEPT !.whole = TRUE]
    /\ Goto("staged")
    /\ UNCHANGED <<checkpoint, previous, pending, latest, attempt, returned, budget>>

(* Mutation: the publication is registered before it is complete.          *)
MarkEarly ==
    /\ At("stage") \/ At("staged")
    /\ pending' = latest
    /\ Goto("marked")
    /\ UNCHANGED <<checkpoint, next, previous, latest, attempt, returned, budget>>

(* Mutation: the publication is not registered.                            *)
MarkNothing ==
    /\ At("staged")
    /\ Goto("marked")
    /\ UNCHANGED <<files, latest, attempt, returned, budget>>

Mark ==
    /\ At("staged")
    /\ pending' = latest
    /\ Goto("marked")
    /\ UNCHANGED <<checkpoint, next, previous, latest, attempt, returned, budget>>

MoveAside ==
    /\ At("marked")
    /\ previous' = checkpoint[latest]
    /\ checkpoint' = [checkpoint EXCEPT ![latest] = NoTree]
    /\ Goto("aside")
    /\ UNCHANGED <<next, pending, latest, attempt, returned, budget>>

(* The two later writes of pending.json change its phase only, which       *)
(* recovery does not read; either may fail (Fail).                         *)
Publish ==
    /\ At("aside")
    /\ checkpoint' = [checkpoint EXCEPT ![latest] = next]
    /\ next' = NoTree
    /\ Goto("published")
    /\ UNCHANGED <<previous, pending, latest, attempt, returned, budget>>

PrepareSweeps == At("published") /\ Sweep

PrepareReturns ==
    /\ At("published") /\ Swept
    /\ pc' = Idle
    /\ returned' = [returned EXCEPT ![latest] = attempt]
    /\ UNCHANGED <<files, latest, attempt, budget>>

(* An error: a preparation goes to its catch block, which recovers; one in *)
(* a recovery, or before the try block, is thrown to the caller, and a     *)
(* boot is tried again.                                                    *)
Fail ==
    /\ pc # Idle /\ failures < MaxFailures
    /\ failures' = failures + 1
    /\ pc' = IF pc.at \in {"stage", "staged", "marked", "aside", "published"}
             THEN [at |-> "recover", for |-> "catch"]
             ELSE IF pc.for = "boot" THEN [at |-> "recover", for |-> "boot"]
             ELSE Idle
    /\ UNCHANGED <<files, latest, attempt, returned, crashes>>

(* A version published by archive creation, which the freeze keeps apart   *)
(* from preparations; the new version has no checkpoint yet.               *)
CreateArchive ==
    /\ pc = Idle /\ latest < MaxArchives
    /\ latest' = latest + 1
    /\ UNCHANGED <<files, pc, attempt, returned, budget>>

Crash ==
    /\ crashes < MaxCrashes
    /\ crashes' = crashes + 1
    /\ pc' = [at |-> "recover", for |-> "boot"]
    /\ UNCHANGED <<files, latest, attempt, returned, failures>>

-----------------------------------------------------------------------------
Recovery == RecoverNothing \/ Recover \/ RecoverSweeps \/ RecoverSwept
Preparation ==
    \/ PrepareClears \/ StageBegins \/ StageEnds \/ Mark \/ MoveAside \/ Publish
    \/ PrepareSweeps \/ PrepareReturns

Quiescent == pc = Idle /\ UNCHANGED vars

Next ==
    \/ Recovery \/ PrepareCall \/ Preparation \/ Fail \/ CreateArchive \/ Crash
    \/ Quiescent

Spec == Init /\ [][Next]_vars

-----------------------------------------------------------------------------
(* The generation in force for a version: the one in place, else the one   *)
(* that recovery would put there.                                          *)
InForce(v) ==
    IF Exists(checkpoint[v]) \/ pending # v THEN checkpoint[v]
    ELSE IF Exists(next) THEN next ELSE previous

(* The checkpoint whose manifest a preparation returned stays in force in  *)
(* its version until a newer one is, and the one in force is complete,     *)
(* through errors, crashes, removals half done and later archives.         *)
ReturnedIsKept ==
    \A v \in Versions : returned[v] > 0 => InForce(v).whole /\ InForce(v).gen >= returned[v]

(* Generations in force only get newer, version by version, and a          *)
(* generation comes into force complete or not at all: a backup, a restore *)
(* or a boot sees no other.                                                *)
Incomplete == MaxAttempts + 1
Generation(tree) == IF Exists(tree) /\ ~tree.whole THEN Incomplete ELSE tree.gen
InForceNow == [v \in Versions |-> Generation(InForce(v))]
Replace == INSTANCE AtomicReplace WITH
    Places <- Versions, Generations <- 1..MaxAttempts, inForce <- InForceNow
ImplementsReplace == Replace!ReplaceSpec

=============================================================================
