--------------------------- MODULE LibraryRestore ---------------------------
(***************************************************************************)
(* Library protection: the restore of a recovery point over the library,   *)
(* with its journal and maintenance mode, and the jobs that run beside it: *)
(* archive creation, backup and retention.  A restore plan is named after  *)
(* its recovery point.                                                     *)
(*                                                                         *)
(* What a library holds is the generation it came from: Old, a recovery    *)
(* point, or Mixed when parts of several are on the disk.  One repository  *)
(* with one lock; the job manager and the coordinator have modules of      *)
(* their own and appear here as the stage of a job and the freeze.         *)
(***************************************************************************)
EXTENDS Naturals

CONSTANTS
    Points,      \* recovery points that exist at first
    Archive, Backup, Retention,   \* the other jobs, one of each
    Old, Mixed, None,
    MaxCalls,    \* bound: jobs that are asked for
    MaxFailures, \* bound: operations that fail
    MaxCrashes   \* bound: process crashes

ASSUME BoundsAssumption ==
    MaxCalls \in Nat /\ MaxFailures \in Nat /\ MaxCrashes \in Nat

Others == {Archive, Backup, Retention}
Jobs == Points \cup Others
Generations == Points \cup {Old, Mixed}

ASSUME NamesAssumption ==
    /\ Archive # Backup /\ Archive # Retention /\ Backup # Retention
    /\ Others \cap Points = {} /\ Mixed \notin Points \cup {Old}
    /\ None \notin Jobs \cup Generations

VARIABLES
    tree,      \* versions/: the files of the library
    database,  \* the runtime database
    context,   \* the generation the open database handle belongs to
    journal,   \* maintenance.json and its copy in memory
    closed,    \* libraryMaintenance
    leftover,  \* the generation an unfinished publication belongs to
    points,    \* recovery points in the repository
    spared,    \* the points the retention job in progress protects
    stage,     \* where each job stands
    lock,      \* the job that holds the repository
    freeze,    \* the job that holds the storage root
    orphans,   \* nativeProcessesBusy
    resuming,  \* processTimer is between its checks and its end
    backedUp,  \* history: what backups were made of
    replayed,  \* history: a publication was replayed on another library
    calls, failures, crashes

disk == <<tree, database, leftover>>
server == <<context, closed, orphans, resuming>>
locks == <<lock, freeze>>
budget == <<calls, failures, crashes>>
vars == <<disk, server, locks, journal, points, spared, stage, backedUp, replayed, budget>>

\* called, starting: restore() has made its checks, has written the journal.
Stages == {"idle", "called", "starting", "queued", "locking", "freezing", "running",
           "entering", "restoring", "installing", "reloading", "leaving", "publishing"}

TypeOK ==
    /\ tree \in Generations /\ database \in Generations
    /\ context \in Generations \cup {None} /\ leftover \in Generations \cup {None}
    /\ journal \in Points \cup {None}
    /\ points \subseteq Points /\ spared \subseteq Points
    /\ stage \in [Jobs -> Stages]
    /\ lock \in Jobs \cup {None} /\ freeze \in Jobs \cup {None}
    /\ closed \in BOOLEAN /\ orphans \in BOOLEAN /\ resuming \in BOOLEAN /\ replayed \in BOOLEAN
    /\ backedUp \subseteq Generations
    /\ calls \in 0..MaxCalls /\ failures \in 0..MaxFailures /\ crashes \in 0..MaxCrashes

Init ==
    /\ tree = Old /\ database = Old /\ context = Old /\ leftover = None
    /\ journal = None /\ closed = FALSE /\ orphans = FALSE /\ resuming = FALSE
    /\ points = Points /\ spared = {}
    /\ stage = [k \in Jobs |-> "idle"] /\ lock = None /\ freeze = None
    /\ backedUp = {} /\ replayed = FALSE
    /\ calls = 0 /\ failures = 0 /\ crashes = 0

\* A job is in the job manager's map from its first record on.
Active(k) == stage[k] \notin {"idle", "called", "starting"}
Writable == journal = None /\ ~closed
\* Requests on the library are admitted.
Serving == Writable

Goto(k, label) == stage' = [stage EXCEPT ![k] = label]
Fails == failures < MaxFailures /\ failures' = failures + 1
Asks == calls < MaxCalls /\ calls' = calls + 1

(* Mutation: the repository stays locked when its job fails.               *)
EndLocked(k) ==
    /\ Goto(k, "idle")
    /\ freeze' = IF freeze = k THEN None ELSE freeze
    /\ UNCHANGED lock

(* A job settles and leaves the freeze and the repository, in the finally  *)
(* blocks around it.                                                       *)
End(k) ==
    /\ Goto(k, "idle")
    /\ lock' = IF lock = k THEN None ELSE lock
    /\ freeze' = IF freeze = k THEN None ELSE freeze

(* The recovery of a publication completes it on whatever library is there *)
(* (or finds no place for it and fails, which changes nothing).            *)
Replay ==
    /\ leftover' = None
    /\ IF leftover \in {None, tree} THEN UNCHANGED <<tree, replayed>>
       ELSE tree' = Mixed /\ replayed' = TRUE

-----------------------------------------------------------------------------
(* restore: its checks, then its journal, then its job.  It awaits between *)
(* the three.                                                              *)
RestoreCall(p) ==
    /\ stage[p] = "idle" /\ Asks
    /\ ~orphans /\ freeze = None
    /\ \A q \in Points \cup {Archive, Backup} : ~Active(q)
    /\ Goto(p, "called")
    /\ UNCHANGED <<disk, server, locks, journal, points, spared, backedUp, replayed, failures, crashes>>

RestoreRecords(p) ==
    /\ stage[p] = "called"
    /\ \/ Goto(p, "starting") /\ journal' = p /\ UNCHANGED failures
       \/ Goto(p, "idle") /\ Fails /\ UNCHANGED journal
    /\ UNCHANGED <<disk, server, locks, points, spared, backedUp, replayed, calls, crashes>>

(* The other jobs are started by requests and by the scheduler.            *)
Request(k) ==
    /\ k \in Others /\ stage[k] = "idle" /\ Asks
    /\ Goto(k, "starting")
    /\ UNCHANGED <<disk, server, locks, journal, points, spared, backedUp, replayed, failures, crashes>>

Accept(k) ==
    /\ stage[k] = "starting"
    /\ \/ Goto(k, "queued") /\ UNCHANGED failures
       \/ Goto(k, "idle") /\ Fails
    /\ UNCHANGED <<disk, server, locks, journal, points, spared, backedUp, replayed, calls, crashes>>

(* Mutation: a restore does not wait for the repository.                   *)
HandlerUnlocked(k) ==
    /\ stage[k] = "queued"
    /\ Goto(k, CASE k \in Points -> IF journal \in {None, k} THEN "freezing" ELSE "idle"
                 [] k = Backup -> IF Writable THEN "locking" ELSE "idle"
                 [] k = Archive -> IF closed THEN "idle" ELSE "freezing"
                 [] k = Retention -> "locking")
    /\ UNCHANGED <<disk, server, locks, journal, points, spared, backedUp, replayed, budget>>

(* The checks of each handler before it waits.                             *)
HandlerBegins(k) ==
    /\ stage[k] = "queued"
    /\ Goto(k, CASE k \in Points -> IF journal \in {None, k} THEN "locking" ELSE "idle"
                 [] k = Backup -> IF Writable THEN "locking" ELSE "idle"
                 [] k = Archive -> IF closed THEN "idle" ELSE "freezing"
                 [] k = Retention -> "locking")
    /\ UNCHANGED <<disk, server, locks, journal, points, spared, backedUp, replayed, budget>>

(* locks.run; retention reads the journal when it has the repository.      *)
TakeLock(k) ==
    /\ stage[k] = "locking" /\ lock = None
    /\ lock' = k
    /\ IF k = Retention
       THEN Goto(k, "running") /\ spared' = points \cap {journal}
       ELSE Goto(k, "freezing") /\ UNCHANGED spared
    /\ UNCHANGED <<disk, server, freeze, journal, points, backedUp, replayed, budget>>

(* coordinator.freeze; a cancellation ends the wait.                       *)
TakeFreeze(k) ==
    /\ stage[k] = "freezing"
    /\ \/ freeze = None /\ freeze' = k /\ Goto(k, "running") /\ UNCHANGED <<lock, failures>>
       \/ End(k) /\ Fails
    /\ UNCHANGED <<disk, server, journal, points, spared, backedUp, replayed, calls, crashes>>

-----------------------------------------------------------------------------
(* The restore handler under the freeze.  It looks for its point again,    *)
(* journals, and closes the library before it drains the requests.         *)
RestoreChecks(p) ==
    /\ p \in Points /\ stage[p] = "running"
    /\ \/ p \in points /\ journal' = p /\ closed' = TRUE
          /\ Goto(p, "entering") /\ UNCHANGED <<locks, failures>>
       \/ End(p) /\ UNCHANGED <<journal, closed>>
          /\ IF p \in points THEN Fails ELSE UNCHANGED failures
    /\ UNCHANGED <<disk, context, orphans, resuming, points, spared, backedUp, replayed, calls, crashes>>

(* enterMaintenance ends: the database is closed and files are replaced.   *)
Enters(p) ==
    /\ stage[p] = "entering"
    /\ \/ context' = None /\ tree' = Mixed
          /\ Goto(p, "restoring") /\ UNCHANGED <<locks, failures>>
       \/ End(p) /\ Fails /\ UNCHANGED <<context, tree>>
    /\ UNCHANGED <<database, leftover, closed, orphans, resuming, journal, points, spared,
                   backedUp, replayed, calls, crashes>>

(* restic restores over the tree; every phase is journalled again.         *)
EngineRestores(p) ==
    /\ stage[p] = "restoring"
    /\ \/ tree' = p /\ journal' = p /\ Goto(p, "installing") /\ UNCHANGED <<locks, failures>>
       \/ End(p) /\ Fails /\ tree' \in {tree, p} /\ UNCHANGED journal
    /\ UNCHANGED <<database, leftover, server, points, spared, backedUp, replayed, calls, crashes>>

(* Mutation: the journal goes before the database is in place.             *)
InstallsUnjournalled(p) ==
    /\ stage[p] = "installing"
    /\ \/ database' = p /\ Goto(p, "reloading") /\ UNCHANGED <<locks, failures>>
       \/ End(p) /\ Fails /\ UNCHANGED database
    /\ journal' = None
    /\ UNCHANGED <<tree, leftover, server, points, spared, backedUp, replayed, calls, crashes>>

(* installDatabase: the rename, and then the selection of the version.     *)
Installs(p) ==
    /\ stage[p] = "installing"
    /\ \/ database' = p /\ journal' = p /\ Goto(p, "reloading") /\ UNCHANGED <<locks, failures>>
       \/ End(p) /\ Fails /\ database' \in {database, p} /\ UNCHANGED journal
    /\ UNCHANGED <<tree, leftover, server, points, spared, backedUp, replayed, calls, crashes>>

Reloads(p) ==
    /\ stage[p] = "reloading"
    /\ \/ context' = database /\ Goto(p, "leaving") /\ UNCHANGED <<locks, failures>>
       \/ End(p) /\ Fails /\ context' = None
    /\ UNCHANGED <<disk, closed, orphans, resuming, journal, points, spared, backedUp, replayed, calls, crashes>>

(* The journal goes last and the library opens.                            *)
Leaves(p) ==
    /\ stage[p] = "leaving" /\ End(p)
    /\ \/ journal' = None /\ closed' = FALSE /\ UNCHANGED failures
       \/ Fails /\ UNCHANGED <<journal, closed>>
    /\ UNCHANGED <<disk, context, orphans, resuming, points, spared, backedUp, replayed, calls, crashes>>

-----------------------------------------------------------------------------
(* Archive creation: replays what is left over, registers a publication of *)
(* its own and completes it; a failure may leave it registered and close   *)
(* the library.  A closed database cannot be archived.                     *)
ArchiveRegisters ==
    /\ stage[Archive] = "running"
    /\ IF context # None
       THEN \/ /\ leftover \in {None, tree} /\ UNCHANGED <<tree, replayed>>
               /\ leftover' = tree /\ Goto(Archive, "publishing") /\ UNCHANGED <<locks, failures>>
            \/ /\ leftover \notin {None, tree} /\ tree' = Mixed /\ replayed' = TRUE
               /\ leftover' = Mixed /\ Goto(Archive, "publishing") /\ UNCHANGED <<locks, failures>>
            \/ End(Archive) /\ Fails /\ UNCHANGED <<tree, leftover, replayed>>
       ELSE End(Archive) /\ UNCHANGED <<tree, leftover, replayed, failures>>
    /\ UNCHANGED <<database, server, journal, points, spared, backedUp, calls, crashes>>

ArchiveEnds ==
    /\ stage[Archive] = "publishing" /\ End(Archive)
    /\ \/ leftover' = None /\ context' = database /\ UNCHANGED <<closed, failures>>
       \/ Fails /\ closed' = TRUE /\ context' = None /\ leftover' \in {leftover, None}
    /\ UNCHANGED <<tree, database, orphans, resuming, journal, points, spared, backedUp, replayed, calls, crashes>>

(* Mutation: the handler relies on the check it made before it waited.     *)
BackupTrusts ==
    /\ stage[Backup] = "running" /\ End(Backup)
    /\ Replay /\ backedUp' = backedUp \cup {tree'}
    /\ UNCHANGED <<database, server, journal, points, spared, budget>>

(* Backup: checks again under the freeze; the preparation of a checkpoint  *)
(* recovers an earlier one first, and may leave its own.                   *)
BackupRuns ==
    /\ stage[Backup] = "running" /\ End(Backup)
    /\ IF Writable
       THEN \/ Replay /\ backedUp' = backedUp \cup {tree'} /\ UNCHANGED failures
            \/ Fails /\ leftover = None /\ leftover' \in {tree, None}
               /\ UNCHANGED <<tree, backedUp, replayed>>
       ELSE UNCHANGED <<tree, leftover, backedUp, replayed, failures>>
    /\ UNCHANGED <<database, server, journal, points, spared, calls, crashes>>

(* Retention, and the deletion of a single point.                          *)
RetentionDeletes ==
    /\ stage[Retention] = "running" /\ End(Retention)
    /\ \E gone \in SUBSET (points \ spared) : points' = points \ gone
    /\ UNCHANGED <<disk, server, journal, spared, backedUp, replayed, budget>>

-----------------------------------------------------------------------------
(* The process stops and starts again.  Programs it ran may still be       *)
(* running; then, or with a journal, the library stays closed and nothing  *)
(* is recovered.                                                           *)
NativeWork == {k \in Jobs : stage[k] \in {"restoring", "running"} /\ k # Archive}
Crash ==
    /\ crashes < MaxCrashes /\ crashes' = crashes + 1
    /\ stage' = [k \in Jobs |-> "idle"] /\ lock' = None /\ freeze' = None
    /\ resuming' = FALSE
    /\ orphans' \in IF NativeWork # {} \/ orphans THEN BOOLEAN ELSE {FALSE}
    /\ IF orphans' \/ journal # None
       THEN closed' = TRUE /\ context' = None /\ UNCHANGED <<tree, leftover, replayed>>
       ELSE closed' = FALSE /\ context' = database /\ Replay
    /\ UNCHANGED <<database, journal, points, spared, backedUp, calls, failures>>

(* processTimer: once those programs have ended it recovers and opens the  *)
(* library, unless a restore has to be finished first.                     *)
ProcessesEnd ==
    /\ orphans /\ ~resuming /\ orphans' = FALSE
    /\ resuming' = (journal = None)
    /\ UNCHANGED <<disk, context, closed, locks, journal, points, spared, stage, backedUp, replayed, budget>>

Resumes ==
    /\ resuming /\ resuming' = FALSE
    /\ Replay /\ context' = database /\ closed' = FALSE
    /\ UNCHANGED <<database, orphans, locks, journal, points, spared, stage, backedUp, budget>>

-----------------------------------------------------------------------------
RestoreSteps(p) ==
    \/ RestoreRecords(p) \/ RestoreChecks(p) \/ Enters(p) \/ EngineRestores(p)
    \/ Installs(p) \/ Reloads(p) \/ Leaves(p)
JobSteps(k) == Accept(k) \/ HandlerBegins(k) \/ TakeLock(k) \/ TakeFreeze(k)
OtherSteps == ArchiveRegisters \/ ArchiveEnds \/ BackupRuns \/ RetentionDeletes

Next ==
    \/ \E p \in Points : RestoreCall(p) \/ RestoreSteps(p)
    \/ \E k \in Jobs : Request(k) \/ JobSteps(k)
    \/ OtherSteps \/ Crash \/ ProcessesEnd \/ Resumes

(* Steps of jobs end, successfully or not, and locks are granted in the    *)
(* order they are asked for.                                               *)
Spec == Init /\ [][Next]_vars
FairSpec ==
    /\ Spec
    /\ \A p \in Points : WF_vars(RestoreSteps(p))
    /\ \A k \in Jobs : SF_vars(JobSteps(k))
    /\ WF_vars(OtherSteps)

-----------------------------------------------------------------------------
(* A library that is served is whole: its files, its database and the open *)
(* handle are of one generation, wherever a restore failed or stopped.     *)
(* The exception is a replayed publication (README, findings).             *)
ServedIsWhole == Serving /\ ~replayed /\ context # None => tree = database /\ database = context

(* No backup is made of a library between two generations, although the    *)
(* job may have been accepted long before.                                 *)
BackupsAreWhole == ~replayed => Mixed \notin backedUp

(* The point that is being restored is not deleted, whenever retention was *)
(* asked for: both wait for the repository.                                *)
PointKept ==
    \A p \in Points :
        stage[p] \in {"entering", "restoring", "installing", "reloading", "leaving"} => p \in points

(* Every restore that was asked for settles: it waits for the repository   *)
(* and the storage root with every other job, always in this order.        *)
RestoreSettles == \A p \in Points : stage[p] # "idle" ~> stage[p] = "idle"

(* A publication of the library that was replaced is not completed on the  *)
(* restored one.                                                           *)
ReplacesTheLibrary == ~replayed

=============================================================================
