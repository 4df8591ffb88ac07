------------------------ MODULE LibraryRestoreProofs ------------------------
(***************************************************************************)
(* Proofs about library protection, for any set of recovery points, and    *)
(* any number of calls, failures and crashes: a library that is served is  *)
(* whole, so are the backups, and a point that is being restored is kept.  *)
(*                                                                         *)
(* The argument: a restore holds the repository and the storage root, and  *)
(* from before its first change to after its last the journal stands.      *)
(***************************************************************************)
EXTENDS LibraryRestore, TLAPS

Restoring == {"entering", "restoring", "installing", "reloading", "leaving"}

(* A job has the repository when it waits for the storage root, and both   *)
(* when it runs; archive creation has the root only, retention the other.  *)
HasLock(k) == k # Archive /\ stage[k] \in Restoring \cup {"freezing", "running"}
HasFreeze(k) == k # Retention /\ stage[k] \in Restoring \cup {"running", "publishing"}
LocksInv == \A k \in Jobs : (HasLock(k) => lock = k) /\ (HasFreeze(k) => freeze = k)

(* A restore that has begun is journalled, and its point is there.         *)
JournalInv == \A p \in Points : stage[p] \in Restoring => journal # None /\ p \in points

(* What a restore has put in place, and what stands without a journal.     *)
WholeInv ==
    /\ database # Mixed
    /\ journal = None => tree = database /\ context \in {None, database}
    /\ \A p \in Points :
        /\ stage[p] \in {"installing", "reloading", "leaving"} => tree = p
        /\ stage[p] \in {"reloading", "leaving"} => database = p
        /\ stage[p] = "leaving" => context = database
    /\ Mixed \notin backedUp

RestoreInv == LocksInv /\ JournalInv /\ (~replayed => WholeInv)

IInv == TypeOK /\ RestoreInv

-----------------------------------------------------------------------------
LEMMA InitInv ==
    ASSUME Init
    PROVE  IInv
  <1>1. TypeOK
    <2>1. stage \in [Jobs -> Stages]
      BY DEF Init, Stages
    <2>2. 0 \in 0..MaxCalls /\ 0 \in 0..MaxFailures /\ 0 \in 0..MaxCrashes
      BY BoundsAssumption
    <2>3. QED
      BY <2>1, <2>2 DEF Init, TypeOK, Generations
  <1>2. RestoreInv
    BY NamesAssumption DEF Init, RestoreInv, LocksInv, HasLock, HasFreeze, JournalInv, WholeInv,
       Restoring, Jobs
  <1>3. QED
    BY <1>1, <1>2 DEF IInv

(* A job that ends, and one that goes on, in the table of stages.          *)
LEMMA Ends ==
    ASSUME TypeOK, NEW k \in Jobs, End(k)
    PROVE  /\ stage' \in [Jobs -> Stages] /\ stage'[k] = "idle"
           /\ \A j \in Jobs : j # k => stage'[j] = stage[j]
           /\ lock' \in Jobs \cup {None} /\ freeze' \in Jobs \cup {None}
           /\ \A j \in Jobs :
                j # k => (lock = j => lock' = j) /\ (freeze = j => freeze' = j)
  BY DEF TypeOK, End, Goto, Stages

LEMMA Goes ==
    ASSUME TypeOK, NEW k \in Jobs, NEW label \in Stages, Goto(k, label)
    PROVE  /\ stage' \in [Jobs -> Stages] /\ stage'[k] = label
           /\ \A j \in Jobs : j # k => stage'[j] = stage[j]
  BY DEF TypeOK, Goto

LEMMA Failed ==
    ASSUME TypeOK, Fails \/ UNCHANGED failures
    PROVE  failures' \in 0..MaxFailures
  BY BoundsAssumption DEF TypeOK, Fails

LEMMA Asked ==
    ASSUME TypeOK, Asks
    PROVE  calls' \in 0..MaxCalls
  BY BoundsAssumption DEF TypeOK, Asks

LEMMA Replayed ==
    ASSUME TypeOK, Replay
    PROVE  /\ tree' \in Generations /\ leftover' \in Generations \cup {None} /\ replayed' \in BOOLEAN
           /\ ~replayed' => ~replayed /\ tree' = tree
  BY DEF TypeOK, Replay, Generations

-----------------------------------------------------------------------------
(* Types, action by action.                                                *)
LEMMA AcceptanceType ==
    ASSUME TypeOK, NEW k \in Jobs,
           \/ k \in Points /\ (RestoreCall(k) \/ RestoreRecords(k))
           \/ Request(k) \/ JobSteps(k)
    PROVE  TypeOK'
  <1> USE DEF disk, server, locks, budget, Stages
  <1>1. CASE k \in Points /\ RestoreCall(k)
    BY <1>1, Goes, Asked DEF RestoreCall, TypeOK
  <1>2. CASE k \in Points /\ RestoreRecords(k)
    <2>1. stage' \in [Jobs -> Stages] /\ journal' \in Points \cup {None} /\ failures' \in 0..MaxFailures
      BY <1>2, Goes, Failed DEF RestoreRecords, TypeOK
    <2>2. QED
      BY <1>2, <2>1 DEF RestoreRecords, TypeOK
  <1>3. CASE Request(k)
    BY <1>3, Goes, Asked DEF Request, TypeOK
  <1>4. CASE Accept(k)
    <2>1. stage' \in [Jobs -> Stages] /\ failures' \in 0..MaxFailures
      BY <1>4, Goes, Failed DEF Accept
    <2>2. QED
      BY <1>4, <2>1 DEF Accept, TypeOK
  <1>5. CASE HandlerBegins(k)
    <2>1. stage' \in [Jobs -> Stages]
      BY <1>5, NamesAssumption DEF HandlerBegins, Goto, TypeOK, Jobs, Others
    <2>2. QED
      BY <1>5, <2>1 DEF HandlerBegins, TypeOK
  <1>6. CASE TakeLock(k)
    <2>1. stage' \in [Jobs -> Stages] /\ spared' \subseteq Points
      BY <1>6, Goes DEF TakeLock, TypeOK
    <2>2. QED
      BY <1>6, <2>1 DEF TakeLock, TypeOK
  <1>7. CASE TakeFreeze(k)
    <2>1. /\ stage' \in [Jobs -> Stages] /\ failures' \in 0..MaxFailures
          /\ lock' \in Jobs \cup {None} /\ freeze' \in Jobs \cup {None}
      BY <1>7, Goes, Ends, Failed DEF TakeFreeze, TypeOK
    <2>2. QED
      BY <1>7, <2>1 DEF TakeFreeze, TypeOK
  <1>8. QED
    BY <1>1, <1>2, <1>3, <1>4, <1>5, <1>6, <1>7 DEF JobSteps

LEMMA RestoreType ==
    ASSUME TypeOK, NEW p \in Points,
           \/ RestoreChecks(p) \/ Enters(p) \/ EngineRestores(p)
           \/ Installs(p) \/ Reloads(p) \/ Leaves(p)
    PROVE  TypeOK'
  <1> USE DEF disk, server, locks, Stages, Generations
  <1>1. p \in Jobs
    BY DEF Jobs
  <1>2. /\ stage' \in [Jobs -> Stages]
        /\ lock' \in Jobs \cup {None} /\ freeze' \in Jobs \cup {None}
    <2>1. End(p) \/ ((\E label \in Stages : Goto(p, label)) /\ UNCHANGED locks)
      BY DEF RestoreChecks, Enters, EngineRestores, Installs, Reloads, Leaves
    <2>2. QED
      BY <1>1, <2>1, Ends, Goes DEF TypeOK
  <1>3. Fails \/ UNCHANGED failures
    BY DEF RestoreChecks, Enters, EngineRestores, Installs, Reloads, Leaves
  <1>4. failures' \in 0..MaxFailures
    BY <1>3, Failed
  <1>5. UNCHANGED <<leftover, orphans, resuming, points, spared, backedUp, replayed, calls, crashes>>
    BY DEF RestoreChecks, Enters, EngineRestores, Installs, Reloads, Leaves
  <1>6. /\ tree' \in Generations /\ database' \in Generations
        /\ context' \in Generations \cup {None} /\ journal' \in Points \cup {None}
        /\ closed' \in BOOLEAN
    BY DEF RestoreChecks, Enters, EngineRestores, Installs, Reloads, Leaves, TypeOK
  <1>7. QED
    BY <1>2, <1>4, <1>5, <1>6 DEF TypeOK

LEMMA OtherType ==
    ASSUME TypeOK, OtherSteps \/ Crash \/ ProcessesEnd \/ Resumes
    PROVE  TypeOK'
  <1> USE DEF disk, server, locks, budget, Stages
  <1>1. Archive \in Jobs /\ Backup \in Jobs /\ Retention \in Jobs
    BY DEF Jobs, Others
  <1>2. CASE ArchiveRegisters
    <2>1. End(Archive) \/ (Goto(Archive, "publishing") /\ UNCHANGED locks)
      BY <1>2 DEF ArchiveRegisters
    <2>2. /\ stage' \in [Jobs -> Stages]
          /\ lock' \in Jobs \cup {None} /\ freeze' \in Jobs \cup {None}
      BY <1>1, <2>1, Ends, Goes DEF TypeOK
    <2>3. Fails \/ UNCHANGED failures
      BY <1>2 DEF ArchiveRegisters
    <2>4. failures' \in 0..MaxFailures
      BY <2>3, Failed
    <2>5. tree' \in Generations /\ leftover' \in Generations \cup {None} /\ replayed' \in BOOLEAN
      BY <1>2 DEF ArchiveRegisters, TypeOK, Generations
    <2>6. QED
      BY <1>2, <2>2, <2>4, <2>5 DEF ArchiveRegisters, TypeOK
  <1>3. CASE ArchiveEnds
    <2>1. /\ stage' \in [Jobs -> Stages]
          /\ lock' \in Jobs \cup {None} /\ freeze' \in Jobs \cup {None}
      BY <1>1, <1>3, Ends DEF ArchiveEnds
    <2>2. Fails \/ UNCHANGED failures
      BY <1>3 DEF ArchiveEnds
    <2>3. failures' \in 0..MaxFailures
      BY <2>2, Failed
    <2>4. /\ leftover' \in Generations \cup {None} /\ context' \in Generations \cup {None}
          /\ closed' \in BOOLEAN
      BY <1>3 DEF ArchiveEnds, TypeOK
    <2>5. QED
      BY <1>3, <2>1, <2>3, <2>4 DEF ArchiveEnds, TypeOK
  <1>4. CASE BackupRuns
    <2>1. /\ stage' \in [Jobs -> Stages]
          /\ lock' \in Jobs \cup {None} /\ freeze' \in Jobs \cup {None}
      BY <1>1, <1>4, Ends DEF BackupRuns
    <2>2. Fails \/ UNCHANGED failures
      BY <1>4 DEF BackupRuns
    <2>3. failures' \in 0..MaxFailures
      BY <2>2, Failed
    <2>4. /\ tree' \in Generations /\ leftover' \in Generations \cup {None}
          /\ replayed' \in BOOLEAN /\ backedUp' \subseteq Generations
      BY <1>4, Replayed DEF BackupRuns, TypeOK
    <2>5. QED
      BY <1>4, <2>1, <2>3, <2>4 DEF BackupRuns, TypeOK
  <1>5. CASE RetentionDeletes
    <2>1. /\ stage' \in [Jobs -> Stages] /\ points' \subseteq Points
          /\ lock' \in Jobs \cup {None} /\ freeze' \in Jobs \cup {None}
      BY <1>1, <1>5, Ends DEF RetentionDeletes, TypeOK
    <2>2. QED
      BY <1>5, <2>1 DEF RetentionDeletes, TypeOK
  <1>6. CASE Crash
    <2>1. stage' \in [Jobs -> Stages] /\ orphans' \in BOOLEAN /\ crashes' \in 0..MaxCrashes
      <3>1. orphans' \in BOOLEAN
        BY <1>6, Zenon DEF Crash
      <3>2. crashes' \in 0..MaxCrashes
        BY <1>6, BoundsAssumption DEF Crash, TypeOK
      <3>3. stage' \in [Jobs -> Stages]
        BY <1>6 DEF Crash
      <3>4. QED
        BY <3>1, <3>2, <3>3
    <2>2. /\ tree' \in Generations /\ leftover' \in Generations \cup {None} /\ replayed' \in BOOLEAN
          /\ context' \in Generations \cup {None} /\ closed' \in BOOLEAN
      BY <1>6, Replayed DEF Crash, TypeOK
    <2>3. QED
      BY <1>6, <2>1, <2>2 DEF Crash, TypeOK
  <1>7. CASE ProcessesEnd
    BY <1>7 DEF ProcessesEnd, TypeOK
  <1>8. CASE Resumes
    BY <1>8, Replayed DEF Resumes, TypeOK
  <1>9. QED
    BY <1>2, <1>3, <1>4, <1>5, <1>6, <1>7, <1>8 DEF OtherSteps

LEMMA TypeStep ==
    ASSUME TypeOK, [Next]_vars
    PROVE  TypeOK'
  <1>1. \A p \in Points : p \in Jobs
    BY DEF Jobs
  <1>2. CASE UNCHANGED vars
    BY <1>2 DEF vars, disk, server, locks, budget, TypeOK
  <1>3. CASE Next
    BY <1>1, <1>3, AcceptanceType, RestoreType, OtherType DEF Next, RestoreSteps
  <1>4. QED
    BY <1>2, <1>3

-----------------------------------------------------------------------------
(* The repository and the storage root have one holder each.               *)
LEMMA Exclusive ==
    ASSUME LocksInv, NEW j \in Jobs, NEW k \in Jobs, j # k
    PROVE  ~(HasLock(j) /\ HasLock(k)) /\ ~(HasFreeze(j) /\ HasFreeze(k))
  BY DEF LocksInv

LEMMA MoveKeepsLocks ==
    ASSUME TypeOK, LocksInv, NEW k \in Jobs, NEW label \in Stages, Goto(k, label), UNCHANGED locks,
           k # Archive /\ label \in Restoring \cup {"freezing", "running"} => lock = k,
           k # Retention /\ label \in Restoring \cup {"running", "publishing"} => freeze = k
    PROVE  LocksInv'
  BY Goes DEF LocksInv, HasLock, HasFreeze, locks

LEMMA EndKeepsLocks ==
    ASSUME TypeOK, LocksInv, NEW k \in Jobs, End(k)
    PROVE  LocksInv'
  <1> SUFFICES ASSUME NEW j \in Jobs
               PROVE  (HasLock(j)' => lock' = j) /\ (HasFreeze(j)' => freeze' = j)
    BY DEF LocksInv
  <1>1. CASE j = k
    BY <1>1, Ends DEF HasLock, HasFreeze, Restoring
  <1>2. CASE j # k
    <2>1. (HasLock(j)' <=> HasLock(j)) /\ (HasFreeze(j)' <=> HasFreeze(j))
      BY <1>2, Ends DEF HasLock, HasFreeze
    <2>2. (lock = j => lock' = j) /\ (freeze = j => freeze' = j)
      BY <1>2, Ends
    <2>3. (HasLock(j) => lock = j) /\ (HasFreeze(j) => freeze = j)
      BY DEF LocksInv
    <2>4. QED
      BY <2>1, <2>2, <2>3
  <1>3. QED
    BY <1>1, <1>2

LEMMA JobKeepsLocks ==
    ASSUME TypeOK, LocksInv, NEW k \in Jobs,
           \/ k \in Points /\ (RestoreCall(k) \/ RestoreSteps(k))
           \/ Request(k) \/ JobSteps(k)
    PROVE  LocksInv'
  <1> USE DEF Stages, Restoring
  <1>1. k # None
    BY NamesAssumption
  <1>2. CASE (k \in Points /\ (RestoreCall(k) \/ RestoreRecords(k))) \/ Request(k) \/ Accept(k)
    <2>1. UNCHANGED locks
          /\ \E label \in {"called", "starting", "queued", "idle"} : Goto(k, label)
      BY <1>2 DEF RestoreCall, RestoreRecords, Request, Accept
    <2>2. QED
      BY <2>1, MoveKeepsLocks
  <1>3. CASE HandlerBegins(k)
    <2>1. UNCHANGED locks
          /\ \/ Goto(k, "locking") \/ Goto(k, "idle")
             \/ k = Archive /\ Goto(k, "freezing")
      BY <1>3, NamesAssumption DEF HandlerBegins, Jobs, Others
    <2>2. QED
      BY <2>1, MoveKeepsLocks
  <1>4. CASE TakeLock(k)
    <2>1. /\ lock = None /\ lock' = k /\ freeze' = freeze
          /\ IF k = Retention THEN Goto(k, "running") ELSE Goto(k, "freezing")
      BY <1>4 DEF TakeLock
    <2>2. /\ stage'[k] \in {"running", "freezing"} /\ (k # Retention => stage'[k] = "freezing")
          /\ \A j \in Jobs : j # k => stage'[j] = stage[j]
      BY <2>1, Goes
    <2>3. \A j \in Jobs : ~HasLock(j)
      BY <2>1, NamesAssumption DEF LocksInv
    <2>4. QED
      BY <2>1, <2>2, <2>3 DEF LocksInv, HasLock, HasFreeze
  <1>5. CASE TakeFreeze(k)
    <2>1. CASE End(k)
      BY <2>1, EndKeepsLocks
    <2>2. CASE freeze = None /\ freeze' = k /\ Goto(k, "running") /\ lock' = lock
      <3>1. /\ stage'[k] = "running" /\ stage[k] = "freezing"
            /\ \A j \in Jobs : j # k => stage'[j] = stage[j]
        BY <1>5, <2>2, Goes DEF TakeFreeze
      <3>2. \A j \in Jobs : ~HasFreeze(j)
        BY <2>2, NamesAssumption DEF LocksInv
      <3>3. QED
        BY <2>2, <3>1, <3>2 DEF LocksInv, HasLock, HasFreeze
    <2>3. QED
      BY <1>5, <2>1, <2>2 DEF TakeFreeze
  <1>6. CASE k \in Points /\ RestoreSteps(k) /\ ~RestoreRecords(k)
    <2>1. k # Archive /\ k # Retention
      BY <1>6, NamesAssumption DEF Others
    <2>2. stage[k] \in Restoring \cup {"running"}
      BY <1>6 DEF RestoreSteps, RestoreChecks, Enters, EngineRestores, Installs, Reloads, Leaves
    <2>3. lock = k /\ freeze = k
      BY <2>1, <2>2 DEF LocksInv, HasLock, HasFreeze
    <2>4. \/ End(k)
          \/ UNCHANGED locks /\ \E label \in Restoring : Goto(k, label)
      BY <1>6 DEF RestoreSteps, RestoreChecks, Enters, EngineRestores, Installs, Reloads, Leaves
    <2>5. QED
      BY <2>3, <2>4, EndKeepsLocks, MoveKeepsLocks
  <1>7. QED
    BY <1>2, <1>3, <1>4, <1>5, <1>6 DEF JobSteps, RestoreSteps

LEMMA OtherKeepsLocks ==
    ASSUME TypeOK, LocksInv,
           OtherSteps \/ Crash \/ ProcessesEnd \/ Resumes \/ UNCHANGED vars
    PROVE  LocksInv'
  <1>1. Archive \in Jobs /\ Backup \in Jobs /\ Retention \in Jobs
    BY DEF Jobs, Others
  <1>2. CASE OtherSteps
    <2>1. \/ End(Archive) \/ End(Backup) \/ End(Retention)
          \/ stage[Archive] = "running" /\ Goto(Archive, "publishing") /\ UNCHANGED locks
      BY <1>2 DEF OtherSteps, ArchiveRegisters, ArchiveEnds, BackupRuns, RetentionDeletes
    <2>2. CASE stage[Archive] = "running" /\ Goto(Archive, "publishing") /\ UNCHANGED locks
      <3>1. freeze = Archive
        BY <1>1, <2>2, NamesAssumption DEF LocksInv, HasFreeze
      <3>2. QED
        BY <1>1, <2>2, <3>1, MoveKeepsLocks DEF Stages, Restoring
    <2>3. QED
      BY <1>1, <2>1, <2>2, EndKeepsLocks
  <1>3. CASE Crash
    BY <1>3 DEF Crash, LocksInv, HasLock, HasFreeze, Restoring
  <1>4. CASE ProcessesEnd \/ Resumes \/ UNCHANGED vars
    BY <1>4 DEF ProcessesEnd, Resumes, vars, locks, LocksInv, HasLock, HasFreeze
  <1>5. QED
    BY <1>2, <1>3, <1>4

LEMMA LocksStep ==
    ASSUME TypeOK, LocksInv, [Next]_vars
    PROVE  LocksInv'
  BY JobKeepsLocks, OtherKeepsLocks DEF Next, Jobs

-----------------------------------------------------------------------------
(* What a step of the others may do to the restores in progress, and what  *)
(* it may not.                                                             *)
LEMMA OthersLeaveRestores ==
    ASSUME TypeOK, LocksInv, NEW q \in Points, stage'[q] \in Restoring, stage'[q] = stage[q],
           [Next]_vars
    PROVE  /\ q \in points => q \in points'
           /\ journal # None => journal' # None
           /\ ~replayed' => UNCHANGED <<tree, database>> /\ context' \in {context, database}
  <1>1. q \in Jobs /\ HasLock(q) /\ HasFreeze(q) /\ lock = q /\ freeze = q
    BY NamesAssumption DEF HasLock, HasFreeze, LocksInv, Jobs, Others
  <1>2. \A k \in Jobs : k # q => ~HasLock(k) /\ ~HasFreeze(k)
    BY <1>1 DEF LocksInv
  <1>3. /\ Archive \in Jobs /\ Backup \in Jobs /\ Retention \in Jobs
        /\ Archive # q /\ Backup # q /\ Retention # q
        /\ Archive # Retention
    BY NamesAssumption DEF Jobs, Others
  <1>4. ~OtherSteps
    BY <1>2, <1>3 DEF OtherSteps, ArchiveRegisters, ArchiveEnds, BackupRuns, RetentionDeletes,
       HasLock, HasFreeze
  <1>5. ~Crash
    BY <1>1 DEF Crash, Restoring
  <1>6. ASSUME NEW p \in Points, RestoreCall(p) \/ RestoreSteps(p)
        PROVE  RestoreCall(p) \/ RestoreRecords(p)
    <2>1. p \in Jobs /\ p # Archive /\ p # Retention
      BY NamesAssumption DEF Jobs, Others
    <2>2. CASE p = q
      <3>1. stage'[p] = stage[p] /\ stage[p] \in Restoring
        BY <2>2
      <3>2. End(p) => stage'[p] = "idle"
        BY <2>1, Ends
      <3>3. \A label \in Stages : Goto(p, label) => stage'[p] = label
        BY <2>1, Goes
      <3>4. QED
        BY <1>6, <3>1, <3>2, <3>3 DEF RestoreSteps, RestoreChecks, Enters, EngineRestores, Installs,
           Reloads, Leaves, Restoring, Stages
    <2>3. CASE p # q
      <3>1. stage[p] \notin Restoring \cup {"running"}
        BY <1>2, <2>1, <2>3 DEF HasLock
      <3>2. QED
        BY <1>6, <3>1 DEF RestoreSteps, RestoreChecks, Enters, EngineRestores, Installs, Reloads,
           Leaves, Restoring
    <2>4. QED
      BY <2>2, <2>3
  <1>7. CASE \E p \in Points : RestoreCall(p) \/ RestoreSteps(p)
    <2>1. \A p \in Points : p # None
      BY NamesAssumption DEF Jobs
    <2>2. QED
      BY <1>6, <1>7, <2>1 DEF RestoreCall, RestoreRecords, disk, server
  <1>8. CASE \E k \in Jobs : Request(k) \/ JobSteps(k)
    BY <1>8 DEF JobSteps, Request, Accept, HandlerBegins, TakeLock, TakeFreeze, disk, server
  <1>9. CASE ProcessesEnd \/ Resumes \/ UNCHANGED vars
    BY <1>9, Replayed DEF ProcessesEnd, Resumes, vars, disk, server
  <1>10. QED
    BY <1>4, <1>5, <1>7, <1>8, <1>9 DEF Next

(* The steps that bring a restore forward.                                 *)
LEMMA MovesToRestoring ==
    ASSUME TypeOK, NEW q \in Points, stage'[q] \in Restoring, stage'[q] # stage[q], [Next]_vars
    PROVE  RestoreChecks(q) \/ Enters(q) \/ EngineRestores(q) \/ Installs(q) \/ Reloads(q)
  <1>1. q \in Jobs /\ q # Archive /\ q # Backup /\ q # Retention
    BY NamesAssumption DEF Jobs, Others
  <1>2. \A k \in Jobs : ~End(k) \/ k # q
    BY Ends DEF Restoring
  <1>3. \A k \in Jobs, label \in Stages : Goto(k, label) => k = q /\ label \in Restoring
    BY <1>1, Goes
  <1>4. \A k \in Jobs : ~End(k)
    BY <1>1, <1>2, Ends
  <1>5. ASSUME NEW p \in Points, RestoreCall(p) \/ RestoreSteps(p)
        PROVE  p = q /\ (RestoreChecks(q) \/ Enters(q) \/ EngineRestores(q) \/ Installs(q) \/ Reloads(q))
    <2>1. p \in Jobs
      BY DEF Jobs
    <2>2. QED
      BY <1>3, <1>4, <1>5, <2>1 DEF RestoreCall, RestoreSteps, RestoreRecords, RestoreChecks, Enters,
         EngineRestores, Installs, Reloads, Leaves, Restoring, Stages
  <1>6. ASSUME NEW k \in Jobs, Request(k) \/ JobSteps(k)
        PROVE  FALSE
    <2>1. \E label \in {"starting", "queued", "idle", "locking", "freezing", "running"} : Goto(k, label)
      BY <1>4, <1>6, NamesAssumption DEF Request, JobSteps, Accept, HandlerBegins, TakeLock, TakeFreeze,
         Jobs, Others
    <2>2. QED
      BY <1>3, <2>1 DEF Restoring, Stages
  <1>7. ~OtherSteps
    <2>1. Archive \in Jobs /\ Backup \in Jobs /\ Retention \in Jobs
      BY DEF Jobs, Others
    <2>2. ~Goto(Archive, "publishing")
      BY <1>3, <2>1 DEF Restoring, Stages
    <2>3. QED
      BY <1>4, <2>1, <2>2 DEF OtherSteps, ArchiveRegisters, ArchiveEnds, BackupRuns, RetentionDeletes
  <1>8. ~(Crash \/ ProcessesEnd \/ Resumes \/ UNCHANGED vars)
    BY <1>1 DEF Crash, ProcessesEnd, Resumes, vars, Restoring
  <1>9. QED
    BY <1>5, <1>6, <1>7, <1>8 DEF Next

-----------------------------------------------------------------------------
LEMMA JournalStep ==
    ASSUME TypeOK, LocksInv, JournalInv, [Next]_vars
    PROVE  JournalInv'
  <1> SUFFICES ASSUME NEW q \in Points, stage'[q] \in Restoring
               PROVE  journal' # None /\ q \in points'
    BY DEF JournalInv
  <1>1. CASE stage'[q] = stage[q]
    BY <1>1, OthersLeaveRestores DEF JournalInv
  <1>2. CASE stage'[q] # stage[q]
    <2>1. q \in Jobs /\ q # None
      BY NamesAssumption DEF Jobs
    <2>2. RestoreChecks(q) \/ Enters(q) \/ EngineRestores(q) \/ Installs(q) \/ Reloads(q)
      BY <1>2, MovesToRestoring
    <2>3. CASE RestoreChecks(q)
      <3>1. ~End(q)
        BY <2>1, Ends DEF Restoring
      <3>2. QED
        BY <2>1, <2>3, <3>1 DEF RestoreChecks
    <2>4. CASE ~RestoreChecks(q)
      <3>1. stage[q] \in Restoring /\ journal' \in {journal, q} /\ points' = points
        BY <2>2, <2>4 DEF Enters, EngineRestores, Installs, Reloads, Restoring
      <3>2. QED
        BY <2>1, <3>1 DEF JournalInv
    <2>5. QED
      BY <2>3, <2>4
  <1>3. QED
    BY <1>1, <1>2

-----------------------------------------------------------------------------
(* Steps that are not part of a restore under the freeze: the files change *)
(* only by a replayed publication, and only the open handle follows.       *)
Aside ==
    /\ UNCHANGED database
    /\ ~replayed' => /\ ~replayed /\ UNCHANGED tree
                     /\ context' \in {context, database, None}
                     /\ journal' = None => journal = None
                     /\ backedUp' # backedUp => journal = None /\ backedUp' = backedUp \cup {tree}

LEMMA AsideSteps ==
    ASSUME TypeOK,
           \/ \E p \in Points : RestoreCall(p) \/ RestoreRecords(p) \/ RestoreChecks(p)
           \/ \E k \in Jobs : Request(k) \/ JobSteps(k)
           \/ OtherSteps \/ Crash \/ ProcessesEnd \/ Resumes \/ UNCHANGED vars
    PROVE  Aside
  <1> USE DEF Aside, disk, server, budget
  <1>1. CASE \E p \in Points : RestoreCall(p) \/ RestoreRecords(p) \/ RestoreChecks(p)
    <2>1. \A p \in Points : p # None
      BY NamesAssumption DEF Jobs
    <2>2. QED
      BY <1>1, <2>1 DEF RestoreCall, RestoreRecords, RestoreChecks
  <1>2. CASE \E k \in Jobs : Request(k) \/ JobSteps(k)
    BY <1>2 DEF JobSteps, Request, Accept, HandlerBegins, TakeLock, TakeFreeze
  <1>3. CASE ArchiveRegisters \/ ArchiveEnds \/ RetentionDeletes
    BY <1>3 DEF ArchiveRegisters, ArchiveEnds, RetentionDeletes
  <1>4. CASE BackupRuns
    BY <1>4, Replayed DEF BackupRuns, Writable
  <1>5. CASE Crash
    BY <1>5, Replayed DEF Crash
  <1>6. CASE ProcessesEnd \/ Resumes \/ UNCHANGED vars
    BY <1>6, Replayed DEF ProcessesEnd, Resumes, vars
  <1>7. QED
    BY <1>1, <1>2, <1>3, <1>4, <1>5, <1>6 DEF OtherSteps

(* Steps of a restore that replaces the library.                           *)
Replacing(p) == Enters(p) \/ EngineRestores(p) \/ Installs(p) \/ Reloads(p) \/ Leaves(p)

LEMMA AsideOrReplacing ==
    ASSUME TypeOK, [Next]_vars
    PROVE  Aside \/ \E p \in Points : Replacing(p)
  BY AsideSteps DEF Next, RestoreSteps, Replacing

(* A restored library is complete when its journal goes.                   *)
LEMMA ReplacedWhole ==
    ASSUME TypeOK, RestoreInv, ~replayed, WholeInv, NEW p \in Points, Replacing(p)
    PROVE  /\ database' # Mixed /\ backedUp' = backedUp
           /\ journal' = None => tree' = database' /\ context' \in {None, database'}
  <1>1. p # Mixed /\ p # None
    BY NamesAssumption DEF Jobs
  <1>2. journal # None
    BY DEF RestoreInv, JournalInv, Restoring, Replacing, Enters, EngineRestores, Installs, Reloads,
       Leaves
  <1>3. CASE Leaves(p)
    <2>1. tree = p /\ database = p /\ context = database
      BY <1>3 DEF WholeInv, Leaves
    <2>2. QED
      BY <1>3, <2>1 DEF Leaves, disk, WholeInv
  <1>4. CASE ~Leaves(p)
    <2>1. journal' \in {journal, p} /\ database' \in {database, p} /\ backedUp' = backedUp
      BY <1>4 DEF Replacing, Enters, EngineRestores, Installs, Reloads, disk
    <2>2. QED
      BY <1>1, <1>2, <2>1 DEF WholeInv
  <1>5. QED
    BY <1>3, <1>4

LEMMA WholeStep ==
    ASSUME TypeOK, RestoreInv, [Next]_vars, ~replayed'
    PROVE  ~replayed /\ WholeInv'
  <1>1. ~replayed
    <2>1. CASE Aside
      BY <2>1 DEF Aside
    <2>2. CASE \E p \in Points : Replacing(p)
      BY <2>2 DEF Replacing, Enters, EngineRestores, Installs, Reloads, Leaves
    <2>3. QED
      BY <2>1, <2>2, AsideOrReplacing
  <1>2. WholeInv
    BY <1>1 DEF RestoreInv
  <1>3. /\ database' # Mixed /\ Mixed \notin backedUp'
        /\ journal' = None => tree' = database' /\ context' \in {None, database'}
    <2>1. CASE Aside
      BY <1>2, <2>1 DEF Aside, WholeInv
    <2>2. CASE \E p \in Points : Replacing(p)
      BY <1>1, <1>2, <2>2, ReplacedWhole DEF WholeInv
    <2>3. QED
      BY <2>1, <2>2, AsideOrReplacing
  <1>4. ASSUME NEW q \in Points
        PROVE  /\ stage'[q] \in {"installing", "reloading", "leaving"} => tree' = q
               /\ stage'[q] \in {"reloading", "leaving"} => database' = q
               /\ stage'[q] = "leaving" => context' = database'
    <2>1. q \in Jobs
      BY DEF Jobs
    <2>2. CASE stage'[q] \in Restoring /\ stage'[q] = stage[q]
      <3>1. UNCHANGED <<tree, database>> /\ context' \in {context, database}
        BY <2>2, OthersLeaveRestores DEF RestoreInv
      <3>2. QED
        BY <1>2, <2>2, <3>1 DEF WholeInv
    <2>3. CASE stage'[q] \in Restoring /\ stage'[q] # stage[q]
      <3>1. RestoreChecks(q) \/ Enters(q) \/ EngineRestores(q) \/ Installs(q) \/ Reloads(q)
        BY <2>3, MovesToRestoring
      <3>2. ~End(q)
        BY <2>1, <2>3, Ends DEF Restoring
      <3>3. \A label \in Stages : Goto(q, label) => stage'[q] = label
        BY <2>1, Goes
      <3>4. CASE RestoreChecks(q) \/ Enters(q)
        <4>1. stage'[q] \in {"entering", "restoring"}
          BY <3>2, <3>3, <3>4 DEF RestoreChecks, Enters, Stages
        <4>2. QED
          BY <4>1
      <3>5. CASE EngineRestores(q)
        <4>1. stage'[q] = "installing" /\ tree' = q
          BY <3>2, <3>3, <3>5 DEF EngineRestores, Stages
        <4>2. QED
          BY <4>1
      <3>6. CASE Installs(q)
        <4>1. stage'[q] = "reloading" /\ database' = q /\ tree' = tree /\ tree = q
          BY <1>2, <3>2, <3>3, <3>6 DEF Installs, Stages, WholeInv
        <4>2. QED
          BY <4>1
      <3>7. CASE Reloads(q)
        <4>1. /\ stage'[q] = "leaving" /\ context' = database /\ database' = database /\ tree' = tree
              /\ tree = q /\ database = q
          BY <1>2, <3>2, <3>3, <3>7 DEF Reloads, Stages, WholeInv, disk
        <4>2. QED
          BY <4>1
      <3>8. QED
        BY <3>1, <3>4, <3>5, <3>6, <3>7
    <2>4. QED
      BY <2>2, <2>3 DEF Restoring
  <1>5. QED
    BY <1>1, <1>3, <1>4 DEF WholeInv

-----------------------------------------------------------------------------
(* The inductive invariant holds: the locks are where the stages say, a    *)
(* restore is journalled, and what is in place follows the stages.         *)
THEOREM Inductive == Spec => []IInv
  <1>1. Init => IInv
    BY InitInv
  <1>2. IInv /\ [Next]_vars => IInv'
    BY TypeStep, LocksStep, JournalStep, WholeStep DEF IInv, RestoreInv
  <1>3. QED
    BY <1>1, <1>2, PTL DEF Spec

(* The state of library protection stays of its types.                     *)
THEOREM TypeCorrect == Spec => []TypeOK
  <1>1. IInv => TypeOK
    BY DEF IInv
  <1>2. QED
    BY <1>1, Inductive, PTL

(* A library that is served is of one generation: its files, its database  *)
(* and the open handle, wherever a restore failed, stopped, was repeated   *)
(* or raced with other jobs and with the recovery of the process.          *)
THEOREM ServedLibraryIsWhole == Spec => []ServedIsWhole
  <1>1. IInv => ServedIsWhole
    BY DEF IInv, RestoreInv, WholeInv, ServedIsWhole, Serving, Writable
  <1>2. QED
    BY <1>1, Inductive, PTL

(* No backup is made of a library between two generations.                 *)
THEOREM BackupsStayWhole == Spec => []BackupsAreWhole
  <1>1. IInv => BackupsAreWhole
    BY DEF IInv, RestoreInv, WholeInv, BackupsAreWhole
  <1>2. QED
    BY <1>1, Inductive, PTL

(* Retention does not delete the point that is being restored.             *)
THEOREM RestoredPointIsKept == Spec => []PointKept
  <1>1. IInv => PointKept
    BY DEF IInv, RestoreInv, JournalInv, Restoring, PointKept
  <1>2. QED
    BY <1>1, Inductive, PTL

=============================================================================
