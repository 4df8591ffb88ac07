---------------------------- MODULE ResourceSwap ----------------------------
(***************************************************************************)
(* The desktop application replaces its server payload in place: it stops  *)
(* the server, moves the entries of the payload into a backup and those of *)
(* the staged release into their place, starts the server, and commits or  *)
(* rolls back.  A marker file tells the next start of the application that *)
(* a swap was under way.                                                   *)
(*                                                                         *)
(* An entry holds the release it came from, 0 when it is not there.  The   *)
(* surgery is synchronous: between its steps the process can only stop.    *)
(***************************************************************************)
EXTENDS Naturals

CONSTANTS
    N,           \* entries of the payload
    Releases,    \* bound: releases that appear, the first one is installed
    MaxFailures, \* bound: file operations that fail for good
    MaxCrashes   \* bound: exits of the application, orderly or not

ASSUME SwapAssumption ==
    N \in Nat \ {0} /\ Releases \in Nat \ {0} /\ MaxFailures \in Nat /\ MaxCrashes \in Nat

Entries == 1..N
Gone == [e \in Entries |-> 0]

VARIABLES
    current, backup, staging, \* the trees
    marker,    \* .swap-pending
    pc, at,    \* the step of the swap in progress and its entry
    status,    \* of the update manager
    running,   \* the server is up
    schema,    \* the newest release that has migrated the library
    armed,     \* soak timers that will fire
    held,      \* soakTimer refers to the newest of them
    from,      \* history: the release the last swap replaced
    overlapped,\* history: a swap began over the backup of another
    failures, crashes

trees == <<current, backup, staging, marker>>
server == <<running, schema>>
timers == <<armed, held>>
history == <<from, overlapped>>
bounds == <<failures, crashes>>
vars == <<trees, pc, at, status, server, timers, history, bounds>>

Steps == {"idle", "stopping", "clearing", "aside", "in", "starting",
          "rollback", "restarting", "down"}

TypeOK ==
    /\ current \in [Entries -> 0..Releases] /\ backup \in [Entries -> 0..Releases]
    /\ staging \in [Entries -> 0..Releases]
    /\ marker \in BOOLEAN /\ running \in BOOLEAN /\ held \in BOOLEAN /\ overlapped \in BOOLEAN
    /\ pc \in Steps /\ at \in Entries
    /\ status \in {"open", "ready", "applying"}
    /\ schema \in 1..Releases /\ from \in 0..Releases /\ armed \in Nat
    /\ failures \in 0..MaxFailures /\ crashes \in 0..MaxCrashes

Init ==
    /\ current = [e \in Entries |-> 1] /\ backup = Gone /\ staging = Gone
    /\ marker = FALSE /\ pc = "idle" /\ at = 1 /\ status = "open"
    /\ running = TRUE /\ schema = 1 /\ armed = 0 /\ held = FALSE
    /\ from = 1 /\ overlapped = FALSE /\ failures = 0 /\ crashes = 0

IsWhole(tree) == \A e \in Entries : tree[e] = tree[1] /\ tree[e] # 0
Newer(g) == \A e \in Entries : g > current[e]

(* A server comes up on the payload, if all of it is there, and migrates   *)
(* the library.                                                            *)
ComesUp ==
    /\ \A e \in Entries : current[e] # 0
    /\ running' = TRUE /\ schema' = IF schema < current[1] THEN current[1] ELSE schema

(* The next entry, or the first one of the next step.                      *)
Advance(step) ==
    IF at < N THEN at' = at + 1 /\ pc' = pc ELSE at' = 1 /\ pc' = step

(* A rename fails three times: apply throws and nothing is undone before   *)
(* the next start; the state stays at applying, which refuses checks.      *)
Throw ==
    /\ \/ /\ pc \in {"clearing", "aside", "in", "rollback"}
          /\ failures < MaxFailures /\ failures' = failures + 1
       \/ pc = "aside" /\ current[at] = 0 /\ UNCHANGED failures
    /\ pc' = (IF status = "applying" THEN "idle" ELSE "down") /\ at' = 1
    /\ UNCHANGED <<trees, status, server, timers, history, crashes>>

-----------------------------------------------------------------------------
(* check: a newer release is verified and staged, whole.                   *)
Stage(g) ==
    /\ pc = "idle" /\ status = "open" /\ Newer(g)
    /\ staging' = [e \in Entries |-> g] /\ status' = "ready"
    /\ UNCHANGED <<current, backup, marker, pc, at, server, timers, history, bounds>>

Apply ==
    /\ pc = "idle" /\ status = "ready"
    /\ status' = "applying" /\ pc' = "stopping"
    /\ UNCHANGED <<trees, at, server, timers, history, bounds>>

(* Mutation: the marker is left to the end of the swap.                    *)
BeginUnmarked ==
    /\ pc = "stopping" /\ pc' = "clearing" /\ at' = 1
    /\ running' = FALSE
    /\ from' = current[1] /\ overlapped' = (overlapped \/ backup # Gone)
    /\ UNCHANGED <<trees, schema, status, timers, bounds>>

(* The server has stopped; the marker comes before anything is moved.      *)
BeginSwap ==
    /\ pc = "stopping" /\ pc' = "clearing" /\ at' = 1
    /\ running' = FALSE /\ marker' = TRUE
    /\ from' = current[1] /\ overlapped' = (overlapped \/ backup # Gone)
    /\ UNCHANGED <<current, backup, staging, schema, status, timers, bounds>>

(* What is left of the previous swap is removed file by file.              *)
ClearBackup ==
    /\ pc = "clearing" /\ backup' = [backup EXCEPT ![at] = 0]
    /\ Advance("aside")
    /\ UNCHANGED <<current, staging, marker, status, server, timers, history, bounds>>

MoveAside ==
    /\ pc = "aside" /\ current[at] # 0
    /\ backup' = [backup EXCEPT ![at] = current[at]] /\ current' = [current EXCEPT ![at] = 0]
    /\ Advance("in")
    /\ UNCHANGED <<staging, marker, status, server, timers, history, bounds>>

MoveIn ==
    /\ pc = "in"
    /\ current' = [current EXCEPT ![at] = staging[at]] /\ staging' = [staging EXCEPT ![at] = 0]
    /\ Advance("starting")
    /\ UNCHANGED <<backup, marker, status, server, timers, history, bounds>>

(* The new server migrates the library, then it answers or it does not.    *)
Migrate ==
    /\ pc = "starting" /\ schema < current[1] /\ schema' = current[1]
    /\ UNCHANGED <<trees, pc, at, status, running, timers, history, bounds>>

(* commitSwap, and the soak timer.  A release may come up on a library that*)
(* a later one, since rolled back, has migrated.                           *)
Healthy ==
    /\ pc = "starting" /\ schema >= current[1]
    /\ running' = TRUE /\ marker' = FALSE /\ staging' = Gone
    /\ armed' = armed + 1 /\ held' = TRUE
    /\ status' = "open" /\ pc' = "idle"
    /\ UNCHANGED <<current, backup, at, schema, history, bounds>>

(* A release that does not come up is a failure of its own.                *)
Unhealthy ==
    /\ pc = "starting" /\ failures < MaxFailures /\ failures' = failures + 1
    /\ pc' = "rollback" /\ at' = 1
    /\ UNCHANGED <<trees, status, server, timers, history, crashes>>

-----------------------------------------------------------------------------
(* Mutation: an entry without a backup is removed as well.                 *)
RollBackBlindly ==
    /\ pc = "rollback"
    /\ IF current[at] # 0
       THEN current' = [current EXCEPT ![at] = 0] /\ UNCHANGED <<backup, pc, at>>
       ELSE current' = [current EXCEPT ![at] = backup[at]] /\ backup' = [backup EXCEPT ![at] = 0]
            /\ Advance("restarting")
    /\ UNCHANGED <<staging, marker, status, server, timers, history, bounds>>

(* rollbackSwap: an entry that has a backup is removed, then restored.     *)
RollBack ==
    /\ pc = "rollback"
    /\ IF backup[at] # 0 /\ current[at] # 0
       THEN current' = [current EXCEPT ![at] = 0] /\ UNCHANGED <<backup, pc, at>>
       ELSE /\ current' = [current EXCEPT ![at] = IF backup[at] # 0 THEN backup[at] ELSE @]
            /\ backup' = [backup EXCEPT ![at] = 0] /\ Advance("restarting")
    /\ UNCHANGED <<staging, marker, status, server, timers, history, bounds>>

(* Mutation: a rollback leaves its marker.                                 *)
RestartMarked ==
    /\ pc = "restarting" /\ pc' = "idle" /\ status' = "open"
    /\ staging' = Gone /\ backup' = Gone
    /\ ComesUp
    /\ UNCHANGED <<current, marker, at, timers, history, bounds>>

(* The rollback ends and the server is started on the tree that is there;  *)
(* it may fail, and waits for a restart by the user.                       *)
Restart ==
    /\ pc = "restarting" /\ pc' = "idle" /\ status' = "open"
    /\ marker' = FALSE /\ staging' = Gone /\ backup' = Gone
    /\ ComesUp \/ UNCHANGED server
    /\ UNCHANGED <<current, at, timers, history, bounds>>

-----------------------------------------------------------------------------
(* A soak timer fires at an await: it drops the backup that is there and   *)
(* forgets soakTimer, whichever timer that refers to.                      *)
SoakEnds ==
    /\ armed > 0 /\ pc \in {"idle", "stopping", "starting"}
    /\ armed' = armed - 1 /\ held' = FALSE /\ backup' = Gone
    /\ UNCHANGED <<current, staging, marker, pc, at, status, server, history, bounds>>

(* The server exits while the newest release soaks: its backup stays.      *)
ServerCrash ==
    /\ running /\ held /\ pc = "idle"
    /\ running' = FALSE /\ armed' = armed - 1 /\ held' = FALSE
    /\ UNCHANGED <<trees, pc, at, status, schema, history, bounds>>

(* The user restarts the server, from the tray.                            *)
UserRestart ==
    /\ ~running /\ pc = "idle" /\ status # "applying"
    /\ ComesUp
    /\ UNCHANGED <<trees, pc, at, status, timers, history, bounds>>

(* The application ends at any step and is started again.                  *)
Exit ==
    /\ crashes < MaxCrashes /\ crashes' = crashes + 1
    /\ pc' = "down" /\ at' = 1 /\ status' = "open" /\ running' = FALSE
    /\ armed' = 0 /\ held' = FALSE
    /\ UNCHANGED <<trees, schema, history, failures>>

(* recoverAtBoot.                                                          *)
RecoverAtBoot ==
    /\ pc = "down"
    /\ IF marker /\ backup # Gone
       THEN pc' = "rollback" /\ UNCHANGED trees
       ELSE /\ pc' = "restarting" /\ marker' = FALSE /\ backup' = Gone /\ staging' = Gone
            /\ UNCHANGED current
    /\ UNCHANGED <<at, status, server, timers, history, bounds>>

-----------------------------------------------------------------------------
Swap == BeginSwap \/ ClearBackup \/ MoveAside \/ MoveIn \/ Migrate \/ Healthy \/ Unhealthy \/ Throw
Recovery == RollBack \/ Restart \/ RecoverAtBoot
Next ==
    \/ \E g \in 1..Releases : Stage(g)
    \/ Apply \/ Swap \/ Recovery
    \/ SoakEnds \/ ServerCrash \/ UserRestart \/ Exit

(* The application takes its next step, and is started again by its user.  *)
Spec == Init /\ [][Next]_vars
FairSpec == Spec /\ WF_vars(Swap \/ Recovery)

-----------------------------------------------------------------------------
(* The server only ever runs on a payload whose entries are of one release,*)
(* wherever a swap failed or stopped.  Swaps over the backup of an earlier *)
(* one are the exception (README, findings).                               *)
RunsWhole == running /\ ~overlapped => IsWhole(current)

(* As long as the marker stands every entry of the payload that is being   *)
(* replaced is on the disk, in its place or in the backup.                 *)
OldIsKept ==
    pc # "stopping" /\ marker /\ ~overlapped
        => \A e \in Entries : from \in {current[e], backup[e]}

(* The same over an earlier backup: its soak timer drops the backup of this*)
(* swap, and an exit rolls back to what is left of it (README).            *)
OldStays == pc # "stopping" /\ marker => \A e \in Entries : from \in {current[e], backup[e]}

(* A swap that has begun, and a recovery, come to an end.                  *)
SwapEnds == pc # "idle" ~> pc = "idle"

(* The same of every swap, as the header of the code says.                 *)
RecoversWhole == running => IsWhole(current)

(* A server is never started on a library that a newer release migrated.   *)
NoDowngrade == [][running' /\ ~running => schema <= current[1]]_vars

=============================================================================
