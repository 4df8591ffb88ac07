------------------------- MODULE ResourceSwapProofs -------------------------
(***************************************************************************)
(* Proofs about the swap of the server payload, for any number of entries, *)
(* releases, failures and exits: the server runs on a whole payload, and   *)
(* what is being replaced is on the disk while the marker stands.          *)
(*                                                                         *)
(* The argument: without a swap over another's backup, every entry that is *)
(* marked is in place or in the backup, at any step a swap or a rollback   *)
(* stops; so a rollback puts all of them back, and an unmarked payload is  *)
(* whole.                                                                  *)
(***************************************************************************)
EXTENDS ResourceSwap, TLAPS

(* What the steps of the process say of status, server, marker and timers. *)
ProcessInv ==
    /\ running => pc = "stopping" \/ (pc = "idle" /\ status # "applying")
    /\ pc = "stopping" \/ (pc = "idle" /\ status # "applying") => ~marker
    /\ pc \in {"clearing", "aside", "in", "starting", "rollback"} => marker
    /\ held => armed > 0
    /\ pc = "down" => at = 1

(* A release is staged as a whole, and moves in entry by entry.            *)
StagingInv ==
    /\ (pc = "idle" /\ status = "ready") \/ pc \in {"stopping", "clearing", "aside"} =>
            \E g \in 1..Releases : \A e \in Entries : staging[e] = g
    /\ pc = "in" =>
            \E g \in 1..Releases : \A e \in Entries :
                IF e < at THEN current[e] = g ELSE staging[e] = g
    /\ pc = "starting" => IsWhole(current)

(* An entry is untouched, or it is in the backup.                          *)
Untouched(e) == current[e] = from /\ backup[e] = 0
Saved(e) == backup[e] = from

PayloadInv ==
    /\ ~marker => IsWhole(current)
    /\ marker => from # 0 /\ \A e \in Entries : Untouched(e) \/ Saved(e)
    /\ pc \in {"clearing", "restarting"} /\ marker => \A e \in Entries : Untouched(e)
    /\ pc = "aside" => \A e \in Entries : IF e < at THEN Saved(e) ELSE Untouched(e)
    /\ pc \in {"in", "starting"} => \A e \in Entries : Saved(e)
    /\ pc = "rollback" => \A e \in Entries : e < at => Untouched(e)

(* A timer that will fire belongs to the backup that is there.             *)
TimerInv ==
    armed > 0 => armed = 1 /\ backup # Gone /\ ~marker /\ pc \in {"idle", "stopping"}

SwapInv ==
    ProcessInv /\ StagingInv /\ (~overlapped => PayloadInv /\ TimerInv)

IInv == TypeOK /\ SwapInv

-----------------------------------------------------------------------------
LEMMA FirstEntry == 1 \in Entries /\ N \in Entries /\ \A e \in Entries : e >= 1 /\ e \in Nat
  BY SwapAssumption DEF Entries

(* The next entry of a step, or the first one of the next step.            *)
LEMMA Advances ==
    ASSUME TypeOK, NEW step, Advance(step)
    PROVE  /\ at' \in Entries
           /\ \/ pc' = pc /\ at < N /\ at' = at + 1
              \/ pc' = step /\ at = N /\ at' = 1
  BY SwapAssumption DEF Advance, TypeOK, Entries

LEMMA WholeFrom ==
    ASSUME from # 0, \A e \in Entries : Untouched(e)
    PROVE  IsWhole(current)
  BY FirstEntry DEF Untouched, IsWhole

LEMMA NotGone ==
    ASSUME from # 0, \E e \in Entries : Saved(e)
    PROVE  backup # Gone
  BY DEF Saved, Gone

LEMMA InitInv ==
    ASSUME Init
    PROVE  IInv
  <1>1. TypeOK
    <2>1. Gone \in [Entries -> 0..Releases] /\ [e \in Entries |-> 1] \in [Entries -> 0..Releases]
      BY SwapAssumption DEF Gone
    <2>2. 1 \in 0..Releases /\ 1 \in 1..Releases /\ 0 \in 0..MaxFailures /\ 0 \in 0..MaxCrashes
      BY SwapAssumption
    <2>3. QED
      BY FirstEntry, <2>1, <2>2 DEF Init, TypeOK, Steps
  <1>2. SwapInv
    BY FirstEntry DEF Init, SwapInv, ProcessInv, StagingInv, PayloadInv, TimerInv, IsWhole
  <1>3. QED
    BY <1>1, <1>2 DEF IInv

-----------------------------------------------------------------------------
(* Types, action by action.                                                *)
LEMMA SurgeryType ==
    ASSUME TypeOK, ClearBackup \/ MoveAside \/ MoveIn \/ RollBack
    PROVE  TypeOK'
  <1> USE SwapAssumption
  <1>1. at \in Entries /\ current[at] \in 0..Releases /\ backup[at] \in 0..Releases
        /\ staging[at] \in 0..Releases /\ 0 \in 0..Releases
    BY DEF TypeOK
  <1>2. at' \in Entries /\ pc' \in Steps
    BY Advances DEF ClearBackup, MoveAside, MoveIn, RollBack, TypeOK, Steps
  <1>3. /\ current' \in [Entries -> 0..Releases] /\ backup' \in [Entries -> 0..Releases]
        /\ staging' \in [Entries -> 0..Releases]
    BY <1>1 DEF ClearBackup, MoveAside, MoveIn, RollBack, TypeOK
  <1>4. UNCHANGED <<marker, status, server, timers, history, bounds>>
    BY DEF ClearBackup, MoveAside, MoveIn, RollBack
  <1>5. QED
    BY <1>2, <1>3, <1>4 DEF TypeOK, server, timers, history, bounds

LEMMA TypeStep ==
    ASSUME TypeOK, ProcessInv, [Next]_vars
    PROVE  TypeOK'
  <1> USE SwapAssumption DEF server, timers, history, bounds, trees, Steps
  <1>1. Gone \in [Entries -> 0..Releases] /\ 1 \in Entries
    BY FirstEntry DEF Gone
  <1>2. ASSUME NEW g \in 1..Releases, Stage(g)
        PROVE  TypeOK'
    BY <1>2 DEF Stage, TypeOK
  <1>3. CASE Apply
    BY <1>3 DEF Apply, TypeOK
  <1>4. CASE BeginSwap
    BY <1>1, <1>4 DEF BeginSwap, TypeOK
  <1>5. CASE ClearBackup \/ MoveAside \/ MoveIn \/ RollBack
    BY <1>5, SurgeryType
  <1>6. CASE Migrate
    BY <1>1, <1>6 DEF Migrate, TypeOK
  <1>7. CASE Healthy
    <2>1. armed' \in Nat
      BY <1>7 DEF Healthy, TypeOK
    <2>2. QED
      BY <1>1, <1>7, <2>1 DEF Healthy, TypeOK
  <1>8. CASE Unhealthy
    BY <1>1, <1>8 DEF Unhealthy, TypeOK
  <1>9. CASE Throw
    BY <1>1, <1>9 DEF Throw, TypeOK
  <1>10. ASSUME ComesUp
         PROVE  running' \in BOOLEAN /\ schema' \in 1..Releases
    BY <1>1, <1>10 DEF ComesUp, TypeOK
  <1>11. CASE Restart
    BY <1>1, <1>10, <1>11 DEF Restart, TypeOK
  <1>12. CASE RecoverAtBoot
    BY <1>1, <1>12 DEF RecoverAtBoot, TypeOK
  <1>13. CASE SoakEnds
    <2>1. armed' \in Nat
      BY <1>13 DEF SoakEnds, TypeOK
    <2>2. QED
      BY <1>1, <1>13, <2>1 DEF SoakEnds, TypeOK
  <1>14. CASE ServerCrash
    <2>1. armed' \in Nat
      BY <1>14 DEF ServerCrash, TypeOK, ProcessInv
    <2>2. QED
      BY <1>14, <2>1 DEF ServerCrash, TypeOK
  <1>15. CASE UserRestart
    BY <1>10, <1>15 DEF UserRestart, TypeOK
  <1>16. CASE Exit
    <2>1. crashes' \in 0..MaxCrashes
      BY <1>16 DEF Exit, TypeOK
    <2>2. QED
      BY <1>1, <1>16, <2>1 DEF Exit, TypeOK
  <1>17. CASE UNCHANGED vars
    BY <1>17 DEF vars, TypeOK
  <1>18. QED
    BY <1>2, <1>3, <1>4, <1>5, <1>6, <1>7, <1>8, <1>9, <1>11, <1>12, <1>13, <1>14, <1>15, <1>16,
       <1>17 DEF Next, Swap, Recovery

-----------------------------------------------------------------------------
(* The flags of the process.                                               *)
LEMMA ProcessStep ==
    ASSUME TypeOK, ProcessInv, [Next]_vars
    PROVE  ProcessInv'
  <1> USE DEF ProcessInv, server, timers, trees
  <1>1. ASSUME NEW g \in 1..Releases, Stage(g)
        PROVE  ProcessInv'
    BY <1>1 DEF Stage
  <1>2. CASE Apply \/ BeginSwap
    BY <1>2 DEF Apply, BeginSwap
  <1>3. CASE ClearBackup \/ MoveAside \/ MoveIn \/ RollBack
    <2>1. /\ UNCHANGED <<marker, running, held, armed, status>>
          /\ pc' = pc \/ pc' \in {"aside", "in", "starting", "restarting"}
          /\ pc \in {"clearing", "aside", "in", "rollback"}
      BY <1>3, Advances DEF ClearBackup, MoveAside, MoveIn, RollBack
    <2>2. QED
      BY <2>1
  <1>4. CASE Migrate \/ Unhealthy \/ Throw
    BY <1>4 DEF Migrate, Unhealthy, Throw
  <1>5. CASE Healthy
    <2>1. armed' > 0
      BY <1>5 DEF Healthy, TypeOK
    <2>2. QED
      BY <1>5, <2>1 DEF Healthy
  <1>6. CASE Restart
    BY <1>6 DEF Restart, ComesUp
  <1>7. CASE RecoverAtBoot
    BY <1>7 DEF RecoverAtBoot
  <1>8. CASE SoakEnds \/ ServerCrash
    BY <1>8 DEF SoakEnds, ServerCrash
  <1>9. CASE UserRestart
    BY <1>9 DEF UserRestart, ComesUp
  <1>10. CASE Exit
    BY <1>10 DEF Exit
  <1>11. CASE UNCHANGED vars
    BY <1>11 DEF vars
  <1>12. QED
    BY <1>1, <1>2, <1>3, <1>4, <1>5, <1>6, <1>7, <1>8, <1>9, <1>10, <1>11 DEF Next, Swap, Recovery

(* The staged release: whole until its first entry moves in, and then in   *)
(* place up to the entry that moves next.                                  *)
LEMMA StagingStep ==
    ASSUME TypeOK, StagingInv, [Next]_vars
    PROVE  StagingInv'
  <1> USE DEF server, timers, trees
  <1>1. ASSUME NEW g \in 1..Releases, Stage(g)
        PROVE  StagingInv'
    BY <1>1 DEF Stage, StagingInv
  <1>2. CASE Apply \/ BeginSwap
    BY <1>2 DEF Apply, BeginSwap, StagingInv
  <1>3. CASE ClearBackup
    BY <1>3, Advances DEF ClearBackup, StagingInv
  <1>4. CASE MoveAside
    <2>1. UNCHANGED <<staging, status>> /\ pc = "aside"
      BY <1>4 DEF MoveAside
    <2>2. PICK g \in 1..Releases : \A e \in Entries : staging[e] = g
      BY <2>1 DEF StagingInv
    <2>3. CASE pc' = "aside"
      BY <2>1, <2>2, <2>3 DEF StagingInv
    <2>4. CASE pc' = "in" /\ at' = 1
      BY <2>1, <2>2, <2>4, FirstEntry DEF StagingInv
    <2>5. QED
      BY <1>4, <2>1, <2>3, <2>4, Advances DEF MoveAside
  <1>5. CASE MoveIn
    <2>1. UNCHANGED status /\ pc = "in" /\ at \in Entries
      BY <1>5 DEF MoveIn, TypeOK
    <2>2. PICK g \in 1..Releases : \A e \in Entries : IF e < at THEN current[e] = g ELSE staging[e] = g
      BY <2>1 DEF StagingInv
    <2>3. \A e \in Entries :
            /\ current'[e] = IF e = at THEN staging[e] ELSE current[e]
            /\ staging'[e] = IF e = at THEN 0 ELSE staging[e]
      BY <1>5 DEF MoveIn, TypeOK
    <2>4. \A e \in Entries : e \in Nat /\ e <= N
      BY SwapAssumption DEF Entries
    <2>5. CASE pc' = "in" /\ at' = at + 1
      <3>1. \A e \in Entries : IF e < at' THEN current'[e] = g ELSE staging'[e] = g
        BY <2>1, <2>2, <2>3, <2>4, <2>5
      <3>2. QED
        BY <2>5, <3>1 DEF StagingInv
    <2>6. CASE pc' = "starting" /\ at = N
      <3>1. \A e \in Entries : current'[e] = g
        BY <2>1, <2>2, <2>3, <2>4, <2>6
      <3>2. QED
        BY <2>1, <2>6, <3>1, FirstEntry DEF StagingInv, IsWhole
    <2>7. QED
      BY <1>5, <2>1, <2>5, <2>6, Advances DEF MoveIn
  <1>6. CASE RollBack
    BY <1>6, Advances DEF RollBack, StagingInv
  <1>7. CASE Migrate
    BY <1>7 DEF Migrate, StagingInv, IsWhole
  <1>8. CASE Unhealthy \/ Throw \/ Healthy \/ Restart \/ RecoverAtBoot \/ Exit
    BY <1>8 DEF Unhealthy, Throw, Healthy, Restart, RecoverAtBoot, Exit, StagingInv, TypeOK
  <1>9. CASE SoakEnds \/ ServerCrash \/ UserRestart
    BY <1>9 DEF SoakEnds, ServerCrash, UserRestart, StagingInv, IsWhole
  <1>10. CASE UNCHANGED vars
    BY <1>10 DEF vars, StagingInv, IsWhole
  <1>11. QED
    BY <1>1, <1>2, <1>3, <1>4, <1>5, <1>6, <1>7, <1>8, <1>9, <1>10 DEF Next, Swap, Recovery

-----------------------------------------------------------------------------
(* A step that leaves the payload and the marker alone, and where it goes. *)
LEMMA PayloadAlone ==
    ASSUME PayloadInv, UNCHANGED <<current, backup, marker, from>>,
           \/ UNCHANGED <<pc, at>>
           \/ pc' \in {"idle", "down", "stopping"}
           \/ pc' = "rollback" /\ at' = 1
    PROVE  PayloadInv'
  BY FirstEntry DEF PayloadInv, Untouched, Saved, IsWhole

(* The surgery, entry by entry.                                            *)
LEMMA ClearBackupKeeps ==
    ASSUME TypeOK, ProcessInv, PayloadInv, ClearBackup
    PROVE  PayloadInv'
  <1>1. marker /\ \A e \in Entries : Untouched(e)
    BY DEF ClearBackup, ProcessInv, PayloadInv
  <1>2. backup' = backup
    BY <1>1 DEF ClearBackup, TypeOK, Untouched
  <1>3. UNCHANGED <<current, marker, from>> /\ pc = "clearing"
    BY DEF ClearBackup, history
  <1>4. pc' = "clearing" \/ (pc' = "aside" /\ at' = 1)
    BY <1>3, Advances DEF ClearBackup
  <1>5. QED
    BY <1>1, <1>2, <1>3, <1>4, FirstEntry DEF PayloadInv, Untouched, Saved

LEMMA MoveAsideKeeps ==
    ASSUME TypeOK, ProcessInv, PayloadInv, MoveAside
    PROVE  PayloadInv'
  <1>1. /\ marker /\ from # 0 /\ pc = "aside" /\ at \in Entries
        /\ \A e \in Entries : IF e < at THEN Saved(e) ELSE Untouched(e)
    BY DEF MoveAside, ProcessInv, PayloadInv, TypeOK
  <1>2. UNCHANGED <<marker, from>>
        /\ \A e \in Entries :
             /\ backup'[e] = IF e = at THEN current[e] ELSE backup[e]
             /\ current'[e] = IF e = at THEN 0 ELSE current[e]
    BY DEF MoveAside, TypeOK, history
  <1>3. \A e \in Entries : e \in Nat /\ e <= N
    BY SwapAssumption DEF Entries
  <1>4. \A e \in Entries : IF e <= at THEN Saved(e)' ELSE Untouched(e)'
    BY <1>1, <1>2, <1>3 DEF Saved, Untouched
  <1>5. \/ pc' = "aside" /\ at' = at + 1
        \/ pc' = "in" /\ at = N
    BY <1>1, Advances DEF MoveAside
  <1>6. QED
    BY <1>1, <1>2, <1>3, <1>4, <1>5 DEF PayloadInv

LEMMA MoveInKeeps ==
    ASSUME TypeOK, ProcessInv, PayloadInv, MoveIn
    PROVE  PayloadInv'
  <1>1. marker /\ from # 0 /\ pc = "in" /\ \A e \in Entries : Saved(e)
    BY DEF MoveIn, ProcessInv, PayloadInv
  <1>2. UNCHANGED <<marker, from, backup>> /\ pc' \in {"in", "starting"}
    BY <1>1, Advances DEF MoveIn, history
  <1>3. QED
    BY <1>1, <1>2 DEF PayloadInv, Saved

(* A rollback restores entry after entry, from any mixture.                *)
LEMMA RollBackKeeps ==
    ASSUME TypeOK, ProcessInv, PayloadInv, RollBack
    PROVE  PayloadInv'
  <1>1. /\ marker /\ from # 0 /\ pc = "rollback" /\ at \in Entries
        /\ \A e \in Entries : Untouched(e) \/ Saved(e)
        /\ \A e \in Entries : e < at => Untouched(e)
    BY DEF RollBack, ProcessInv, PayloadInv, TypeOK
  <1>2. UNCHANGED <<marker, from>>
    BY DEF RollBack, history
  <1>3. \A e \in Entries : e \in Nat /\ e <= N
    BY SwapAssumption DEF Entries
  <1>4. CASE backup[at] # 0 /\ current[at] # 0
    <2>1. /\ UNCHANGED <<backup, pc, at>>
          /\ \A e \in Entries : e # at => current'[e] = current[e]
      BY <1>4 DEF RollBack, TypeOK
    <2>2. Saved(at)
      BY <1>1, <1>4 DEF Untouched
    <2>3. \A e \in Entries : (Untouched(e)' \/ Saved(e)') /\ (e < at => Untouched(e)')
      BY <1>1, <1>2, <1>3, <2>1, <2>2 DEF Untouched, Saved
    <2>4. QED
      BY <1>1, <1>2, <2>1, <2>3 DEF PayloadInv
  <1>5. CASE ~(backup[at] # 0 /\ current[at] # 0)
    <2>1. /\ Advance("restarting")
          /\ current' = [current EXCEPT ![at] = IF backup[at] # 0 THEN backup[at] ELSE current[at]]
          /\ backup' = [backup EXCEPT ![at] = 0]
      BY <1>5 DEF RollBack
    <2>2. \A e \in Entries :
              /\ e # at => current'[e] = current[e] /\ backup'[e] = backup[e]
              /\ e = at => current'[e] = from /\ backup'[e] = 0
      BY <1>1, <2>1 DEF TypeOK, Untouched, Saved
    <2>3. \A e \in Entries : (Untouched(e)' \/ Saved(e)') /\ (e <= at => Untouched(e)')
      BY <1>1, <1>2, <1>3, <2>2 DEF Untouched, Saved
    <2>4. \/ pc' = "rollback" /\ at' = at + 1
          \/ pc' = "restarting" /\ at = N
      BY <1>1, <2>1, Advances
    <2>5. QED
      BY <1>1, <1>2, <1>3, <2>3, <2>4 DEF PayloadInv
  <1>6. QED
    BY <1>4, <1>5

(* A swap begins over no backup, or it counts as one that overlaps.        *)
LEMMA BeginSwapKeeps ==
    ASSUME TypeOK, ProcessInv, PayloadInv, BeginSwap, ~overlapped'
    PROVE  PayloadInv'
  <1>1. backup = Gone /\ ~marker /\ UNCHANGED <<current, backup>> /\ marker' /\ from' = current[1]
        /\ pc' = "clearing"
    BY DEF BeginSwap, ProcessInv
  <1>2. IsWhole(current)
    BY <1>1 DEF PayloadInv
  <1>3. from' # 0 /\ \A e \in Entries : Untouched(e)'
    BY <1>1, <1>2, FirstEntry DEF IsWhole, Untouched, Gone
  <1>4. QED
    BY <1>1, <1>3 DEF PayloadInv

(* What drops the marker leaves a payload that is whole.                   *)
LEMMA UnmarkKeeps ==
    ASSUME TypeOK, ProcessInv, StagingInv, PayloadInv, Healthy \/ Restart
    PROVE  PayloadInv'
  <1>1. UNCHANGED current /\ ~marker' /\ pc' = "idle"
    BY DEF Healthy, Restart
  <1>2. IsWhole(current)
    <2>1. CASE Healthy
      BY <2>1 DEF Healthy, StagingInv
    <2>2. CASE Restart
      BY <2>2, WholeFrom DEF Restart, PayloadInv
    <2>3. QED
      BY <2>1, <2>2
  <1>3. QED
    BY <1>1, <1>2 DEF PayloadInv, IsWhole

LEMMA RecoverAtBootKeeps ==
    ASSUME TypeOK, ProcessInv, PayloadInv, RecoverAtBoot
    PROVE  PayloadInv'
  <1>1. UNCHANGED <<current, from, at>> /\ at = 1
    BY DEF RecoverAtBoot, ProcessInv, history, trees
  <1>2. CASE marker /\ backup # Gone
    BY <1>1, <1>2, PayloadAlone DEF RecoverAtBoot, trees
  <1>3. CASE ~(marker /\ backup # Gone)
    <2>1. ~marker' /\ pc' = "restarting"
      BY <1>3 DEF RecoverAtBoot
    <2>2. IsWhole(current)
      <3>1. CASE ~marker
        BY <3>1 DEF PayloadInv
      <3>2. CASE marker /\ backup = Gone
        <4>1. from # 0 /\ \A e \in Entries : Untouched(e)
          BY <3>2 DEF PayloadInv, Saved, Gone
        <4>2. QED
          BY <4>1, WholeFrom
      <3>3. QED
        BY <1>3, <3>1, <3>2
    <2>3. QED
      BY <1>1, <2>1, <2>2 DEF PayloadInv, IsWhole
  <1>4. QED
    BY <1>2, <1>3

(* A timer that fires drops a backup that no marker stands for.            *)
LEMMA SoakEndsKeeps ==
    ASSUME TypeOK, ProcessInv, PayloadInv, TimerInv, SoakEnds
    PROVE  PayloadInv'
  <1>1. UNCHANGED <<current, marker, pc>> /\ ~marker /\ pc \in {"idle", "stopping"}
    BY DEF SoakEnds, TimerInv
  <1>2. QED
    BY <1>1 DEF PayloadInv, IsWhole

LEMMA PayloadStep ==
    ASSUME TypeOK, SwapInv, [Next]_vars, ~overlapped'
    PROVE  ~overlapped /\ PayloadInv'
  <1>1. ~overlapped
    BY DEF Next, Swap, Recovery, vars, history, Stage, Apply, BeginSwap, ClearBackup, MoveAside,
       MoveIn, Migrate, Healthy, Unhealthy, Throw, RollBack, Restart, RecoverAtBoot, SoakEnds,
       ServerCrash, UserRestart, Exit
  <1>2. ProcessInv /\ StagingInv /\ PayloadInv /\ TimerInv
    BY <1>1 DEF SwapInv
  <1>3. CASE ClearBackup \/ MoveAside \/ MoveIn \/ RollBack
    BY <1>1, <1>2, <1>3, ClearBackupKeeps, MoveAsideKeeps, MoveInKeeps, RollBackKeeps
  <1>4. CASE BeginSwap \/ Healthy \/ Restart \/ RecoverAtBoot \/ SoakEnds
    BY <1>1, <1>2, <1>4, BeginSwapKeeps, UnmarkKeeps, RecoverAtBootKeeps, SoakEndsKeeps
  <1>5. CASE \/ \E g \in 1..Releases : Stage(g)
             \/ Apply \/ Migrate \/ Unhealthy \/ Throw \/ ServerCrash \/ UserRestart \/ Exit
             \/ UNCHANGED vars
    <2>1. UNCHANGED <<current, backup, marker, from>>
      BY <1>5 DEF Stage, Apply, Migrate, Unhealthy, Throw, ServerCrash, UserRestart, Exit, vars,
         trees, history
    <2>2. \/ UNCHANGED <<pc, at>>
          \/ pc' \in {"idle", "down", "stopping"}
          \/ pc' = "rollback" /\ at' = 1
      BY <1>5 DEF Stage, Apply, Migrate, Unhealthy, Throw, ServerCrash, UserRestart, Exit, vars
    <2>3. QED
      BY <1>1, <1>2, <2>1, <2>2, PayloadAlone
  <1>6. QED
    BY <1>1, <1>3, <1>4, <1>5 DEF Next, Swap, Recovery

LEMMA TimerStep ==
    ASSUME TypeOK, SwapInv, [Next]_vars, ~overlapped, ~overlapped'
    PROVE  TimerInv'
  <1>1. ProcessInv /\ PayloadInv /\ TimerInv
    BY DEF SwapInv
  <1>2. CASE Healthy
    <2>1. armed = 0 /\ armed' = armed + 1
      BY <1>1, <1>2 DEF Healthy, TimerInv, TypeOK
    <2>2. marker /\ pc = "starting"
      BY <1>1, <1>2 DEF Healthy, ProcessInv
    <2>3. backup # Gone
      BY <1>1, <2>2, FirstEntry, NotGone DEF PayloadInv
    <2>4. QED
      BY <1>2, <2>1, <2>3 DEF Healthy, TimerInv, Gone
  <1>3. CASE SoakEnds \/ ServerCrash
    <2>1. armed' = armed - 1 /\ armed > 0
      BY <1>1, <1>3 DEF SoakEnds, ServerCrash, ProcessInv
    <2>2. armed' = 0
      BY <1>1, <2>1 DEF TimerInv
    <2>3. QED
      BY <2>2 DEF TimerInv
  <1>4. CASE Exit
    BY <1>4 DEF Exit, TimerInv
  <1>5. CASE BeginSwap
    <2>1. backup = Gone /\ armed' = armed
      BY <1>5 DEF BeginSwap, timers
    <2>2. armed' = 0
      BY <1>1, <2>1 DEF TimerInv, TypeOK
    <2>3. QED
      BY <2>2 DEF TimerInv
  <1>6. CASE ClearBackup \/ MoveAside \/ MoveIn \/ RollBack \/ Migrate \/ Unhealthy \/ Throw
             \/ Restart \/ RecoverAtBoot
    <2>1. armed = 0 /\ armed' = armed
      BY <1>1, <1>6 DEF ClearBackup, MoveAside, MoveIn, RollBack, Migrate, Unhealthy, Throw, Restart,
         RecoverAtBoot, TimerInv, TypeOK, timers
    <2>2. QED
      BY <2>1 DEF TimerInv
  <1>7. CASE \/ \E g \in 1..Releases : Stage(g)
             \/ Apply \/ UserRestart \/ UNCHANGED vars
    BY <1>1, <1>7 DEF Stage, Apply, UserRestart, vars, trees, timers, TimerInv, Gone
  <1>8. QED
    BY <1>2, <1>3, <1>4, <1>5, <1>6, <1>7 DEF Next, Swap, Recovery

-----------------------------------------------------------------------------
(* What a swap has done to each entry is known in every reachable state,   *)
(* after failures and exits as well.                                       *)
THEOREM Inductive == Spec => []IInv
  <1>1. IInv /\ [Next]_vars => IInv'
    <2> SUFFICES ASSUME IInv, [Next]_vars
                 PROVE  IInv'
      OBVIOUS
    <2>1. TypeOK /\ SwapInv /\ ProcessInv /\ StagingInv
      BY DEF IInv, SwapInv
    <2>2. TypeOK' /\ ProcessInv' /\ StagingInv'
      BY <2>1, TypeStep, ProcessStep, StagingStep
    <2>3. ~overlapped' => PayloadInv' /\ TimerInv'
      BY <2>1, PayloadStep, TimerStep
    <2>4. QED
      BY <2>2, <2>3 DEF IInv, SwapInv
  <1>2. QED
    BY <1>1, InitInv, PTL DEF Spec

(* The trees, the steps and the flags of a swap keep their types.          *)
THEOREM TypeCorrect == Spec => []TypeOK
  <1>1. IInv => TypeOK
    BY DEF IInv
  <1>2. QED
    BY <1>1, Inductive, PTL

(* The server runs on a payload of one release, wherever swaps, rollbacks, *)
(* failures and exits met, as long as no swap began over another's backup. *)
THEOREM ServerRunsWhole == Spec => []RunsWhole
  <1>1. IInv => RunsWhole
    BY DEF IInv, SwapInv, ProcessInv, PayloadInv, RunsWhole
  <1>2. QED
    BY <1>1, Inductive, PTL

(* The payload that is being replaced is on the disk while the marker      *)
(* stands, each entry in its place or in the backup.                       *)
THEOREM ReplacedIsKept == Spec => []OldIsKept
  <1>1. IInv => OldIsKept
    BY DEF IInv, SwapInv, PayloadInv, Untouched, Saved, OldIsKept
  <1>2. QED
    BY <1>1, Inductive, PTL

=============================================================================
