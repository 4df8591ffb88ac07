----------------------------- MODULE JobManager -----------------------------
(***************************************************************************)
(* createJobManager of packages/backup: jobs that are accepted, run by a   *)
(* handler, cancelled, retried, recorded in one file each, and drained at  *)
(* shutdown.  The writes of one record form a chain of promises.           *)
(*                                                                         *)
(* The code runs on one thread: an action is what runs from one awaited    *)
(* operation to the next, the callers resumed by it included.              *)
(***************************************************************************)
EXTENDS Naturals, Sequences

CONSTANTS
    Jobs,          \* job ids that may be used
    MaxFailures,   \* bound: writes of records that fail
    MaxCancels,    \* bound: cancel calls
    MayClose,      \* may the manager be closed
    MaxRestarts    \* bound: process crashes, and starts after a close

ASSUME BoundsAssumption ==
    /\ MaxFailures \in Nat /\ MaxCancels \in Nat /\ MaxRestarts \in Nat
    /\ MayClose \in BOOLEAN

Busy == {"queued", "running", "cancelling"}
Settled == {"succeeded", "failed", "cancelled", "interrupted"}
None == "none"

\* Who awaits a write: start, execute before and after the handler, cancel.
Waiters == {"start", "running", "final", "cancel"}
Write == [content: Busy \cup Settled, waiter: Waiters]

VARIABLES
    state,      \* the job in the `jobs` map, None before it is there
    record,     \* its file
    writes,     \* its chain of writes
    lastOk,     \* did the last write of the chain that ended succeed
    stage,      \* where start and execute stand
    aborted,    \* its AbortController
    closing,    \* where the call of close stands
    awaited,    \* the jobs close awaits
    drain,      \* how many writes of each record it still awaits
    failures, cancels, restarts

job == <<state, record, writes, lastOk, stage, aborted>>
close == <<closing, awaited, drain>>
budget == <<failures, cancels, restarts>>
vars == <<job, close, budget>>

Stages == {"unused", "accepting", "recording", "handling", "finishing", "over"}
Active(j) == stage[j] \in {"recording", "handling", "finishing"}

TypeOK ==
    /\ state \in [Jobs -> Busy \cup Settled \cup {None}]
    /\ record \in [Jobs -> Busy \cup Settled \cup {None}]
    /\ writes \in [Jobs -> Seq(Write)] /\ \A j \in Jobs : Len(writes[j]) <= 1 + MaxCancels
    /\ lastOk \in [Jobs -> BOOLEAN] /\ aborted \in [Jobs -> BOOLEAN]
    /\ stage \in [Jobs -> Stages]
    /\ closing \in {"open", "waiting", "draining", "closed", "thrown"}
    /\ awaited \subseteq Jobs /\ drain \in [Jobs -> 0..1 + MaxCancels]
    /\ failures \in 0..MaxFailures /\ cancels \in 0..MaxCancels
    /\ restarts \in 0..MaxRestarts

Init ==
    /\ state = [j \in Jobs |-> None] /\ record = [j \in Jobs |-> None]
    /\ writes = [j \in Jobs |-> <<>>] /\ lastOk = [j \in Jobs |-> TRUE]
    /\ stage = [j \in Jobs |-> "unused"] /\ aborted = [j \in Jobs |-> FALSE]
    /\ closing = "open" /\ awaited = {} /\ drain = [j \in Jobs |-> 0]
    /\ failures = 0 /\ cancels = 0 /\ restarts = 0

(* persist captures the state it is called with and joins the chain.       *)
Persist(j, content, waiter) ==
    writes' = [writes EXCEPT ![j] = Append(@, [content |-> content, waiter |-> waiter])]

-----------------------------------------------------------------------------
(* start: the first record is written before the job is in the map.        *)
Start(j) ==
    /\ stage[j] = "unused" /\ closing = "open"
    /\ stage' = [stage EXCEPT ![j] = "accepting"]
    /\ Persist(j, "queued", "start")
    /\ UNCHANGED <<state, record, lastOk, aborted, close, budget>>

(* retry starts another job with the input of one that is not active.      *)
Retry(i, j) ==
    /\ state[i] \notin {None, "succeeded"} /\ ~Active(i)
    /\ Start(j)

(* The writer of a record continues, whether its write failed or not: the  *)
(* handler runs after the second record, the job is over after the last.   *)
StateAfter(j, waiter) == IF waiter = "start" THEN "running" ELSE state[j]

(* Mutation: a job whose second record cannot be written is not run.       *)
StageAfterStrict(j, waiter, ok) ==
    CASE waiter = "start" -> "recording"
      [] waiter = "running" -> IF ok THEN "handling" ELSE "recording"
      [] waiter = "final" -> "over"
      [] OTHER -> stage[j]

StageAfter(j, waiter, ok) ==
    CASE waiter = "start" -> "recording"
      [] waiter = "running" -> "handling"
      [] waiter = "final" -> "over"
      [] OTHER -> stage[j]

(* A call of cancel aborts the job once its record is written, and only    *)
(* waits for the job from then on; it throws, without aborting, when the   *)
(* write fails.                                                            *)
AbortedAfter(j, waiter, ok) == aborted[j] \/ (waiter = "cancel" /\ ok)

(* close awaits the last write of each record at the time it drains, and   *)
(* throws when that one fails.                                             *)
DrainAfter(j, ok) ==
    /\ drain' = [drain EXCEPT ![j] = IF @ > 0 THEN @ - 1 ELSE 0]
    /\ closing' = IF closing = "draining" /\ drain[j] = 1 /\ ~ok THEN "thrown" ELSE closing
    /\ UNCHANGED awaited

(* The first write of a chain ends and whoever awaits it goes on; execute  *)
(* follows start without giving way to anything else.                      *)
WriteEnds(j, ok) ==
    LET write == Head(writes[j]) waiter == write.waiter IN
    /\ writes[j] # <<>>
    /\ ok \/ failures < MaxFailures
    /\ failures' = IF ok THEN failures ELSE failures + 1
    /\ record' = IF ok THEN [record EXCEPT ![j] = write.content] ELSE record
    /\ lastOk' = [lastOk EXCEPT ![j] = ok]
    /\ state' = [state EXCEPT ![j] = StateAfter(j, waiter)]
    /\ stage' = [stage EXCEPT ![j] = StageAfter(j, waiter, ok)]
    /\ aborted' = [aborted EXCEPT ![j] = AbortedAfter(j, waiter, ok)]
    /\ writes' = [writes EXCEPT ![j] =
        IF waiter = "start"
        THEN Append(Tail(@), [content |-> "running", waiter |-> "running"])
        ELSE Tail(@)]
    /\ DrainAfter(j, ok)
    /\ UNCHANGED <<cancels, restarts>>

(* A handler that throws after the abort, or with the code "cancelled", is *)
(* cancelled; one that returns has succeeded, aborted or not.              *)
HandlerEnds(j, result) ==
    /\ stage[j] = "handling"
    /\ result = "failed" => ~aborted[j]
    /\ stage' = [stage EXCEPT ![j] = "finishing"]
    /\ state' = [state EXCEPT ![j] = result]
    /\ Persist(j, result, "final")
    /\ UNCHANGED <<record, lastOk, aborted, close, budget>>

(* Mutation: the cancellation is not recorded.                             *)
CancelUnrecorded(j) ==
    /\ Active(j) /\ cancels < MaxCancels
    /\ cancels' = cancels + 1
    /\ state' = [state EXCEPT ![j] = "cancelling"]
    /\ aborted' = [aborted EXCEPT ![j] = TRUE]
    /\ UNCHANGED <<record, writes, lastOk, stage, close, failures, restarts>>

(* cancel looks only at whether the job is active: calls may be repeated,  *)
(* overlap, and be made again after one that threw.                        *)
Cancel(j) ==
    /\ Active(j) /\ cancels < MaxCancels
    /\ cancels' = cancels + 1
    /\ state' = [state EXCEPT ![j] = "cancelling"]
    /\ Persist(j, "cancelling", "cancel")
    /\ UNCHANGED <<record, lastOk, stage, aborted, close, failures, restarts>>

-----------------------------------------------------------------------------
(* close aborts the active jobs, waits for them, then for the last write   *)
(* of every record; it throws when one of those has failed.                *)
Close ==
    /\ MayClose /\ closing = "open"
    /\ closing' = "waiting"
    /\ awaited' = {j \in Jobs : Active(j)}
    /\ aborted' = [j \in Jobs |-> aborted[j] \/ Active(j)]
    /\ UNCHANGED <<state, record, writes, lastOk, stage, drain, budget>>

JobsDone ==
    /\ closing = "waiting" /\ \A j \in awaited : ~Active(j)
    /\ closing' = IF \E j \in Jobs : writes[j] = <<>> /\ ~lastOk[j] THEN "thrown" ELSE "draining"
    /\ drain' = [j \in Jobs |-> Len(writes[j])]
    /\ UNCHANGED <<job, awaited, budget>>

CloseEnds ==
    /\ closing = "draining" /\ \A j \in Jobs : drain[j] = 0
    /\ closing' = "closed"
    /\ UNCHANGED <<job, awaited, drain, budget>>

(* The process ends, at any moment or after a close, and starts again: the *)
(* records are read back, and jobs that were busy are interrupted.         *)
Loaded(j) == IF record[j] \in Busy THEN "interrupted" ELSE record[j]
Restart ==
    /\ restarts < MaxRestarts
    /\ restarts' = restarts + 1
    /\ state' = [j \in Jobs |-> Loaded(j)]
    /\ record' = [j \in Jobs |-> Loaded(j)]
    /\ stage' = [j \in Jobs |-> IF stage[j] = "unused" THEN "unused" ELSE "over"]
    /\ writes' = [j \in Jobs |-> <<>>] /\ lastOk' = [j \in Jobs |-> TRUE]
    /\ aborted' = [j \in Jobs |-> FALSE]
    /\ closing' = "open" /\ awaited' = {} /\ drain' = [j \in Jobs |-> 0]
    /\ UNCHANGED <<failures, cancels>>

-----------------------------------------------------------------------------
Results == {"succeeded", "failed", "cancelled"}
Writing == \E j \in Jobs, ok \in BOOLEAN : WriteEnds(j, ok)
Handling(j) == \E result \in Results : HandlerEnds(j, result)

Next ==
    \/ Writing
    \/ \E j \in Jobs : Start(j) \/ Handling(j) \/ Cancel(j)
    \/ \E i, j \in Jobs : Retry(i, j)
    \/ Close \/ JobsDone \/ CloseEnds \/ Restart

Spec == Init /\ [][Next]_vars

(* Writes end, handlers end, and promises that are settled resume whoever  *)
(* awaits them.                                                            *)
FairSpec ==
    /\ Spec
    /\ \A j \in Jobs :
        /\ WF_vars(\E ok \in BOOLEAN : WriteEnds(j, ok))
        /\ WF_vars(Handling(j))
    /\ WF_vars(JobsDone) /\ WF_vars(CloseEnds)

-----------------------------------------------------------------------------
(* A record that no write is pending or failed for tells the state of its  *)
(* job: what a restart reads back is where the job stood.                  *)
RecordIsTrue ==
    \A j \in Jobs : writes[j] = <<>> /\ lastOk[j] => record[j] = state[j]

(* An accepted job runs although its record cannot be written, unless the  *)
(* process ends first.                                                     *)
AcceptedRuns ==
    \A j \in Jobs : stage[j] = "accepting" ~> stage[j] \in {"handling", "over"}

(* A job that has settled stays so.                                        *)
SettledStays ==
    [][\A j \in Jobs : state[j] \in Settled => state'[j] = state[j]]_vars

(* After close no record changes and no handler runs.                      *)
NothingAfterClose ==
    closing = "closed" => \A j \in Jobs : writes[j] = <<>> /\ ~Active(j)

=============================================================================
