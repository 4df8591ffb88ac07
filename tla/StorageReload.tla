---------------------------- MODULE StorageReload ----------------------------
(***************************************************************************)
(* Switching the storage context of a running server.  A reload parks the  *)
(* requests that arrive, waits for those in flight, closes the database,   *)
(* opens the one of the selected archive and lets the parked ones go on.   *)
(* Reloads follow one another.  They are asked for by the user who selects *)
(* an archive, by the job that creates one and by the restore of a         *)
(* recovery point; the two jobs ask while they hold the storage root, for  *)
(* which the writes of requests wait.                                      *)
(***************************************************************************)
EXTENDS Naturals, Sequences, FiniteSets

CONSTANTS
    Served,
    Nobody,
    MaxWrites,      \* bound: file commits of one request
    MaxSelects,     \* bound: selections of an archive
    MaxTimeouts,    \* bound: drains at their time limit, reloads and restores that fail
    MaxDisconnects  \* bound: clients that go away

Jobs == {"archive", "restore"}

ASSUME ReloadAssumption ==
    /\ IsFiniteSet(Served) /\ Nobody \notin Jobs
    /\ {MaxWrites, MaxSelects, MaxTimeouts, MaxDisconnects} \subseteq Nat

VARIABLES
    req, writes,  \* where a request stands, and the commits it has made
    counted,      \* the requests in the counted set
    inflight,     \* app.inflightRequests
    cancelled,      \* requests whose abort signal fired
    told,    \* requests that have waited for the root before
    connected,    \* requests whose client is there
    across,       \* history: requests that were parked when a restore began
    reloads,      \* the callers of the reloads asked for, in order
    phase,        \* of the reload in progress; isDraining from its start to its end
    opened,       \* the database handle is open
    freeze,       \* who holds the storage root
    job,          \* where each job stands
    maintenance,  \* the restore journal
    closed,       \* libraryMaintenance
    selects, timeouts, disconnects

requests == <<req, writes, counted, inflight, cancelled, told, connected, across>>
context == <<reloads, phase, opened>>
library == <<maintenance, closed>>
budget == <<selects, timeouts, disconnects>>
reloadVars == <<requests, context, freeze, job, library, budget>>

At(stages) == {r \in Served : req[r] \in stages}
Handling == At({"working", "writing", "waiting"})

JobStages ==
    {"idle", "called", "freezing", "frozen", "entering", "closing", "replacing", "reloading",
     "leaving", "failed", "done"}

ReloadTypeOK ==
    /\ req \in [Served -> {"away", "parked", "working", "writing", "waiting", "done"}]
    /\ writes \in [Served -> 0..MaxWrites]
    /\ {counted, cancelled, told, connected, across} \subseteq SUBSET Served
    /\ inflight = Cardinality(counted)
    /\ reloads \in Seq(Jobs \cup {"select"}) /\ {opened, maintenance, closed} \subseteq BOOLEAN
    /\ phase \in {"none", "draining", "switching", "releasing"}
    /\ freeze \in Jobs \cup {Nobody}
    /\ job \in [Jobs -> JobStages]

ReloadInit ==
    /\ req = [r \in Served |-> "away"] /\ writes = [r \in Served |-> 0]
    /\ counted = {} /\ inflight = 0 /\ cancelled = {} /\ told = {}
    /\ connected = Served /\ across = {}
    /\ reloads = <<>> /\ phase = "none" /\ opened = TRUE
    /\ freeze = Nobody /\ job = [j \in Jobs |-> "idle"]
    /\ maintenance = FALSE /\ closed = FALSE
    /\ selects = 0 /\ timeouts = 0 /\ disconnects = 0

isDraining == phase # "none"
InMaintenance == maintenance \/ closed
ReqGoto(r, stage) == req' = [req EXCEPT ![r] = stage]
JobGoto(j, stage) == job' = [job EXCEPT ![j] = stage]
Count(rs) == counted' = counted \cup rs /\ inflight' = inflight + Cardinality(rs)

(* The hooks of the response and of the connection both do this.           *)
Uncount(r) ==
    /\ counted' = counted \ {r}
    /\ inflight' = IF r \in counted THEN inflight - 1 ELSE inflight

-----------------------------------------------------------------------------
(* onRequest.                                                              *)
Arrive(r) ==
    /\ req[r] = "away"
    /\ \/ InMaintenance /\ ReqGoto(r, "done") /\ UNCHANGED <<counted, inflight>>
       \/ ~InMaintenance /\ isDraining /\ ReqGoto(r, "parked") /\ UNCHANGED <<counted, inflight>>
       \/ ~InMaintenance /\ ~isDraining /\ ReqGoto(r, "working") /\ Count({r})
    /\ UNCHANGED <<writes, cancelled, told, connected, across, context, freeze, job, library, budget>>

(* Mutation: a write that begins to wait is not told of the reload.        *)
WriteWaits(r) ==
    /\ req[r] = "working" /\ writes[r] < MaxWrites /\ r \notin cancelled
    /\ writes' = [writes EXCEPT ![r] = @ + 1]
    /\ IF freeze = Nobody
       THEN ReqGoto(r, "writing") /\ UNCHANGED <<cancelled, told>>
       ELSE /\ ReqGoto(r, "waiting")
            /\ told' = told \cup {r} /\ UNCHANGED cancelled
    /\ UNCHANGED <<counted, inflight, connected, across, context, freeze, job, library, budget>>

(* A request commits files.  The first time it has to wait, a drain that   *)
(* is under way aborts it.                                                 *)
WriteBegins(r) ==
    /\ req[r] = "working" /\ writes[r] < MaxWrites /\ r \notin cancelled
    /\ writes' = [writes EXCEPT ![r] = @ + 1]
    /\ IF freeze = Nobody
       THEN ReqGoto(r, "writing") /\ UNCHANGED <<cancelled, told>>
       ELSE /\ ReqGoto(r, "waiting") /\ told' = told \cup {r}
            /\ cancelled' = IF r \notin told /\ (isDraining \/ closed) THEN cancelled \cup {r} ELSE cancelled
    /\ UNCHANGED <<counted, inflight, connected, across, context, freeze, job, library, budget>>

(* The wait ends with the freeze, or with the abort.                       *)
Woken(r) ==
    /\ req[r] = "waiting"
    /\ \/ r \in cancelled /\ ReqGoto(r, "working")
       \/ r \notin cancelled /\ freeze = Nobody /\ ReqGoto(r, "writing")
    /\ UNCHANGED <<writes, counted, inflight, cancelled, told, connected, across,
                   context, freeze, job, library, budget>>

WriteEnds(r) ==
    /\ req[r] = "writing" /\ ReqGoto(r, "working")
    /\ UNCHANGED <<writes, counted, inflight, cancelled, told, connected, across,
                   context, freeze, job, library, budget>>

(* The hook of the response need not run when the client is gone: whether  *)
(* the runtime finishes a response nobody receives is not up to this code. *)
Respond(r) ==
    /\ req[r] = "working" /\ ReqGoto(r, "done")
    /\ \/ Uncount(r)
       \/ r \notin connected /\ UNCHANGED <<counted, inflight>>
    /\ UNCHANGED <<writes, cancelled, told, connected, across, context, freeze, job, library, budget>>

(* The client closes the connection; the handler goes on.                  *)
Disconnect(r) ==
    /\ r \in connected /\ req[r] \notin {"away", "done"}
    /\ disconnects < MaxDisconnects /\ disconnects' = disconnects + 1
    /\ connected' = connected \ {r} /\ cancelled' = cancelled \cup {r} /\ Uncount(r)
    /\ UNCHANGED <<req, writes, told, across, context, freeze, job, library, selects, timeouts>>

-----------------------------------------------------------------------------
Select ==
    /\ ~InMaintenance /\ selects < MaxSelects /\ selects' = selects + 1
    /\ reloads' = Append(reloads, "select")
    /\ UNCHANGED <<requests, phase, opened, freeze, job, library, timeouts, disconnects>>

(* What becomes of the job that asked for the reload.                      *)
CallerGoes(stage) == job' = [j \in Jobs |-> IF j = reloads[1] THEN stage ELSE job[j]]

DrainBegins ==
    /\ reloads # <<>> /\ phase = "none" /\ phase' = "draining"
    /\ cancelled' = cancelled \cup (At({"waiting"}) \cap counted)
    /\ UNCHANGED <<req, writes, counted, inflight, told, connected, across,
                   reloads, opened, freeze, job, library, budget>>

Drained ==
    /\ phase = "draining" /\ inflight = 0
    /\ phase' = "switching" /\ opened' = FALSE
    /\ UNCHANGED <<requests, reloads, freeze, job, library, budget>>

(* The database of the selected archive is open; the handlers of the reload*)
(* are awaited with the gate still closed.  The code does not give way     *)
(* between the close and this; that others may act there only adds cases.  *)
Opened ==
    /\ phase = "switching" /\ phase' = "releasing" /\ opened' = TRUE
    /\ UNCHANGED <<requests, reloads, freeze, job, library, budget>>

(* Mutation: the parked requests go on without being counted.              *)
SwitchedUncounted ==
    /\ phase = "releasing" /\ phase' = "none"
    /\ reloads' = Tail(reloads) /\ CallerGoes("leaving")
    /\ req' = [r \in Served |-> IF req[r] = "parked" THEN "working" ELSE req[r]]
    /\ UNCHANGED <<counted, inflight, writes, cancelled, told, connected, across,
                   opened, freeze, library, budget>>

(* The gate opens: the parked requests are counted before the next reload  *)
(* can begin.                                                              *)
Switched ==
    /\ phase = "releasing" /\ phase' = "none"
    /\ reloads' = Tail(reloads) /\ CallerGoes("leaving")
    /\ req' = [r \in Served |-> IF req[r] = "parked" THEN "working" ELSE req[r]]
    /\ Count(At({"parked"}))
    /\ UNCHANGED <<writes, cancelled, told, connected, across, opened, freeze, library, budget>>

(* Mutation: the parked requests are left at the gate.                     *)
FailsSilently ==
    /\ \/ phase \in {"switching", "releasing"}
       \/ phase = "draining" /\ inflight > 0
    /\ timeouts < MaxTimeouts /\ timeouts' = timeouts + 1
    /\ phase' = "none" /\ closed' = TRUE
    /\ reloads' = Tail(reloads) /\ CallerGoes("failed")
    /\ UNCHANGED <<requests, opened, freeze, maintenance, selects, disconnects>>

(* The drain reaches its limit, the archive cannot be opened or a handler  *)
(* of the reload fails: the parked requests are refused and the library    *)
(* closes.                                                                 *)
ReloadFails ==
    /\ \/ phase \in {"switching", "releasing"}
       \/ phase = "draining" /\ inflight > 0
    /\ timeouts < MaxTimeouts /\ timeouts' = timeouts + 1
    /\ phase' = "none" /\ closed' = TRUE
    /\ reloads' = Tail(reloads) /\ CallerGoes("failed")
    /\ req' = [r \in Served |-> IF req[r] = "parked" THEN "done" ELSE req[r]]
    /\ UNCHANGED <<writes, counted, inflight, cancelled, told, connected, across, opened,
                   freeze, maintenance, selects, disconnects>>

-----------------------------------------------------------------------------
(* The jobs, under the freeze of the storage root.  The archive job checks *)
(* maintenance before it waits; restore looks at reloads and at the freeze,*)
(* and writes its journal later.                                           *)
ArchiveStarts ==
    /\ job["archive"] = "idle" /\ ~closed /\ JobGoto("archive", "freezing")
    /\ UNCHANGED <<requests, context, freeze, library, budget>>

RestoreCall ==
    /\ job["restore"] = "idle" /\ reloads = <<>> /\ freeze = Nobody
    /\ job["archive"] \in {"idle", "done"}
    /\ JobGoto("restore", "called")
    /\ UNCHANGED <<requests, context, freeze, library, budget>>

RestoreRecords ==
    /\ job["restore"] = "called" /\ maintenance' = TRUE
    /\ JobGoto("restore", "freezing")
    /\ UNCHANGED <<requests, context, freeze, closed, budget>>

TakeFreeze(j) ==
    /\ job[j] = "freezing" /\ freeze = Nobody /\ freeze' = j
    /\ JobGoto(j, "frozen")
    /\ UNCHANGED <<requests, context, library, budget>>

(* The commits in progress have ended; the archive is published.           *)
ArchivePublished ==
    /\ job["archive"] = "frozen" /\ At({"writing"}) = {}
    /\ reloads' = Append(reloads, "archive") /\ JobGoto("archive", "reloading")
    /\ UNCHANGED <<requests, phase, opened, freeze, library, budget>>

(* enterMaintenance: close the library, and abort who waits.               *)
Enter ==
    /\ job["restore"] = "frozen" /\ At({"writing"}) = {}
    /\ closed' = TRUE /\ JobGoto("restore", "entering")
    /\ cancelled' = cancelled \cup (At({"waiting"}) \cap counted)
    /\ across' = At({"parked"})
    /\ UNCHANGED <<req, writes, counted, inflight, told, connected, context, freeze, maintenance, budget>>

(* Mutation: maintenance does not wait for the requests in flight.         *)
DrainedAtOnce ==
    /\ job["restore"] = "entering" /\ JobGoto("restore", "closing")
    /\ UNCHANGED <<requests, context, freeze, library, budget>>

(* No request is in flight: workers and queues are stopped.                *)
MaintenanceDrained ==
    /\ job["restore"] = "entering" /\ inflight = 0 /\ JobGoto("restore", "closing")
    /\ UNCHANGED <<requests, context, freeze, library, budget>>

(* Then the database is closed, without another look at the requests.      *)
Entered ==
    /\ job["restore"] = "closing" /\ opened' = FALSE
    /\ JobGoto("restore", "replacing")
    /\ UNCHANGED <<requests, reloads, phase, freeze, library, budget>>

(* The drain reaches its limit, or stopping the workers fails.             *)
EnterFails ==
    /\ \/ job["restore"] = "entering" /\ inflight > 0
       \/ job["restore"] = "closing"
    /\ timeouts < MaxTimeouts /\ timeouts' = timeouts + 1
    /\ JobGoto("restore", "failed")
    /\ UNCHANGED <<requests, context, freeze, library, selects, disconnects>>

(* The files are in place.                                                 *)
Replaced ==
    /\ job["restore"] = "replacing"
    /\ reloads' = Append(reloads, "restore") /\ JobGoto("restore", "reloading")
    /\ UNCHANGED <<requests, phase, opened, freeze, library, budget>>

JobEnds(j) ==
    /\ job[j] \in {"leaving", "failed"} /\ JobGoto(j, "done") /\ freeze' = Nobody
    /\ IF j = "restore" /\ job[j] = "leaving"
       THEN maintenance' = FALSE /\ closed' = FALSE ELSE UNCHANGED library
    /\ UNCHANGED <<requests, context, budget>>

-----------------------------------------------------------------------------
Handler(r) == Woken(r) \/ WriteEnds(r) \/ Respond(r)
Reload == DrainBegins \/ Drained \/ Opened \/ Switched
JobSteps ==
    \/ RestoreRecords \/ ArchivePublished \/ Enter \/ MaintenanceDrained \/ Entered \/ Replaced
    \/ \E j \in Jobs : TakeFreeze(j) \/ JobEnds(j)
ReloadNext ==
    \/ \E r \in Served : Arrive(r) \/ WriteBegins(r) \/ Disconnect(r) \/ Handler(r)
    \/ Select \/ Reload \/ ReloadFails
    \/ ArchiveStarts \/ RestoreCall \/ EnterFails \/ JobSteps

(* Handlers end, and the server takes the steps it can; time limits need   *)
(* not be reached.                                                         *)
ReloadSpec == ReloadInit /\ [][ReloadNext]_reloadVars
ReloadFairSpec ==
    /\ ReloadSpec /\ WF_reloadVars(Reload) /\ WF_reloadVars(JobSteps)
    /\ \A r \in Served : WF_reloadVars(Handler(r))

-----------------------------------------------------------------------------
(* A reload never closes the database under the handler of a request whose *)
(* client is there, however requests park, wait, fail and are counted; a   *)
(* restore only under those that were parked when it began, which a reload *)
(* may let go on between its drain and its close (README).                 *)
ReloadCloses == phase = "draining" /\ phase' = "switching"
ClosedAlone ==
    [][opened /\ ~opened' =>
        Handling \cap connected \subseteq (IF ReloadCloses THEN {} ELSE across)]_reloadVars

(* While a restore replaces the files no request is handled, but for those *)
(* that were parked when it began and go on with a reload (README).        *)
ReplacedAlone ==
    job["restore"] = "replacing" => Handling \cap connected \subseteq across

(* What can hold a drain up to its limit: a request that waits for the     *)
(* root a second time, which is not aborted, and one whose client went away*)
(* while it was parked, whose end nothing may report (README).             *)
HeldUp ==
    \/ \E r \in told \ cancelled : req[r] = "waiting" /\ writes[r] > 1
    \/ counted \cap At({"done"}) # {}

(* But for those a drain ends, though it may be a job under the freeze that*)
(* drains, and requests wait for that freeze.                              *)
ReloadEnds == phase = "draining" ~> phase # "draining" \/ HeldUp

(* Every request that is parked is answered or goes on.                    *)
ParkedGoesOn == \A r \in Served : req[r] = "parked" ~> req[r] # "parked" \/ HeldUp

(* Neither closes it under any request of a connected client: a restore    *)
(* does not look again before it closes (README).                          *)
ClosedUnderNoClient == [][opened /\ ~opened' => Handling \cap connected = {}]_reloadVars

(* The database is closed under no handler at all: one whose client went   *)
(* away is no longer counted and does run on (README).                     *)
ClosedUnderNobody == [][opened /\ ~opened' => Handling = {}]_reloadVars

=============================================================================
