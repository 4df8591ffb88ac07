------------------------- MODULE StorageCoordinator -------------------------
(***************************************************************************)
(* The per-root storage coordinator of plugins/host: application commits   *)
(* call write(), backups, checkpoints and archive publication call         *)
(* freeze().  A freeze stops new commits, waits for the commits in         *)
(* progress, runs its operation alone, and lets the parked commits go.     *)
(*                                                                         *)
(* One action is one uninterrupted stretch of JavaScript, from one await   *)
(* to the next.  The order in which settled promises resume their waiters  *)
(* is left open, so every microtask order of the runtime is included.      *)
(***************************************************************************)
EXTENDS Naturals, Sequences, FiniteSets

CONSTANTS
    Writes,    \* calls of write(); each is made at most once
    Freezes,   \* calls of freeze(); each is made at most once
    Requests,  \* the writes made on behalf of an HTTP request (they carry a signal)
    NoLease    \* the empty async context, and the caller of a top-level call

ASSUME ProcsAssumption ==
    /\ IsFiniteSet(Writes)
    /\ Requests \subseteq Writes
    /\ Writes \intersect Freezes = {}
    /\ NoLease \notin Writes \cup Freezes

Procs == Writes \cup Freezes

VARIABLES
    frozen,     \* let frozen
    writers,    \* let writers
    waiting,    \* let waiting
    revision,   \* let revision
    tail,       \* the freezes chained on let tail and not settled, in call order
    listeners,  \* the calls suspended in changed()
    pc,         \* where each call stands
    caller,     \* the operation that made the call, NoLease at top level
    lease,      \* the lease in the async context of each call's operation
    live,       \* the leases with live = true (a lease is named by its call)
    aborted,    \* the calls whose AbortSignal has fired
    timedOut,   \* the freezes whose AbortSignal.timeout has fired
    announced   \* the requests told request.waiting(true) and not yet (false)

vars == <<frozen, writers, waiting, revision, tail, listeners, pc, caller,
          lease, live, aborted, timedOut, announced>>

WritePC  == {"idle", "parked", "rejected", "inside", "direct", "done", "cancelled"}
FreezePC == {"idle", "queued", "draining", "rejected", "operating", "done", "failed"}

TypeOK ==
    /\ frozen \in BOOLEAN
    /\ writers \in Nat /\ waiting \in Nat /\ revision \in Nat
    /\ tail \in Seq(Freezes)
    /\ listeners \subseteq Procs
    /\ pc \in [Procs -> WritePC \cup FreezePC]
    /\ \A c \in Writes : pc[c] \in WritePC
    /\ \A f \in Freezes : pc[f] \in FreezePC
    /\ caller \in [Procs -> Procs \cup {NoLease}]
    /\ lease \in [Procs -> Procs \cup {NoLease}]
    /\ live \subseteq Procs
    /\ aborted \subseteq Requests \cup Freezes
    /\ timedOut \subseteq Freezes
    /\ announced \subseteq Requests

Init ==
    /\ frozen = FALSE
    /\ writers = 0 /\ waiting = 0 /\ revision = 0
    /\ tail = <<>>
    /\ listeners = {}
    /\ pc = [p \in Procs |-> "idle"]
    /\ caller = [p \in Procs |-> NoLease]
    /\ lease = [p \in Procs |-> NoLease]
    /\ live = {} /\ aborted = {} /\ timedOut = {} /\ announced = {}

-----------------------------------------------------------------------------
(* The async context a call is made from: none, that of an operation that  *)
(* is running, or that of one that has ended and released its lease (work  *)
(* it left behind keeps its context).                                      *)
Running == {p \in Procs : pc[p] \in {"inside", "direct", "operating"}}
LeftBehind == {p \in Procs : pc[p] = "done" /\ lease[p] = p}
Contexts == {NoLease} \cup Running \cup LeftBehind

(* ownsLease(): context.getStore() is a live lease of this root.           *)
OwnsLease(p) == p # NoLease /\ lease[p] \in live

(* An operation of this program awaits the nested writes it makes, so all  *)
(* that ran under its lease is over when it ends.                          *)
AwaitedAll(p) == \A q \in Writes : pc[q] = "direct" => lease[q] # p

Goto(p, label) == pc' = [pc EXCEPT ![p] = label]

(* writers++, a fresh lease, and the operation starts.                     *)
EnterCommit(c) ==
    /\ writers' = writers + 1
    /\ Goto(c, "inside")
    /\ lease' = [lease EXCEPT ![c] = c]
    /\ live' = live \cup {c}

-----------------------------------------------------------------------------
(* write() inside a live lease runs its operation at once.                 *)
WriteNested(c, p) ==
    /\ pc[c] = "idle" /\ p # c /\ OwnsLease(p)
    /\ Goto(c, "direct")
    /\ caller' = [caller EXCEPT ![c] = p]
    /\ lease' = [lease EXCEPT ![c] = lease[p]]
    /\ UNCHANGED <<frozen, writers, waiting, revision, tail, listeners, live,
                   aborted, timedOut, announced>>

(* write() whose request was aborted before the call.                      *)
WriteRefused(c, p) ==
    /\ pc[c] = "idle" /\ p # c /\ ~OwnsLease(p)
    /\ c \in aborted
    /\ Goto(c, "cancelled")
    /\ caller' = [caller EXCEPT ![c] = p]
    /\ UNCHANGED <<frozen, writers, waiting, revision, tail, listeners, lease,
                   live, aborted, timedOut, announced>>

(* Mutation: a commit enters while a freeze drains.                        *)
WriteEntersDraining(c, p) ==
    /\ pc[c] = "idle" /\ p # c /\ ~OwnsLease(p)
    /\ c \notin aborted /\ (frozen => writers > 0)
    /\ EnterCommit(c)
    /\ caller' = [caller EXCEPT ![c] = p]
    /\ UNCHANGED <<frozen, waiting, revision, tail, listeners, aborted,
                   timedOut, announced>>

(* write() with no freeze in force: nothing is awaited before the entry.   *)
WriteEnters(c, p) ==
    /\ pc[c] = "idle" /\ p # c /\ ~OwnsLease(p)
    /\ c \notin aborted /\ ~frozen
    /\ EnterCommit(c)
    /\ caller' = [caller EXCEPT ![c] = p]
    /\ UNCHANGED <<frozen, waiting, revision, tail, listeners, aborted,
                   timedOut, announced>>

(* write() during a freeze announces the wait and suspends in changed().   *)
WriteParks(c, p) ==
    /\ pc[c] = "idle" /\ p # c /\ ~OwnsLease(p)
    /\ c \notin aborted /\ frozen
    /\ waiting' = waiting + 1
    /\ announced' = announced \cup ({c} \intersect Requests)
    /\ listeners' = listeners \cup {c}
    /\ Goto(c, "parked")
    /\ caller' = [caller EXCEPT ![c] = p]
    /\ UNCHANGED <<frozen, writers, revision, tail, lease, live, aborted, timedOut>>

(* The finally block of the wait.                                          *)
LeaveWait(c) ==
    /\ waiting' = waiting - 1
    /\ announced' = announced \ {c}

(* Mutation: if (frozen) await changed() where the code has while.         *)
ResumeEntersOnce(c) ==
    /\ pc[c] = "parked" /\ c \notin listeners
    /\ c \notin aborted
    /\ LeaveWait(c)
    /\ EnterCommit(c)
    /\ UNCHANGED <<frozen, revision, tail, listeners, caller, aborted, timedOut>>

(* A woken write finds the root thawed and enters.                         *)
ResumeEnters(c) ==
    /\ pc[c] = "parked" /\ c \notin listeners
    /\ ~frozen /\ c \notin aborted
    /\ LeaveWait(c)
    /\ EnterCommit(c)
    /\ UNCHANGED <<frozen, revision, tail, listeners, caller, aborted, timedOut>>

(* A woken write finds the root still frozen, or frozen again.             *)
ResumeParks(c) ==
    /\ pc[c] = "parked" /\ c \notin listeners
    /\ frozen /\ c \notin aborted
    /\ listeners' = listeners \cup {c}
    /\ UNCHANGED <<frozen, writers, waiting, revision, tail, pc, caller, lease,
                   live, aborted, timedOut, announced>>

(* A parked write gives up: its wait was rejected, or it was woken and then *)
(* finds its signal aborted, in changed() or in throwIfAborted().          *)
ResumeCancelled(c) ==
    /\ \/ pc[c] = "rejected" /\ c \in Writes
       \/ pc[c] = "parked" /\ c \notin listeners /\ c \in aborted
    /\ LeaveWait(c)
    /\ Goto(c, "cancelled")
    /\ UNCHANGED <<frozen, writers, revision, tail, listeners, caller, lease,
                   live, aborted, timedOut>>

(* Mutation: no wake() when a commit ends.                                 *)
CommitEndsSilently(c) ==
    /\ pc[c] = "inside" /\ AwaitedAll(c)
    /\ live' = live \ {c}
    /\ writers' = writers - 1
    /\ revision' = revision + 1
    /\ Goto(c, "done")
    /\ UNCHANGED <<frozen, waiting, tail, listeners, caller, lease, aborted,
                   timedOut, announced>>

(* The commit's operation returns or throws; wake() empties the listeners. *)
CommitEnds(c) ==
    /\ pc[c] = "inside" /\ AwaitedAll(c)
    /\ live' = live \ {c}
    /\ writers' = writers - 1
    /\ revision' = revision + 1
    /\ listeners' = {}
    /\ Goto(c, "done")
    /\ UNCHANGED <<frozen, waiting, tail, caller, lease, aborted, timedOut, announced>>

(* A nested write ends; its lease, and the count, are the outer commit's.  *)
NestedEnds(c) ==
    /\ pc[c] = "direct"
    /\ Goto(c, "done")
    /\ UNCHANGED <<frozen, writers, waiting, revision, tail, listeners, caller,
                   lease, live, aborted, timedOut, announced>>

-----------------------------------------------------------------------------
(* freeze() inside a live lease is rejected.                               *)
FreezeRejected(f, p) ==
    /\ pc[f] = "idle" /\ p # f /\ OwnsLease(p)
    /\ Goto(f, "failed")
    /\ caller' = [caller EXCEPT ![f] = p]
    /\ UNCHANGED <<frozen, writers, waiting, revision, tail, listeners, lease,
                   live, aborted, timedOut, announced>>

(* freeze() chains its run on the tail.                                    *)
FreezeCall(f, p) ==
    /\ pc[f] = "idle" /\ p # f /\ ~OwnsLease(p)
    /\ Goto(f, "queued")
    /\ tail' = Append(tail, f)
    /\ caller' = [caller EXCEPT ![f] = p]
    /\ UNCHANGED <<frozen, writers, waiting, revision, listeners, lease, live,
                   aborted, timedOut, announced>>

(* The promise chain: a freeze starts when all earlier ones have settled.  *)
IsNextFreeze(f) == tail # <<>> /\ Head(tail) = f /\ pc[f] = "queued"

(* The freeze was cancelled while it waited for its turn.                  *)
FreezeSkipped(f) ==
    /\ IsNextFreeze(f) /\ f \in aborted
    /\ Goto(f, "failed")
    /\ tail' = Tail(tail)
    /\ UNCHANGED <<frozen, writers, waiting, revision, listeners, caller, lease,
                   live, aborted, timedOut, announced>>

Operate(f) ==
    /\ Goto(f, "operating")
    /\ lease' = [lease EXCEPT ![f] = f]
    /\ live' = live \cup {f}

(* frozen = true, then the operation at once if no commit is in progress,  *)
(* the wait for the drain otherwise.                                       *)
FreezeBegins(f) ==
    /\ IsNextFreeze(f) /\ f \notin aborted
    /\ frozen' = TRUE
    /\ \/ /\ writers > 0
          /\ Goto(f, "draining")
          /\ listeners' = listeners \cup {f}
          /\ UNCHANGED <<lease, live>>
       \/ /\ writers = 0
          /\ Operate(f)
          /\ UNCHANGED listeners
    /\ UNCHANGED <<writers, waiting, revision, tail, caller, aborted, timedOut, announced>>

(* A woken freeze rechecks writers; the time limit counts only when there  *)
(* is something left to wait for.                                          *)
DrainContinues(f) ==
    /\ pc[f] = "draining" /\ f \notin listeners
    /\ \/ /\ writers > 0 /\ f \notin aborted \cup timedOut
          /\ listeners' = listeners \cup {f}
          /\ UNCHANGED <<pc, lease, live>>
       \/ /\ writers = 0 /\ f \notin aborted
          /\ Operate(f)
          /\ UNCHANGED listeners
    /\ UNCHANGED <<frozen, writers, waiting, revision, tail, caller, aborted,
                   timedOut, announced>>

(* Mutation: frozen is reset on success only.                              *)
ThawOnSuccess(f, label) ==
    /\ live' = live \ {f}
    /\ frozen' = (label = "failed")
    /\ listeners' = {}
    /\ tail' = Tail(tail)
    /\ Goto(f, label)
    /\ UNCHANGED <<writers, waiting, revision, caller, lease, aborted, timedOut, announced>>

(* Mutation: no wake() when a freeze ends.                                 *)
ThawSilently(f, label) ==
    /\ live' = live \ {f}
    /\ frozen' = FALSE
    /\ tail' = Tail(tail)
    /\ Goto(f, label)
    /\ UNCHANGED <<writers, waiting, revision, listeners, caller, lease, aborted,
                   timedOut, announced>>

(* The finally block of the run, and the tail moves on.                    *)
Thaw(f, label) ==
    /\ live' = live \ {f}
    /\ frozen' = FALSE
    /\ listeners' = {}
    /\ tail' = Tail(tail)
    /\ Goto(f, label)
    /\ UNCHANGED <<writers, waiting, revision, caller, lease, aborted, timedOut, announced>>

DrainFails(f) ==
    /\ \/ pc[f] = "rejected" /\ f \in Freezes
       \/ /\ pc[f] = "draining" /\ f \notin listeners
          /\ IF writers > 0 THEN f \in aborted \cup timedOut ELSE f \in aborted
    /\ Thaw(f, "failed")

FreezeEnds(f) ==
    /\ pc[f] = "operating" /\ AwaitedAll(f)
    /\ Thaw(f, "done")

-----------------------------------------------------------------------------
(* Mutation: changed() does not listen to the signal.                      *)
RejectNobody(p) == UNCHANGED <<pc, listeners>>

(* The abort event: a call suspended in changed() is rejected by it, any   *)
(* other call notices when it next looks at its signal.                    *)
Reject(p) ==
    IF p \in listeners
    THEN Goto(p, "rejected") /\ listeners' = listeners \ {p}
    ELSE UNCHANGED <<pc, listeners>>

Abort(p) ==
    /\ p \notin aborted
    /\ pc[p] \notin {"done", "cancelled", "failed", "direct"}
    /\ aborted' = aborted \cup {p}
    /\ Reject(p)
    /\ UNCHANGED <<frozen, writers, waiting, revision, tail, caller, lease, live,
                   timedOut, announced>>

(* AbortSignal.timeout, armed when the freeze takes its turn.              *)
Timeout(f) ==
    /\ f \notin timedOut /\ pc[f] = "draining"
    /\ timedOut' = timedOut \cup {f}
    /\ Reject(f)
    /\ UNCHANGED <<frozen, writers, waiting, revision, tail, caller, lease, live,
                   aborted, announced>>

-----------------------------------------------------------------------------
Write(c) ==
    \E p \in Contexts : WriteNested(c, p) \/ WriteRefused(c, p)
                        \/ WriteEnters(c, p) \/ WriteParks(c, p)
Resume(c) == ResumeEnters(c) \/ ResumeParks(c) \/ ResumeCancelled(c)
OperationEnds(c) == CommitEnds(c) \/ NestedEnds(c)

Freeze(f) == \E p \in Contexts : FreezeRejected(f, p) \/ FreezeCall(f, p)
FreezeRuns(f) == FreezeSkipped(f) \/ FreezeBegins(f) \/ DrainContinues(f) \/ DrainFails(f)

Settled(p) == pc[p] \in {"done", "cancelled", "failed"}

(* Every call was made and has settled.                                    *)
Quiescent == (\A p \in Procs : Settled(p)) /\ UNCHANGED vars

Next ==
    \/ \E c \in Writes : Write(c) \/ Resume(c) \/ OperationEnds(c)
    \/ \E f \in Freezes : Freeze(f) \/ FreezeRuns(f) \/ FreezeEnds(f) \/ Timeout(f)
    \/ \E p \in Requests \cup Freezes : Abort(p)
    \/ Quiescent

Spec == Init /\ [][Next]_vars

(* The runtime runs what is ready and fires its timers...                  *)
RuntimeFairness ==
    /\ \A c \in Writes : WF_vars(Resume(c))
    /\ \A f \in Freezes : WF_vars(FreezeRuns(f)) /\ WF_vars(Timeout(f))

(* ... and the operations handed to the coordinator may be trusted to end. *)
OperationsEnd ==
    /\ \A c \in Writes : WF_vars(OperationEnds(c))
    /\ \A f \in Freezes : WF_vars(FreezeEnds(f))

RuntimeSpec == Spec /\ RuntimeFairness

-----------------------------------------------------------------------------
InsideCommits == {c \in Writes : pc[c] = "inside"}
Waiters == {c \in Writes : pc[c] \in {"parked", "rejected"}}
InForce == {f \in Freezes : pc[f] \in {"draining", "rejected", "operating"}}

(* While the operation of a freeze runs, every write in progress was made  *)
(* by that operation: backups and publications never see a commit half     *)
(* done (freeze's drain loop, write's wait loop and the reentrant lease).  *)
ExclusiveFreeze ==
    \A f \in Freezes : pc[f] = "operating" =>
        \A p \in Procs \ {f} :
            /\ pc[p] \notin {"inside", "operating"}
            /\ pc[p] = "direct" => lease[p] = f

(* No nested write outlives the lease that let it in.                      *)
NestedUnderLiveLease == \A c \in Writes : pc[c] = "direct" => lease[c] \in live

(* state() is accurate between any two stretches of code: the counters are *)
(* the commits in progress and the writes in their wait, and frozen holds  *)
(* exactly while one freeze is in force, whatever was cancelled or timed   *)
(* out on the way (the two finally blocks).                                *)
CountersAccurate ==
    /\ writers = Cardinality(InsideCommits)
    /\ waiting = Cardinality(Waiters)
    /\ frozen <=> Cardinality(InForce) = 1
    /\ ~frozen => InForce = {}

(* Nobody sleeps through its wake-up: a call suspended in changed() has    *)
(* something left to wait for that will wake it when it ends.              *)
NoLostWakeup ==
    /\ \A c \in listeners \cap Writes : pc[c] = "parked" /\ frozen
    /\ \A f \in listeners \cap Freezes : pc[f] = "draining" /\ writers > 0

(* The coordinator implements the gate.                                    *)
Holder ==
    IF \E f \in Freezes : pc[f] = "operating"
    THEN CHOOSE f \in Freezes : pc[f] = "operating"
    ELSE NoLease

Gate == INSTANCE StorageGate WITH
    Commits <- Writes, Holders <- Freezes, Nobody <- NoLease,
    inside <- InsideCommits, closed <- frozen, holder <- Holder, version <- revision

ImplementsGate == Gate!GateSpec

(* Whatever the commits in progress do, a drain ends: they finish, or the  *)
(* freeze is cancelled or runs into its time limit.                        *)
DrainEnds == \A f \in Freezes : pc[f] \in {"draining", "rejected"} ~> pc[f] \in {"operating", "failed"}

(* If operations end, every call settles: no freeze starves behind the     *)
(* tail and no write behind a freeze.                                      *)
CallsSettle ==
    OperationsEnd => \A p \in Procs : pc[p] # "idle" ~> Settled(p)

-----------------------------------------------------------------------------
(* The inductive invariant.  The counters are the sizes of the sets they   *)
(* stand for; the leases alive are those of the commits inside and of the  *)
(* operating freeze; the freeze in force is the head of the tail; and a    *)
(* freeze operates on a drained root.                                      *)
CountersInv ==
    /\ writers = Cardinality(InsideCommits)
    /\ waiting = Cardinality(Waiters)

LeasesInv ==
    /\ live = {p \in Procs : pc[p] \in {"inside", "operating"}}
    /\ \A p \in live : lease[p] = p

InForceInv ==
    /\ \A f \in InForce : frozen /\ tail # <<>> /\ Head(tail) = f
    /\ frozen => InForce # {}

HeldInv == \A f \in Freezes : pc[f] = "operating" => InsideCommits = {}

CoreInv ==
    /\ TypeOK
    /\ CountersInv
    /\ LeasesInv
    /\ InForceInv
    /\ HeldInv
    /\ NestedUnderLiveLease

(* All parts together are preserved by every step: what the proofs of      *)
(* exclusion and of the counters rest on (wait, drain and finally blocks). *)
IInv == CoreInv /\ NoLostWakeup

=============================================================================
