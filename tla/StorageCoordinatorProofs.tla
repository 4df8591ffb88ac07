---------------------- MODULE StorageCoordinatorProofs ----------------------
(***************************************************************************)
(* Proofs about the storage coordinator, for any finite set of writes and  *)
(* any set of freezes: the inductive invariant IInv, and from it the type  *)
(* invariant, the exclusion of commits by a freeze, the accuracy of the    *)
(* counters the server reads and the gate it implements; and about the     *)
(* reloads of the storage context that drain what the coordinator admits.  *)
(***************************************************************************)
EXTENDS StorageCoordinator, StorageReload, FiniteSetTheorems, TLAPS

(* Every subset of the writes is finite and has a natural cardinality.     *)
LEMMA FiniteWrites ==
    ASSUME NEW P, P \subseteq Writes
    PROVE  IsFiniteSet(P) /\ Cardinality(P) \in Nat
  BY ProcsAssumption, FS_Subset, FS_CardinalityType

(* Adding a write that was not counted counts one more.                    *)
LEMMA CountOneMore ==
    ASSUME NEW P, P \subseteq Writes, NEW c \in Writes, c \notin P
    PROVE  Cardinality(P \cup {c}) = Cardinality(P) + 1
  BY FiniteWrites, FS_AddElement

(* Removing a write that was counted counts one less.                      *)
LEMMA CountOneLess ==
    ASSUME NEW P, P \subseteq Writes, NEW c \in P
    PROVE  /\ Cardinality(P \ {c}) = Cardinality(P) - 1
           /\ Cardinality(P) >= 1
  <1>1. IsFiniteSet(P) /\ Cardinality(P) \in Nat
    BY FiniteWrites
  <1>2. Cardinality(P \ {c}) = Cardinality(P) - 1
    BY <1>1, FS_RemoveElement
  <1>3. Cardinality(P \ {c}) \in Nat
    BY FiniteWrites
  <1>4. QED
    BY <1>1, <1>2, <1>3

(* The initial state satisfies the invariant.                              *)
LEMMA InitCoreInv == Init => CoreInv
  <1> SUFFICES ASSUME Init PROVE CoreInv
    OBVIOUS
  <1>1. InsideCommits = {} /\ Waiters = {} /\ InForce = {}
    BY DEF Init, InsideCommits, Waiters, InForce, Procs
  <1>2. TypeOK
    <2>1. tail \in Seq(Freezes)
      BY DEF Init
    <2>2. pc \in [Procs -> WritePC \cup FreezePC]
      BY DEF Init, WritePC, FreezePC
    <2>3. /\ \A c \in Writes : pc[c] \in WritePC
          /\ \A f \in Freezes : pc[f] \in FreezePC
      BY DEF Init, Procs, WritePC, FreezePC
    <2>4. QED
      BY <2>1, <2>2, <2>3 DEF Init, TypeOK
  <1>3. CountersInv
    BY <1>1, FS_EmptySet DEF CountersInv, Init
  <1>4. LeasesInv /\ InForceInv /\ HeldInv /\ NestedUnderLiveLease
    BY <1>1 DEF Init, LeasesInv, InForceInv, HeldInv, NestedUnderLiveLease, Procs
  <1>5. QED
    BY <1>2, <1>3, <1>4 DEF CoreInv

(* What Goto does to the three sets of calls the invariant speaks of.      *)
LEMMA WriteMoves ==
    ASSUME TypeOK, NEW c \in Writes, NEW label \in WritePC, Goto(c, label)
    PROVE  /\ pc' \in [Procs -> WritePC \cup FreezePC]
           /\ \A q \in Writes : pc'[q] \in WritePC
           /\ \A f \in Freezes : pc'[f] = pc[f]
           /\ InsideCommits' = IF label = "inside" THEN InsideCommits \cup {c}
                                                   ELSE InsideCommits \ {c}
           /\ Waiters' = IF label \in {"parked", "rejected"} THEN Waiters \cup {c}
                                                            ELSE Waiters \ {c}
           /\ InForce' = InForce
  <1>1. c \in Procs /\ c \notin Freezes
    BY ProcsAssumption DEF Procs
  <1>2. \A q \in Procs : pc'[q] = IF q = c THEN label ELSE pc[q]
    BY DEF Goto, TypeOK
  <1>3. QED
    BY <1>1, <1>2 DEF TypeOK, Goto, InsideCommits, Waiters, InForce, Procs

LEMMA FreezeMoves ==
    ASSUME TypeOK, NEW f \in Freezes, NEW label \in FreezePC, Goto(f, label)
    PROVE  /\ pc' \in [Procs -> WritePC \cup FreezePC]
           /\ \A q \in Freezes : pc'[q] \in FreezePC
           /\ \A c \in Writes : pc'[c] = pc[c]
           /\ InForce' = IF label \in {"draining", "rejected", "operating"}
                         THEN InForce \cup {f} ELSE InForce \ {f}
           /\ InsideCommits' = InsideCommits
           /\ Waiters' = Waiters
  <1>1. f \in Procs /\ f \notin Writes
    BY ProcsAssumption DEF Procs
  <1>2. \A q \in Procs : pc'[q] = IF q = f THEN label ELSE pc[q]
    BY DEF Goto, TypeOK
  <1>3. QED
    BY <1>1, <1>2 DEF TypeOK, Goto, InsideCommits, Waiters, InForce, Procs

(* The sets the invariant speaks of are determined by pc.                  *)
LEMMA NobodyMoves ==
    ASSUME pc' = pc
    PROVE  InsideCommits' = InsideCommits /\ Waiters' = Waiters /\ InForce' = InForce
  BY DEF InsideCommits, Waiters, InForce

(* A write changes nothing a freeze depends on when it does not enter.     *)
LEMMA WriteNestedStep ==
    ASSUME CoreInv, NEW c \in Writes, NEW p \in Contexts, WriteNested(c, p)
    PROVE  CoreInv'
  <1> USE DEF CoreInv
  <1>1. Goto(c, "direct") /\ pc[c] = "idle" /\ "direct" \in WritePC
    BY DEF WriteNested, WritePC
  <1>2. c \notin InsideCommits /\ c \notin Waiters /\ c \in Procs /\ c \notin Freezes
    BY <1>1, ProcsAssumption DEF InsideCommits, Waiters, Procs
  <1>3. InsideCommits' = InsideCommits /\ Waiters' = Waiters /\ InForce' = InForce
    BY <1>1, <1>2, WriteMoves
  <1>4. lease[p] \in live /\ p \in Procs
    BY DEF WriteNested, OwnsLease, Contexts, Running, LeftBehind
  <1>5. TypeOK'
    BY <1>1, <1>4, WriteMoves DEF TypeOK, WriteNested
  <1>6. CountersInv'
    BY <1>3 DEF CountersInv, WriteNested
  <1>7. LeasesInv'
    BY <1>1, <1>2 DEF LeasesInv, WriteNested, Goto, TypeOK
  <1>8. InForceInv' /\ HeldInv'
    BY <1>1, <1>3, WriteMoves DEF InForceInv, HeldInv, WriteNested
  <1>9. NestedUnderLiveLease'
    BY <1>1, <1>4 DEF NestedUnderLiveLease, WriteNested, Goto, TypeOK, Procs
  <1>10. QED
    BY <1>5, <1>6, <1>7, <1>8, <1>9

LEMMA WriteRefusedStep ==
    ASSUME CoreInv, NEW c \in Writes, NEW p \in Contexts, WriteRefused(c, p)
    PROVE  CoreInv'
  <1> USE DEF CoreInv
  <1>1. Goto(c, "cancelled") /\ pc[c] = "idle" /\ "cancelled" \in WritePC
    BY DEF WriteRefused, WritePC
  <1>2. c \notin InsideCommits /\ c \notin Waiters /\ c \in Procs /\ c \notin Freezes
    BY <1>1, ProcsAssumption DEF InsideCommits, Waiters, Procs
  <1>3. InsideCommits' = InsideCommits /\ Waiters' = Waiters /\ InForce' = InForce
    BY <1>1, <1>2, WriteMoves
  <1>4. p \in Procs \cup {NoLease}
    BY DEF Contexts, Running, LeftBehind
  <1>5. TypeOK'
    BY <1>1, <1>4, WriteMoves DEF TypeOK, WriteRefused
  <1>6. CountersInv'
    BY <1>3 DEF CountersInv, WriteRefused
  <1>7. LeasesInv'
    BY <1>1, <1>2 DEF LeasesInv, WriteRefused, Goto, TypeOK
  <1>8. InForceInv' /\ HeldInv'
    BY <1>1, <1>3, WriteMoves DEF InForceInv, HeldInv, WriteRefused
  <1>9. NestedUnderLiveLease'
    BY <1>1 DEF NestedUnderLiveLease, WriteRefused, Goto, TypeOK, Procs
  <1>10. QED
    BY <1>5, <1>6, <1>7, <1>8, <1>9

(* A root that is not frozen has no freeze in force.                       *)
LEMMA ThawedIsFree == ASSUME CoreInv, ~frozen PROVE InForce = {}
  BY DEF CoreInv, InForceInv

(* What entering does to the leases and the count, for both ways in.       *)
LEMMA Enters ==
    ASSUME CoreInv, NEW c \in Writes, pc[c] \in {"idle", "parked"}, ~frozen, EnterCommit(c),
           UNCHANGED <<frozen, tail>>
    PROVE  /\ writers' \in Nat /\ writers' = Cardinality(InsideCommits')
           /\ lease' \in [Procs -> Procs \cup {NoLease}] /\ live' \subseteq Procs
           /\ LeasesInv' /\ InForceInv' /\ HeldInv' /\ NestedUnderLiveLease'
  <1> USE DEF CoreInv
  <1>1. Goto(c, "inside") /\ "inside" \in WritePC /\ writers' = writers + 1
    BY DEF EnterCommit, WritePC
  <1>2. c \notin InsideCommits /\ c \in Procs /\ c \notin Freezes /\ InsideCommits \subseteq Writes
    BY ProcsAssumption DEF InsideCommits, Procs
  <1>3. InsideCommits' = InsideCommits \cup {c} /\ InForce' = InForce
    BY <1>1, WriteMoves
  <1>4. writers' \in Nat /\ writers' = Cardinality(InsideCommits')
    BY <1>1, <1>2, <1>3, CountOneMore, FiniteWrites DEF CountersInv, TypeOK
  <1>5. lease' \in [Procs -> Procs \cup {NoLease}] /\ live' \subseteq Procs
    BY <1>2 DEF EnterCommit, TypeOK
  <1>6. LeasesInv'
    BY <1>1, <1>2 DEF LeasesInv, EnterCommit, Goto, TypeOK
  <1>7. InForceInv' /\ HeldInv'
    BY <1>1, <1>3, ThawedIsFree, WriteMoves DEF InForceInv, HeldInv, InForce
  <1>8. NestedUnderLiveLease'
    BY <1>1, <1>2 DEF NestedUnderLiveLease, EnterCommit, Goto, TypeOK, Procs
  <1>9. QED
    BY <1>4, <1>5, <1>6, <1>7, <1>8

LEMMA WriteEntersStep ==
    ASSUME CoreInv, NEW c \in Writes, NEW p \in Contexts, WriteEnters(c, p)
    PROVE  CoreInv'
  <1>1. Goto(c, "inside") /\ pc[c] = "idle" /\ "inside" \in WritePC /\ EnterCommit(c) /\ ~frozen
    BY DEF WriteEnters, EnterCommit, WritePC
  <1>2. c \notin Waiters /\ p \in Procs \cup {NoLease}
    BY <1>1 DEF Waiters, Contexts, Running, LeftBehind
  <1>3. Waiters' = Waiters
    BY <1>1, <1>2, WriteMoves DEF CoreInv
  <1>4. UNCHANGED <<frozen, waiting, revision, tail, listeners, aborted, timedOut, announced>>
        /\ caller' = [caller EXCEPT ![c] = p]
    BY DEF WriteEnters
  <1>5. TypeOK'
    BY <1>1, <1>2, <1>4, Enters, WriteMoves DEF TypeOK, CoreInv
  <1>6. CountersInv'
    BY <1>1, <1>3, <1>4, Enters DEF CountersInv, CoreInv
  <1>7. QED
    BY <1>1, <1>4, <1>5, <1>6, Enters DEF CoreInv

LEMMA WriteParksStep ==
    ASSUME CoreInv, NEW c \in Writes, NEW p \in Contexts, WriteParks(c, p)
    PROVE  CoreInv'
  <1> USE DEF CoreInv
  <1>1. Goto(c, "parked") /\ pc[c] = "idle" /\ "parked" \in WritePC /\ waiting' = waiting + 1
    BY DEF WriteParks, WritePC
  <1>2. c \notin InsideCommits /\ c \notin Waiters /\ c \in Procs /\ c \notin Freezes
        /\ Waiters \subseteq Writes
    BY <1>1, ProcsAssumption DEF InsideCommits, Waiters, Procs
  <1>3. InsideCommits' = InsideCommits /\ Waiters' = Waiters \cup {c} /\ InForce' = InForce
    BY <1>1, <1>2, WriteMoves
  <1>4. p \in Procs \cup {NoLease}
    BY DEF Contexts, Running, LeftBehind
  <1>5. TypeOK'
    BY <1>1, <1>2, <1>4, WriteMoves DEF TypeOK, WriteParks
  <1>6. CountersInv'
    BY <1>1, <1>2, <1>3, CountOneMore DEF CountersInv, WriteParks
  <1>7. LeasesInv'
    BY <1>1, <1>2 DEF LeasesInv, WriteParks, Goto, TypeOK
  <1>8. InForceInv' /\ HeldInv'
    BY <1>1, <1>3, WriteMoves DEF InForceInv, HeldInv, WriteParks
  <1>9. NestedUnderLiveLease'
    BY <1>1 DEF NestedUnderLiveLease, WriteParks, Goto, TypeOK, Procs
  <1>10. QED
    BY <1>5, <1>6, <1>7, <1>8, <1>9

(* Leaving the wait counts one waiter less, whatever comes next.           *)
LEMMA LeavesWait ==
    ASSUME TypeOK, CountersInv, NEW c \in Waiters, NEW label \in {"inside", "cancelled"},
           Goto(c, label), LeaveWait(c)
    PROVE  /\ waiting' \in Nat /\ waiting' = Cardinality(Waiters')
           /\ announced' \subseteq Requests
  <1>1. c \in Writes /\ Waiters \subseteq Writes /\ label \in WritePC
    BY DEF Waiters, WritePC
  <1>2. Waiters' = Waiters \ {c}
    BY <1>1, WriteMoves
  <1>3. waiting' = Cardinality(Waiters')
    BY <1>1, <1>2, CountOneLess DEF CountersInv, LeaveWait
  <1>4. waiting' \in Nat
    BY <1>1, <1>2, <1>3, FiniteWrites
  <1>5. announced' \subseteq Requests
    BY DEF LeaveWait, TypeOK
  <1>6. QED
    BY <1>3, <1>4, <1>5

LEMMA ResumeEntersStep ==
    ASSUME CoreInv, NEW c \in Writes, ResumeEnters(c)
    PROVE  CoreInv'
  <1>1. Goto(c, "inside") /\ pc[c] = "parked" /\ "inside" \in WritePC
        /\ EnterCommit(c) /\ ~frozen /\ LeaveWait(c)
    BY DEF ResumeEnters, EnterCommit, WritePC
  <1>2. c \in Waiters
    BY <1>1 DEF Waiters
  <1>3. UNCHANGED <<frozen, revision, tail, listeners, caller, aborted, timedOut>>
    BY DEF ResumeEnters
  <1>4. TypeOK'
    BY <1>1, <1>2, <1>3, Enters, LeavesWait, WriteMoves DEF TypeOK, CoreInv
  <1>5. CountersInv'
    BY <1>1, <1>2, <1>3, Enters, LeavesWait DEF CountersInv, CoreInv
  <1>6. QED
    BY <1>1, <1>3, <1>4, <1>5, Enters DEF CoreInv

LEMMA ResumeParksStep ==
    ASSUME CoreInv, NEW c \in Writes, ResumeParks(c)
    PROVE  CoreInv'
  <1> USE DEF CoreInv, ResumeParks
  <1>1. InsideCommits' = InsideCommits /\ Waiters' = Waiters /\ InForce' = InForce
    BY NobodyMoves
  <1>2. TypeOK'
    BY DEF TypeOK, Procs
  <1>3. CountersInv' /\ LeasesInv' /\ InForceInv' /\ HeldInv' /\ NestedUnderLiveLease'
    BY <1>1 DEF CountersInv, LeasesInv, InForceInv, HeldInv, NestedUnderLiveLease
  <1>4. QED
    BY <1>2, <1>3

LEMMA ResumeCancelledStep ==
    ASSUME CoreInv, NEW c \in Writes, ResumeCancelled(c)
    PROVE  CoreInv'
  <1> USE DEF CoreInv
  <1>1. Goto(c, "cancelled") /\ pc[c] \in {"parked", "rejected"} /\ "cancelled" \in WritePC
        /\ LeaveWait(c)
    BY DEF ResumeCancelled, WritePC
  <1>2. c \in Waiters /\ c \notin InsideCommits /\ c \in Procs /\ c \notin Freezes
    BY <1>1, ProcsAssumption DEF Waiters, InsideCommits, Procs
  <1>3. UNCHANGED <<frozen, writers, revision, tail, listeners, caller, lease,
                    live, aborted, timedOut>>
    BY DEF ResumeCancelled
  <1>4. InsideCommits' = InsideCommits /\ InForce' = InForce
    BY <1>1, <1>2, WriteMoves
  <1>5. TypeOK'
    BY <1>1, <1>2, <1>3, LeavesWait, WriteMoves DEF TypeOK
  <1>6. CountersInv'
    BY <1>1, <1>2, <1>3, <1>4, LeavesWait DEF CountersInv
  <1>7. LeasesInv'
    BY <1>1, <1>2, <1>3 DEF LeasesInv, Goto, TypeOK
  <1>8. InForceInv' /\ HeldInv'
    BY <1>1, <1>3, <1>4, WriteMoves DEF InForceInv, HeldInv
  <1>9. NestedUnderLiveLease'
    BY <1>1, <1>2, <1>3 DEF NestedUnderLiveLease, Goto, TypeOK, Procs
  <1>10. QED
    BY <1>5, <1>6, <1>7, <1>8, <1>9

(* The commit that ends takes its lease with it; AwaitedAll says that no   *)
(* nested write is left under it.                                          *)
LEMMA CommitEndsStep ==
    ASSUME CoreInv, NEW c \in Writes, CommitEnds(c)
    PROVE  CoreInv'
  <1> USE DEF CoreInv
  <1>1. Goto(c, "done") /\ pc[c] = "inside" /\ "done" \in WritePC
    BY DEF CommitEnds, WritePC
  <1>2. c \in InsideCommits /\ c \notin Waiters /\ c \in Procs /\ c \notin Freezes
        /\ InsideCommits \subseteq Writes
    BY <1>1, ProcsAssumption DEF Waiters, InsideCommits, Procs
  <1>3. UNCHANGED <<frozen, waiting, tail, caller, lease, aborted, timedOut, announced>>
        /\ live' = live \ {c} /\ writers' = writers - 1 /\ revision' = revision + 1
        /\ listeners' = {}
    BY DEF CommitEnds
  <1>4. InsideCommits' = InsideCommits \ {c} /\ Waiters' = Waiters /\ InForce' = InForce
    BY <1>1, <1>2, WriteMoves
  <1>5. writers' = Cardinality(InsideCommits') /\ writers' \in Nat
    BY <1>2, <1>3, <1>4, CountOneLess, FiniteWrites DEF CountersInv
  <1>6. TypeOK'
    BY <1>1, <1>3, <1>5, WriteMoves DEF TypeOK
  <1>7. CountersInv'
    BY <1>3, <1>4, <1>5 DEF CountersInv
  <1>8. LeasesInv'
    BY <1>1, <1>2, <1>3 DEF LeasesInv, Goto, TypeOK
  <1>9. InForceInv' /\ HeldInv'
    BY <1>1, <1>3, <1>4, WriteMoves DEF InForceInv, HeldInv
  <1>10. NestedUnderLiveLease'
    <2>1. ASSUME NEW d \in Writes, pc'[d] = "direct" PROVE lease'[d] \in live'
      <3>1. pc[d] = "direct"
        BY <1>1, <2>1 DEF Goto, TypeOK, Procs
      <3>2. lease[d] # c
        BY <3>1 DEF CommitEnds, AwaitedAll
      <3>3. QED
        BY <1>3, <3>1, <3>2 DEF NestedUnderLiveLease
    <2>2. QED
      BY <2>1 DEF NestedUnderLiveLease
  <1>11. QED
    BY <1>6, <1>7, <1>8, <1>9, <1>10

LEMMA NestedEndsStep ==
    ASSUME CoreInv, NEW c \in Writes, NestedEnds(c)
    PROVE  CoreInv'
  <1> USE DEF CoreInv
  <1>1. Goto(c, "done") /\ pc[c] = "direct" /\ "done" \in WritePC
    BY DEF NestedEnds, WritePC
  <1>2. c \notin InsideCommits /\ c \notin Waiters /\ c \in Procs /\ c \notin Freezes
    BY <1>1, ProcsAssumption DEF Waiters, InsideCommits, Procs
  <1>3. UNCHANGED <<frozen, writers, waiting, revision, tail, listeners, caller,
                    lease, live, aborted, timedOut, announced>>
    BY DEF NestedEnds
  <1>4. InsideCommits' = InsideCommits /\ Waiters' = Waiters /\ InForce' = InForce
    BY <1>1, <1>2, WriteMoves
  <1>5. TypeOK'
    BY <1>1, <1>3, WriteMoves DEF TypeOK
  <1>6. CountersInv'
    BY <1>3, <1>4 DEF CountersInv
  <1>7. LeasesInv'
    BY <1>1, <1>2, <1>3 DEF LeasesInv, Goto, TypeOK
  <1>8. InForceInv' /\ HeldInv'
    BY <1>1, <1>3, <1>4, WriteMoves DEF InForceInv, HeldInv
  <1>9. NestedUnderLiveLease'
    BY <1>1, <1>2, <1>3 DEF NestedUnderLiveLease, Goto, TypeOK, Procs
  <1>10. QED
    BY <1>5, <1>6, <1>7, <1>8, <1>9

(* A freeze that is not in force before the step nor after it.             *)
LEMMA FreezeAside ==
    ASSUME CoreInv, NEW f \in Freezes, NEW label \in {"queued", "failed"},
           pc[f] \in {"idle", "queued"}, Goto(f, label),
           UNCHANGED <<frozen, writers, waiting, revision, listeners, lease, live,
                       aborted, timedOut, announced>>,
           caller' \in [Procs -> Procs \cup {NoLease}], tail' \in Seq(Freezes),
           frozen => tail' # <<>> /\ Head(tail') = Head(tail)
    PROVE  CoreInv'
  <1> USE DEF CoreInv
  <1>1. label \in FreezePC /\ f \in Procs /\ f \notin Writes /\ f \notin InForce
    BY ProcsAssumption DEF FreezePC, Procs, InForce
  <1>2. InsideCommits' = InsideCommits /\ Waiters' = Waiters /\ InForce' = InForce
    <2>1. InsideCommits' = InsideCommits /\ Waiters' = Waiters
      BY <1>1, FreezeMoves
    <2>2. label \notin {"draining", "rejected", "operating"}
      OBVIOUS
    <2>3. InForce' = InForce \ {f}
      BY <1>1, <2>2, FreezeMoves
    <2>4. QED
      BY <1>1, <2>1, <2>3
  <1>3. TypeOK'
    BY <1>1, FreezeMoves DEF TypeOK
  <1>4. CountersInv'
    BY <1>2 DEF CountersInv
  <1>5. LeasesInv'
    BY <1>1 DEF LeasesInv, Goto, TypeOK
  <1>6. InForceInv'
    BY <1>2 DEF InForceInv
  <1>7. HeldInv'
    BY <1>1, <1>2 DEF HeldInv, Goto, TypeOK, Procs
  <1>8. NestedUnderLiveLease'
    BY <1>1, FreezeMoves DEF NestedUnderLiveLease
  <1>9. QED
    BY <1>3, <1>4, <1>5, <1>6, <1>7, <1>8

LEMMA FreezeRejectedStep ==
    ASSUME CoreInv, NEW f \in Freezes, NEW p \in Contexts, FreezeRejected(f, p)
    PROVE  CoreInv'
  <1>1. p \in Procs \cup {NoLease} /\ f \in Procs
    BY DEF Contexts, Running, LeftBehind, Procs
  <1>2. caller' \in [Procs -> Procs \cup {NoLease}] /\ tail' \in Seq(Freezes)
    BY <1>1 DEF FreezeRejected, CoreInv, TypeOK
  <1>3. frozen => tail' # <<>> /\ Head(tail') = Head(tail)
    BY DEF FreezeRejected, CoreInv, InForceInv
  <1>4. Goto(f, "failed") /\ pc[f] = "idle"
        /\ UNCHANGED <<frozen, writers, waiting, revision, listeners, lease, live,
                       aborted, timedOut, announced>>
    BY DEF FreezeRejected
  <1>5. QED
    BY <1>2, <1>3, <1>4, FreezeAside

LEMMA FreezeCallStep ==
    ASSUME CoreInv, NEW f \in Freezes, NEW p \in Contexts, FreezeCall(f, p)
    PROVE  CoreInv'
  <1>1. p \in Procs \cup {NoLease} /\ f \in Procs
    BY DEF Contexts, Running, LeftBehind, Procs
  <1>2. caller' \in [Procs -> Procs \cup {NoLease}] /\ tail' \in Seq(Freezes)
    BY <1>1 DEF FreezeCall, CoreInv, TypeOK
  <1>3. frozen => tail' # <<>> /\ Head(tail') = Head(tail)
    BY DEF FreezeCall, CoreInv, InForceInv, TypeOK
  <1>4. Goto(f, "queued") /\ pc[f] = "idle"
        /\ UNCHANGED <<frozen, writers, waiting, revision, listeners, lease, live,
                       aborted, timedOut, announced>>
    BY DEF FreezeCall
  <1>5. QED
    BY <1>2, <1>3, <1>4, FreezeAside

(* The next freeze takes its turn with no other freeze in force.           *)
LEMMA TurnIsFree ==
    ASSUME CoreInv, NEW f \in Freezes, IsNextFreeze(f)
    PROVE  InForce = {} /\ ~frozen
  BY DEF CoreInv, InForceInv, InForce, IsNextFreeze

LEMMA FreezeSkippedStep ==
    ASSUME CoreInv, NEW f \in Freezes, FreezeSkipped(f)
    PROVE  CoreInv'
  <1>1. ~frozen
    BY TurnIsFree DEF FreezeSkipped
  <1>2. caller' \in [Procs -> Procs \cup {NoLease}] /\ tail' \in Seq(Freezes)
    BY DEF FreezeSkipped, IsNextFreeze, CoreInv, TypeOK
  <1>3. Goto(f, "failed") /\ pc[f] = "queued"
        /\ UNCHANGED <<frozen, writers, waiting, revision, listeners, lease, live,
                       aborted, timedOut, announced>>
    BY DEF FreezeSkipped, IsNextFreeze
  <1>4. QED
    BY <1>1, <1>2, <1>3, FreezeAside

(* What starting the operation of a freeze does to the leases.             *)
LEMMA Operates ==
    ASSUME CoreInv, NEW f \in Freezes, pc[f] # "operating", Operate(f), writers = 0,
           InForce \subseteq {f}, UNCHANGED <<writers, waiting>>
    PROVE  /\ lease' \in [Procs -> Procs \cup {NoLease}] /\ live' \subseteq Procs
           /\ LeasesInv' /\ HeldInv' /\ NestedUnderLiveLease' /\ CountersInv'
           /\ InForce' = {f}
           /\ pc' \in [Procs -> WritePC \cup FreezePC]
           /\ \A c \in Writes : pc'[c] \in WritePC
           /\ \A g \in Freezes : pc'[g] \in FreezePC
  <1> USE DEF CoreInv
  <1>1. Goto(f, "operating") /\ "operating" \in FreezePC /\ f \in Procs /\ f \notin Writes
    BY ProcsAssumption DEF Operate, FreezePC, Procs
  <1>2. InsideCommits' = InsideCommits /\ Waiters' = Waiters
    BY <1>1, FreezeMoves
  <1>3. InForce' = InForce \cup {f}
    BY <1>1, FreezeMoves
  <1>4. InsideCommits = {}
    <2>1. InsideCommits \subseteq Writes
      BY DEF InsideCommits
    <2>2. IsFiniteSet(InsideCommits) /\ Cardinality(InsideCommits) = 0
      BY <2>1, FiniteWrites DEF CountersInv
    <2>3. QED
      BY <2>2, FS_EmptySet
  <1>5. lease' \in [Procs -> Procs \cup {NoLease}] /\ live' \subseteq Procs
    BY <1>1 DEF Operate, TypeOK
  <1>6. LeasesInv'
    BY <1>1 DEF LeasesInv, Operate, Goto, TypeOK
  <1>7. HeldInv' /\ CountersInv'
    BY <1>2, <1>4 DEF HeldInv, CountersInv
  <1>8. NestedUnderLiveLease'
    BY <1>1, FreezeMoves DEF NestedUnderLiveLease, Operate, TypeOK, Procs
  <1>9. pc' \in [Procs -> WritePC \cup FreezePC]
        /\ (\A c \in Writes : pc'[c] \in WritePC) /\ (\A g \in Freezes : pc'[g] \in FreezePC)
    BY <1>1, FreezeMoves DEF TypeOK
  <1>10. QED
    BY <1>3, <1>5, <1>6, <1>7, <1>8, <1>9

LEMMA FreezeBeginsStep ==
    ASSUME CoreInv, NEW f \in Freezes, FreezeBegins(f)
    PROVE  CoreInv'
  <1>1. IsNextFreeze(f) /\ pc[f] = "queued" /\ tail # <<>> /\ Head(tail) = f
    BY DEF FreezeBegins, IsNextFreeze
  <1>2. InForce = {} /\ ~frozen
    BY <1>1, TurnIsFree
  <1>3. frozen' = TRUE
        /\ UNCHANGED <<writers, waiting, revision, tail, caller, aborted, timedOut, announced>>
    BY DEF FreezeBegins
  <1>4. CASE writers > 0
    <2>1. Goto(f, "draining") /\ "draining" \in FreezePC /\ f \in Procs /\ f \notin Writes
          /\ listeners' = listeners \cup {f} /\ UNCHANGED <<lease, live>>
      BY <1>4, ProcsAssumption DEF FreezeBegins, FreezePC, Procs, CoreInv, TypeOK
    <2>2. InsideCommits' = InsideCommits /\ Waiters' = Waiters /\ InForce' = {f}
      BY <1>2, <2>1, FreezeMoves DEF CoreInv
    <2>3. TypeOK'
      BY <1>3, <2>1, FreezeMoves DEF TypeOK, CoreInv
    <2>4. CountersInv' /\ InForceInv'
      BY <1>1, <1>3, <2>2 DEF CountersInv, InForceInv, CoreInv
    <2>5. LeasesInv' /\ HeldInv'
      BY <1>1, <2>1, <2>2 DEF LeasesInv, HeldInv, Goto, TypeOK, CoreInv, Procs
    <2>6. NestedUnderLiveLease'
      BY <2>1, FreezeMoves DEF NestedUnderLiveLease, CoreInv
    <2>7. QED
      BY <2>3, <2>4, <2>5, <2>6 DEF CoreInv
  <1>5. CASE writers = 0
    <2>1. Operate(f) /\ UNCHANGED listeners
      BY <1>5 DEF FreezeBegins
    <2>2. /\ lease' \in [Procs -> Procs \cup {NoLease}] /\ live' \subseteq Procs
          /\ LeasesInv' /\ HeldInv' /\ NestedUnderLiveLease' /\ CountersInv'
          /\ InForce' = {f}
          /\ pc' \in [Procs -> WritePC \cup FreezePC]
          /\ \A c \in Writes : pc'[c] \in WritePC
          /\ \A g \in Freezes : pc'[g] \in FreezePC
      BY <1>1, <1>2, <1>3, <1>5, <2>1, Operates
    <2>3. TypeOK'
      BY <1>3, <2>1, <2>2 DEF TypeOK, CoreInv
    <2>4. InForceInv'
      BY <1>1, <1>3, <2>2 DEF InForceInv
    <2>5. QED
      BY <2>2, <2>3, <2>4 DEF CoreInv
  <1>6. QED
    BY <1>4, <1>5 DEF FreezeBegins

LEMMA DrainContinuesStep ==
    ASSUME CoreInv, NEW f \in Freezes, DrainContinues(f)
    PROVE  CoreInv'
  <1>1. pc[f] = "draining" /\ f \in InForce /\ f \in Procs
    BY DEF DrainContinues, InForce, Procs
  <1>2. InForce = {f} /\ frozen /\ tail # <<>> /\ Head(tail) = f
    BY <1>1 DEF CoreInv, InForceInv
  <1>3. UNCHANGED <<frozen, writers, waiting, revision, tail, caller, aborted,
                    timedOut, announced>>
    BY DEF DrainContinues
  <1>4. CASE writers > 0
    <2>1. listeners' = listeners \cup {f} /\ UNCHANGED <<pc, lease, live>>
      BY <1>4 DEF DrainContinues
    <2>2. InsideCommits' = InsideCommits /\ Waiters' = Waiters /\ InForce' = InForce
      BY <2>1, NobodyMoves
    <2>3. TypeOK'
      BY <1>1, <1>3, <2>1 DEF TypeOK, CoreInv
    <2>4. CountersInv' /\ LeasesInv' /\ InForceInv' /\ HeldInv' /\ NestedUnderLiveLease'
      BY <1>3, <2>1, <2>2
      DEF CountersInv, LeasesInv, InForceInv, HeldInv, NestedUnderLiveLease, CoreInv
    <2>5. QED
      BY <2>3, <2>4 DEF CoreInv
  <1>5. CASE writers = 0
    <2>1. Operate(f) /\ UNCHANGED listeners
      BY <1>5 DEF DrainContinues
    <2>2. /\ lease' \in [Procs -> Procs \cup {NoLease}] /\ live' \subseteq Procs
          /\ LeasesInv' /\ HeldInv' /\ NestedUnderLiveLease' /\ CountersInv'
          /\ InForce' = {f}
          /\ pc' \in [Procs -> WritePC \cup FreezePC]
          /\ \A c \in Writes : pc'[c] \in WritePC
          /\ \A g \in Freezes : pc'[g] \in FreezePC
      BY <1>1, <1>2, <1>3, <1>5, <2>1, Operates
    <2>3. TypeOK'
      BY <1>3, <2>1, <2>2 DEF TypeOK, CoreInv
    <2>4. InForceInv'
      BY <1>2, <1>3, <2>2 DEF InForceInv
    <2>5. QED
      BY <2>2, <2>3, <2>4 DEF CoreInv
  <1>6. QED
    BY <1>4, <1>5 DEF DrainContinues

(* Whichever way a freeze ends, it thaws the root it alone had frozen, and *)
(* leaves nothing under its lease.                                         *)
LEMMA Thaws ==
    ASSUME CoreInv, NEW f \in InForce, NEW label \in {"done", "failed"}, Thaw(f, label),
           \A c \in Writes : pc[c] = "direct" => lease[c] # f
    PROVE  CoreInv'
  <1> USE DEF CoreInv
  <1>1. Goto(f, label) /\ label \in FreezePC /\ f \in Freezes /\ f \in Procs /\ f \notin Writes
    BY ProcsAssumption DEF Thaw, FreezePC, Procs, InForce
  <1>2. InForce = {f} /\ tail # <<>>
    BY DEF InForceInv
  <1>3. frozen' = FALSE /\ live' = live \ {f} /\ listeners' = {} /\ tail' = Tail(tail)
        /\ UNCHANGED <<writers, waiting, revision, caller, lease, aborted, timedOut, announced>>
    BY DEF Thaw
  <1>4. InsideCommits' = InsideCommits /\ Waiters' = Waiters /\ InForce' = {}
    <2>1. label \notin {"draining", "rejected", "operating"}
      OBVIOUS
    <2>2. InsideCommits' = InsideCommits /\ Waiters' = Waiters /\ InForce' = InForce \ {f}
      BY <1>1, <2>1, FreezeMoves
    <2>3. QED
      BY <1>2, <2>2
  <1>5. TypeOK'
    <2>1. tail' \in Seq(Freezes)
      BY <1>2, <1>3 DEF TypeOK
    <2>2. QED
      BY <1>1, <1>3, <2>1, FreezeMoves DEF TypeOK
  <1>6. CountersInv' /\ InForceInv'
    BY <1>3, <1>4 DEF CountersInv, InForceInv
  <1>7. LeasesInv'
    BY <1>1, <1>3 DEF LeasesInv, Goto, TypeOK
  <1>8. HeldInv'
    BY <1>1, <1>4 DEF HeldInv, Goto, TypeOK, Procs
  <1>9. NestedUnderLiveLease'
    BY <1>1, <1>3, FreezeMoves DEF NestedUnderLiveLease
  <1>10. QED
    BY <1>5, <1>6, <1>7, <1>8, <1>9

LEMMA DrainFailsStep ==
    ASSUME CoreInv, NEW f \in Freezes, DrainFails(f)
    PROVE  CoreInv'
  <1>1. pc[f] \in {"draining", "rejected"} /\ f \in InForce /\ Thaw(f, "failed") /\ f \in Procs
    BY DEF DrainFails, InForce, Procs
  <1>2. f \notin live
    BY <1>1 DEF CoreInv, LeasesInv
  <1>3. \A c \in Writes : pc[c] = "direct" => lease[c] # f
    BY <1>2 DEF CoreInv, NestedUnderLiveLease
  <1>4. QED
    BY <1>1, <1>3, Thaws

LEMMA FreezeEndsStep ==
    ASSUME CoreInv, NEW f \in Freezes, FreezeEnds(f)
    PROVE  CoreInv'
  <1>1. f \in InForce /\ Thaw(f, "done") /\ AwaitedAll(f)
    BY DEF FreezeEnds, InForce
  <1>2. QED
    BY <1>1, Thaws DEF AwaitedAll

(* The abort event disturbs only a call that is suspended in changed().    *)
LEMMA RejectStep ==
    ASSUME IInv, NEW p \in Procs, Reject(p),
           UNCHANGED <<frozen, writers, waiting, revision, tail, caller, lease, live, announced>>,
           aborted' \subseteq Requests \cup Freezes, timedOut' \subseteq Freezes
    PROVE  CoreInv'
  <1> USE DEF IInv, CoreInv
  <1>1. CASE p \notin listeners
    <2>1. UNCHANGED <<pc, listeners>>
      BY <1>1 DEF Reject
    <2>2. InsideCommits' = InsideCommits /\ Waiters' = Waiters /\ InForce' = InForce
      BY <2>1, NobodyMoves
    <2>3. TypeOK'
      BY <2>1 DEF TypeOK
    <2>4. CountersInv' /\ LeasesInv' /\ InForceInv' /\ HeldInv' /\ NestedUnderLiveLease'
      BY <2>1, <2>2 DEF CountersInv, LeasesInv, InForceInv, HeldInv, NestedUnderLiveLease
    <2>5. QED
      BY <2>3, <2>4
  <1>2. CASE p \in listeners /\ p \in Writes
    <2>1. Goto(p, "rejected") /\ listeners' = listeners \ {p} /\ pc[p] = "parked"
          /\ "rejected" \in WritePC
      BY <1>2 DEF Reject, NoLostWakeup, WritePC
    <2>2. p \in Waiters /\ p \notin InsideCommits
      BY <1>2, <2>1 DEF Waiters, InsideCommits
    <2>3. InsideCommits' = InsideCommits /\ Waiters' = Waiters /\ InForce' = InForce
      <3>1. /\ InsideCommits' = InsideCommits \ {p} /\ InForce' = InForce
            /\ Waiters' = Waiters \cup {p}
        BY <1>2, <2>1, WriteMoves
      <3>2. QED
        BY <2>2, <3>1
    <2>4. TypeOK'
      BY <1>2, <2>1, WriteMoves DEF TypeOK
    <2>5. CountersInv'
      BY <2>3 DEF CountersInv
    <2>6. LeasesInv'
      BY <2>1 DEF LeasesInv, Goto, TypeOK
    <2>7. InForceInv' /\ HeldInv'
      BY <1>2, <2>1, <2>3, WriteMoves DEF InForceInv, HeldInv
    <2>8. NestedUnderLiveLease'
      BY <2>1 DEF NestedUnderLiveLease, Goto, TypeOK, Procs
    <2>9. QED
      BY <2>4, <2>5, <2>6, <2>7, <2>8
  <1>3. CASE p \in listeners /\ p \in Freezes
    <2>1. Goto(p, "rejected") /\ listeners' = listeners \ {p} /\ pc[p] = "draining"
          /\ "rejected" \in FreezePC
      BY <1>3 DEF Reject, NoLostWakeup, FreezePC
    <2>2. p \in InForce
      BY <1>3, <2>1 DEF InForce
    <2>3. InForce' = InForce \cup {p}
      BY <1>3, <2>1, FreezeMoves
    <2>4. InsideCommits' = InsideCommits /\ Waiters' = Waiters /\ InForce' = InForce
      <3>1. InForce' = InForce
        BY <2>2, <2>3
      <3>2. InsideCommits' = InsideCommits /\ Waiters' = Waiters
        BY <1>3, <2>1, FreezeMoves
      <3>3. QED
        BY <3>1, <3>2
    <2>5. TypeOK'
      BY <1>3, <2>1, FreezeMoves DEF TypeOK
    <2>6. CountersInv' /\ InForceInv'
      BY <2>4 DEF CountersInv, InForceInv
    <2>7. LeasesInv'
      BY <2>1 DEF LeasesInv, Goto, TypeOK
    <2>8. HeldInv'
      BY <2>1, <2>4 DEF HeldInv, Goto, TypeOK, Procs
    <2>9. NestedUnderLiveLease'
      BY <1>3, <2>1, FreezeMoves DEF NestedUnderLiveLease
    <2>10. QED
      BY <2>5, <2>6, <2>7, <2>8, <2>9
  <1>4. QED
    BY <1>1, <1>2, <1>3 DEF Procs

LEMMA AbortStep ==
    ASSUME IInv, NEW p \in Requests \cup Freezes, Abort(p)
    PROVE  CoreInv'
  <1>1. p \in Procs
    BY ProcsAssumption DEF Procs
  <1>2. Reject(p) /\ aborted' \subseteq Requests \cup Freezes /\ timedOut' \subseteq Freezes
        /\ UNCHANGED <<frozen, writers, waiting, revision, tail, caller, lease, live, announced>>
    BY DEF Abort, IInv, CoreInv, TypeOK
  <1>3. QED
    BY <1>1, <1>2, RejectStep

LEMMA TimeoutStep ==
    ASSUME IInv, NEW f \in Freezes, Timeout(f)
    PROVE  CoreInv'
  <1>1. f \in Procs
    BY DEF Procs
  <1>2. Reject(f) /\ aborted' \subseteq Requests \cup Freezes /\ timedOut' \subseteq Freezes
        /\ UNCHANGED <<frozen, writers, waiting, revision, tail, caller, lease, live, announced>>
    BY DEF Timeout, IInv, CoreInv, TypeOK
  <1>3. QED
    BY <1>1, <1>2, RejectStep

(* A step in which nothing changes.                                        *)
LEMMA StutterStep == ASSUME IInv, UNCHANGED vars PROVE IInv'
  BY DEF IInv, CoreInv, NoLostWakeup, TypeOK, CountersInv, LeasesInv, InForceInv, HeldInv,
         NestedUnderLiveLease, InsideCommits, Waiters, InForce, vars

-----------------------------------------------------------------------------
(* Every step of the coordinator preserves the core of the invariant.      *)
LEMMA NextCoreInv == ASSUME IInv, Next PROVE CoreInv'
  <1>1. CoreInv
    BY DEF IInv
  <1>2. ASSUME NEW c \in Writes, Write(c) PROVE CoreInv'
    BY <1>1, <1>2, WriteNestedStep, WriteRefusedStep, WriteEntersStep, WriteParksStep DEF Write
  <1>3. ASSUME NEW c \in Writes, Resume(c) PROVE CoreInv'
    BY <1>1, <1>3, ResumeEntersStep, ResumeParksStep, ResumeCancelledStep DEF Resume
  <1>4. ASSUME NEW c \in Writes, OperationEnds(c) PROVE CoreInv'
    BY <1>1, <1>4, CommitEndsStep, NestedEndsStep DEF OperationEnds
  <1>5. ASSUME NEW f \in Freezes, Freeze(f) PROVE CoreInv'
    BY <1>1, <1>5, FreezeRejectedStep, FreezeCallStep DEF Freeze
  <1>6. ASSUME NEW f \in Freezes, FreezeRuns(f) PROVE CoreInv'
    BY <1>1, <1>6, FreezeSkippedStep, FreezeBeginsStep, DrainContinuesStep, DrainFailsStep
    DEF FreezeRuns
  <1>7. ASSUME NEW f \in Freezes, FreezeEnds(f) PROVE CoreInv'
    BY <1>1, <1>7, FreezeEndsStep
  <1>8. ASSUME NEW f \in Freezes, Timeout(f) PROVE CoreInv'
    BY <1>8, TimeoutStep
  <1>9. ASSUME NEW p \in Requests \cup Freezes, Abort(p) PROVE CoreInv'
    BY <1>9, AbortStep
  <1>10. ASSUME Quiescent PROVE CoreInv'
    BY <1>10, StutterStep DEF Quiescent, IInv
  <1>11. QED
    BY <1>2, <1>3, <1>4, <1>5, <1>6, <1>7, <1>8, <1>9, <1>10 DEF Next

(* Every step leaves the suspended calls with something that will wake     *)
(* them: parked writes with a freeze in force, a draining freeze with a    *)
(* commit inside.                                                          *)
LEMMA NextNoLostWakeup == ASSUME IInv, Next PROVE NoLostWakeup'
  <1> USE DEF IInv, CoreInv
  <1>a. /\ pc \in [Procs -> WritePC \cup FreezePC] /\ writers \in Nat
        /\ listeners \subseteq Procs
    BY DEF TypeOK
  <1>1. ASSUME NEW c \in Writes, Write(c) PROVE NoLostWakeup'
    <2>1. c \in Procs /\ pc[c] = "idle" /\ c \notin listeners
      BY <1>1 DEF Write, WriteNested, WriteRefused, WriteEnters, WriteParks, NoLostWakeup, Procs
    <2>2. PICK p \in Contexts : WriteNested(c, p) \/ WriteRefused(c, p)
                                \/ WriteEnters(c, p) \/ WriteParks(c, p)
      BY <1>1 DEF Write
    <2>3. CASE WriteNested(c, p) \/ WriteRefused(c, p)
      BY <1>a, <2>1, <2>3 DEF NoLostWakeup, WriteNested, WriteRefused, Goto, Procs
    <2>4. CASE WriteEnters(c, p)
      BY <1>a, <2>1, <2>4 DEF NoLostWakeup, WriteEnters, EnterCommit, Goto, Procs
    <2>5. CASE WriteParks(c, p)
      BY <1>a, <2>1, <2>5, ProcsAssumption DEF NoLostWakeup, WriteParks, Goto, Procs
    <2>6. QED
      BY <2>2, <2>3, <2>4, <2>5
  <1>2. ASSUME NEW c \in Writes, Resume(c) PROVE NoLostWakeup'
    <2>1. c \in Procs /\ c \notin Freezes
      BY ProcsAssumption DEF Procs
    <2>2. CASE ResumeEnters(c)
      BY <1>a, <2>1, <2>2 DEF NoLostWakeup, ResumeEnters, EnterCommit, Goto, Procs
    <2>3. CASE ResumeParks(c)
      BY <1>a, <2>1, <2>3 DEF NoLostWakeup, ResumeParks
    <2>4. CASE ResumeCancelled(c)
      BY <1>a, <2>1, <2>4 DEF NoLostWakeup, ResumeCancelled, Goto, Procs
    <2>5. QED
      BY <1>2, <2>2, <2>3, <2>4 DEF Resume
  <1>3. ASSUME NEW c \in Writes, OperationEnds(c) PROVE NoLostWakeup'
    <2>1. CASE CommitEnds(c)
      BY <2>1 DEF NoLostWakeup, CommitEnds
    <2>2. CASE NestedEnds(c)
      BY <1>a, <2>2 DEF NoLostWakeup, NestedEnds, Goto, Procs
    <2>3. QED
      BY <1>3, <2>1, <2>2 DEF OperationEnds
  <1>4. ASSUME NEW f \in Freezes, Freeze(f) PROVE NoLostWakeup'
    BY <1>a, <1>4 DEF NoLostWakeup, Freeze, FreezeRejected, FreezeCall, Goto, Procs
  <1>5. ASSUME NEW f \in Freezes, FreezeRuns(f) PROVE NoLostWakeup'
    <2>1. f \in Procs /\ f \notin Writes
      BY ProcsAssumption DEF Procs
    <2>2. CASE FreezeSkipped(f)
      BY <1>a, <2>1, <2>2 DEF NoLostWakeup, FreezeSkipped, IsNextFreeze, Goto, Procs
    <2>3. CASE FreezeBegins(f)
      BY <1>a, <2>1, <2>3 DEF NoLostWakeup, FreezeBegins, IsNextFreeze, Operate, Goto, Procs
    <2>4. CASE DrainContinues(f)
      BY <1>a, <2>1, <2>4 DEF NoLostWakeup, DrainContinues, Operate, Goto, Procs
    <2>5. CASE DrainFails(f)
      BY <2>5 DEF NoLostWakeup, DrainFails, Thaw
    <2>6. QED
      BY <1>5, <2>2, <2>3, <2>4, <2>5 DEF FreezeRuns
  <1>6. ASSUME NEW f \in Freezes, FreezeEnds(f) PROVE NoLostWakeup'
    BY <1>6 DEF NoLostWakeup, FreezeEnds, Thaw
  <1>7. ASSUME NEW f \in Freezes, Timeout(f) PROVE NoLostWakeup'
    BY <1>a, <1>7 DEF NoLostWakeup, Timeout, Reject, Goto, Procs
  <1>8. ASSUME NEW p \in Requests \cup Freezes, Abort(p) PROVE NoLostWakeup'
    BY <1>a, <1>8 DEF NoLostWakeup, Abort, Reject, Goto, Procs
  <1>9. ASSUME Quiescent PROVE NoLostWakeup'
    BY <1>9, StutterStep DEF Quiescent
  <1>10. QED
    BY <1>1, <1>2, <1>3, <1>4, <1>5, <1>6, <1>7, <1>8, <1>9 DEF Next

(* The invariant holds in every reachable state.                           *)
THEOREM Invariance == Spec => []IInv
  <1>1. Init => IInv
    BY InitCoreInv DEF IInv, NoLostWakeup, Init
  <1>2. IInv /\ [Next]_vars => IInv'
    BY NextCoreInv, NextNoLostWakeup, StutterStep DEF IInv
  <1>3. QED
    BY <1>1, <1>2, PTL DEF Spec

(* Types: the counters of write() and freeze() never go below zero, and    *)
(* every call is at a point its kind of call has.                          *)
THEOREM TypeCorrect == Spec => []TypeOK
  <1>1. IInv => TypeOK
    BY DEF IInv, CoreInv
  <1>2. QED
    BY <1>1, Invariance, PTL

(* A freeze has the root to itself: while its operation runs, no commit is *)
(* inside, no other freeze operates, and nested writes are its own.        *)
THEOREM FreezeExcludesCommits == Spec => []ExclusiveFreeze
  <1>1. ASSUME IInv PROVE ExclusiveFreeze
    <2> SUFFICES ASSUME NEW f \in Freezes, pc[f] = "operating", NEW p \in Procs \ {f}
                 PROVE  /\ pc[p] \notin {"inside", "operating"}
                        /\ pc[p] = "direct" => lease[p] = f
      BY DEF ExclusiveFreeze
    <2> USE <1>1 DEF IInv, CoreInv
    <2>1. InForce = {f}
      BY DEF InForceInv, InForce
    <2>2. InsideCommits = {}
      BY DEF HeldInv
    <2>3. \A c \in Writes : pc[c] # "inside" /\ pc[c] # "operating"
      BY <2>2 DEF InsideCommits, TypeOK, WritePC
    <2>4. \A g \in Freezes : g # f => pc[g] # "operating"
      BY <2>1 DEF InForce
    <2>5. \A g \in Freezes : pc[g] # "inside" /\ pc[g] # "direct"
      BY DEF TypeOK, FreezePC
    <2>6. live = {f}
      BY <2>3, <2>4, <2>5 DEF LeasesInv, Procs
    <2>7. QED
      BY <2>3, <2>4, <2>5, <2>6 DEF NestedUnderLiveLease, Procs
  <1>2. QED
    BY <1>1, Invariance, PTL

(* state() tells the truth: the counters are the commits inside and the    *)
(* writes in their wait, and frozen says whether a freeze is in force.     *)
THEOREM CountersAreAccurate == Spec => []CountersAccurate
  <1>1. ASSUME IInv PROVE CountersAccurate
    <2> USE <1>1 DEF IInv, CoreInv
    <2>1. CASE frozen
      <3>1. PICK f \in InForce : TRUE
        BY <2>1 DEF InForceInv
      <3>2. InForce = {f}
        BY <3>1 DEF InForceInv
      <3>3. Cardinality(InForce) = 1
        BY <3>2, FS_Singleton
      <3>4. QED
        BY <2>1, <3>3 DEF CountersAccurate, CountersInv
    <2>2. CASE ~frozen
      <3>1. InForce = {}
        BY <2>2 DEF InForceInv
      <3>2. Cardinality(InForce) = 0
        BY <3>1, FS_EmptySet
      <3>3. QED
        BY <2>2, <3>1, <3>2 DEF CountersAccurate, CountersInv
    <2>3. QED
      BY <2>1, <2>2 DEF TypeOK
  <1>2. QED
    BY <1>1, Invariance, PTL

(* No call sleeps through its wake-up.                                     *)
THEOREM WakeupsArrive == Spec => []NoLostWakeup
  <1>1. IInv => NoLostWakeup
    BY DEF IInv
  <1>2. QED
    BY <1>1, Invariance, PTL

-----------------------------------------------------------------------------
(* The refinement: what each step is at the gate.                          *)
Operating == {f \in Freezes : pc[f] = "operating"}

(* A freeze that operates is the one in force, so it is the holder.        *)
LEMMA TheHolder ==
    ASSUME CoreInv
    PROVE  /\ \A f \in Operating : Holder = f /\ Operating = {f} /\ frozen /\ InsideCommits = {}
           /\ Operating = {} => Holder = NoLease
  BY DEF CoreInv, InForceInv, InForce, HeldInv, Holder, Operating

LEMMA TheHolderNext ==
    ASSUME CoreInv'
    PROVE  /\ \A f \in Operating' : Holder' = f /\ Operating' = {f} /\ InsideCommits' = {}
           /\ Operating' = {} => Holder' = NoLease
           /\ ~frozen' => Operating' = {}
  BY DEF CoreInv, InForceInv, InForce, HeldInv, Holder, Operating

LEMMA SameHolder ==
    ASSUME CoreInv, CoreInv', Operating' = Operating
    PROVE  Holder' = Holder
  <1>1. CASE Operating = {}
    BY <1>1, TheHolder, TheHolderNext
  <1>2. CASE Operating # {}
    <2>1. PICK f \in Operating : TRUE
      BY <1>2
    <2>2. QED
      BY <2>1, TheHolder, TheHolderNext
  <1>3. QED
    BY <1>1, <1>2

(* The initial coordinator is an open gate with nobody inside.             *)
LEMMA InitGate == ASSUME Init PROVE Gate!GateInit
  <1>1. InsideCommits = {} /\ Holder = NoLease
    BY DEF Init, InsideCommits, Holder, Procs
  <1>2. QED
    BY <1>1 DEF Init, Gate!GateInit

(* A write that enters begins a commit, one that ends ends it, and every   *)
(* other step of a write is invisible.                                     *)
LEMMA WriteAtGate ==
    ASSUME CoreInv, CoreInv', NEW c \in Writes, Write(c) \/ Resume(c) \/ OperationEnds(c)
    PROVE  [Gate!GateNext]_Gate!gateVars
  <1>1. TypeOK /\ c \in Procs
    BY DEF CoreInv, Procs
  <1>2. (\E label \in WritePC : Goto(c, label)) \/ pc' = pc
    BY DEF Write, WriteNested, WriteRefused, WriteEnters, WriteParks, EnterCommit,
       Resume, ResumeEnters, ResumeParks, ResumeCancelled, OperationEnds, CommitEnds,
       NestedEnds, WritePC
  <1>3. \A f \in Freezes : pc'[f] = pc[f]
    BY <1>1, <1>2, WriteMoves
  <1>4. Operating' = Operating
    BY <1>3 DEF Operating
  <1>5. Holder' = Holder
    BY <1>4, SameHolder
  <1>6. frozen' = frozen
    BY DEF Write, WriteNested, WriteRefused, WriteEnters, WriteParks,
       Resume, ResumeEnters, ResumeParks, ResumeCancelled, OperationEnds, CommitEnds, NestedEnds
  <1>7. CASE Goto(c, "inside") /\ pc[c] \in {"idle", "parked"} /\ ~frozen /\ revision' = revision
    <2>1. "inside" \in WritePC /\ c \notin InsideCommits
      BY <1>7 DEF WritePC, InsideCommits
    <2>2. InsideCommits' = InsideCommits \cup {c}
      BY <1>1, <1>7, <2>1, WriteMoves
    <2>3. Gate!Begin(c)
      BY <1>5, <1>6, <1>7, <2>1, <2>2 DEF Gate!Begin
    <2>4. QED
      BY <2>3 DEF Gate!GateNext
  <1>8. CASE CommitEnds(c)
    <2>1. Goto(c, "done") /\ "done" \in WritePC /\ c \in InsideCommits /\ revision' = revision + 1
      BY <1>8 DEF CommitEnds, WritePC, InsideCommits
    <2>2. InsideCommits' = InsideCommits \ {c}
      <3>1. "done" # "inside"
        OBVIOUS
      <3>2. QED
        BY <1>1, <2>1, <3>1, WriteMoves
    <2>3. Gate!End(c)
      BY <1>5, <1>6, <2>1, <2>2 DEF Gate!End
    <2>4. QED
      BY <2>3 DEF Gate!GateNext
  <1>9. CASE \/ \E label \in WritePC \ {"inside"} :
                   Goto(c, label) /\ pc[c] # "inside" /\ revision' = revision
             \/ pc' = pc /\ revision' = revision
    <2>1. InsideCommits' = InsideCommits
      <3>1. CASE pc' = pc
        BY <3>1, NobodyMoves
      <3>2. ASSUME NEW label \in WritePC \ {"inside"}, Goto(c, label), pc[c] # "inside"
            PROVE  InsideCommits' = InsideCommits
        <4>1. InsideCommits' = InsideCommits \ {c}
          BY <1>1, <3>2, WriteMoves
        <4>2. QED
          BY <3>2, <4>1 DEF InsideCommits
      <3>3. QED
        BY <1>9, <3>1, <3>2
    <2>2. QED
      BY <1>5, <1>6, <1>9, <2>1 DEF Gate!gateVars
  <1>10. QED
    <2>1. CASE Write(c)
      BY <1>7, <1>9, <2>1 DEF Write, WriteNested, WriteRefused, WriteEnters, WriteParks,
         EnterCommit, WritePC
    <2>2. CASE Resume(c)
      BY <1>7, <1>9, <2>2 DEF Resume, ResumeEnters, ResumeParks, ResumeCancelled,
         EnterCommit, WritePC
    <2>3. CASE OperationEnds(c)
      BY <1>8, <1>9, <2>3 DEF OperationEnds, NestedEnds, WritePC
    <2>4. QED
      BY <2>1, <2>2, <2>3

(* A step of a freeze that neither starts nor ends an operation, and       *)
(* leaves frozen alone, is invisible.                                      *)
LEMMA FreezeInvisible ==
    ASSUME CoreInv, CoreInv', NEW f \in Freezes, pc[f] # "operating",
           pc' = pc \/ \E label \in FreezePC \ {"operating"} : Goto(f, label),
           UNCHANGED <<frozen, revision>>
    PROVE  UNCHANGED Gate!gateVars
  <1>1. TypeOK /\ f \in Procs
    BY DEF CoreInv, Procs
  <1>2. InsideCommits' = InsideCommits
    BY <1>1, FreezeMoves, NobodyMoves
  <1>3. Operating' = Operating
    BY <1>1 DEF Operating, Goto, TypeOK, Procs
  <1>4. QED
    BY <1>2, <1>3, SameHolder DEF Gate!gateVars

(* A freeze closes the gate as it begins, holds it once the root is        *)
(* drained, and opens it as it ends.                                       *)
LEMMA FreezeAtGate ==
    ASSUME CoreInv, CoreInv', NEW f \in Freezes, Freeze(f) \/ FreezeRuns(f) \/ FreezeEnds(f)
    PROVE  [Gate!GateNext]_Gate!gateVars
  <1>1. TypeOK /\ f \in Procs
    BY DEF CoreInv, Procs
  <1>2. CASE Freeze(f) \/ FreezeSkipped(f)
    <2>1. /\ pc[f] # "operating" /\ UNCHANGED <<frozen, revision>>
          /\ \E label \in FreezePC \ {"operating"} : Goto(f, label)
      BY <1>2 DEF Freeze, FreezeRejected, FreezeCall, FreezeSkipped, IsNextFreeze, FreezePC
    <2>2. QED
      BY <2>1, FreezeInvisible
  <1>3. CASE FreezeBegins(f)
    <2>1. pc[f] = "queued" /\ Head(tail) = f /\ frozen' = TRUE /\ revision' = revision
      BY <1>3 DEF FreezeBegins, IsNextFreeze
    <2>2. frozen = FALSE /\ InForce = {}
      BY <2>1 DEF CoreInv, InForceInv, InForce, TypeOK
    <2>3. Holder = NoLease
      BY <2>2, TheHolder DEF InForce, Operating
    <2>4. CASE Goto(f, "draining")
      <3>1. "draining" \in FreezePC /\ InsideCommits' = InsideCommits
        BY <1>1, <2>4, FreezeMoves DEF FreezePC
      <3>2. Operating' = Operating
        BY <1>1, <2>1, <2>4 DEF Operating, Goto, TypeOK, Procs
      <3>3. Gate!Close
        BY <2>1, <2>2, <3>1, <3>2, SameHolder DEF Gate!Close
      <3>4. QED
        BY <3>3 DEF Gate!GateNext
    <2>5. CASE Goto(f, "operating")
      <3>1. "operating" \in FreezePC /\ InsideCommits' = InsideCommits
        BY <1>1, <2>5, FreezeMoves DEF FreezePC
      <3>2. f \in Operating'
        BY <1>1, <2>5 DEF Operating, Goto, TypeOK
      <3>3. Holder' = f /\ InsideCommits = {}
        BY <3>1, <3>2, TheHolderNext
      <3>4. Gate!Close
        BY <2>1, <2>2, <3>1, <3>3 DEF Gate!Close
      <3>5. QED
        BY <3>4 DEF Gate!GateNext
    <2>6. QED
      BY <1>3, <2>4, <2>5 DEF FreezeBegins, Operate
  <1>4. CASE DrainContinues(f)
    <2>1. pc[f] = "draining" /\ UNCHANGED <<frozen, revision>>
      BY <1>4 DEF DrainContinues
    <2>2. CASE pc' = pc
      BY <2>1, <2>2, FreezeInvisible
    <2>3. CASE Goto(f, "operating")
      <3>1. "operating" \in FreezePC /\ InsideCommits' = InsideCommits
        BY <1>1, <2>3, FreezeMoves DEF FreezePC
      <3>2. frozen /\ InForce = {f}
        BY <2>1 DEF CoreInv, InForceInv, InForce
      <3>3. Holder = NoLease
        BY <2>1, <3>2, TheHolder DEF InForce, Operating
      <3>4. f \in Operating'
        BY <1>1, <2>3 DEF Operating, Goto, TypeOK
      <3>5. Holder' = f /\ InsideCommits = {}
        BY <3>1, <3>4, TheHolderNext
      <3>6. Gate!Hold
        BY <2>1, <3>1, <3>2, <3>3, <3>5 DEF Gate!Hold
      <3>7. QED
        BY <3>6 DEF Gate!GateNext
    <2>4. QED
      BY <1>4, <2>2, <2>3 DEF DrainContinues, Operate
  <1>5. CASE DrainFails(f) \/ FreezeEnds(f)
    <2>1. /\ f \in InForce /\ frozen' = FALSE /\ revision' = revision
          /\ \E label \in {"done", "failed"} : Goto(f, label)
      BY <1>5 DEF DrainFails, FreezeEnds, Thaw, InForce
    <2>2. frozen
      BY <2>1 DEF CoreInv, InForceInv
    <2>3. InsideCommits' = InsideCommits
      BY <1>1, <2>1, FreezeMoves DEF FreezePC
    <2>4. Holder' = NoLease
      BY <2>1, TheHolderNext
    <2>5. Gate!Open
      BY <2>1, <2>2, <2>3, <2>4 DEF Gate!Open
    <2>6. QED
      BY <2>5 DEF Gate!GateNext
  <1>6. QED
    BY <1>2, <1>3, <1>4, <1>5 DEF FreezeRuns

(* The abort event and the timer reach nobody who is inside the gate.      *)
LEMMA RejectAtGate ==
    ASSUME IInv, CoreInv', NEW p \in Procs, Reject(p), UNCHANGED <<frozen, revision>>
    PROVE  UNCHANGED Gate!gateVars
  <1>1. CoreInv /\ TypeOK
    BY DEF IInv, CoreInv
  <1>2. CASE pc' = pc
    <2>1. Operating' = Operating
      BY <1>2 DEF Operating
    <2>2. QED
      BY <1>1, <1>2, <2>1, NobodyMoves, SameHolder DEF Gate!gateVars
  <1>3. CASE p \in listeners /\ Goto(p, "rejected")
    <2>1. pc[p] \in {"parked", "draining"}
      BY <1>3 DEF IInv, NoLostWakeup, Procs
    <2>2. Operating' = Operating /\ InsideCommits' = InsideCommits
      BY <1>1, <1>3, <2>1 DEF Operating, InsideCommits, Goto, TypeOK, Procs
    <2>3. QED
      BY <1>1, <2>2, SameHolder DEF Gate!gateVars
  <1>4. QED
    BY <1>2, <1>3 DEF Reject

(* The coordinator implements the gate: each of its steps is one of the    *)
(* gate's or changes nothing the gate shows (write, freeze, their waits,   *)
(* cancellations and time limits).                                         *)
THEOREM GateImplemented == Spec => ImplementsGate
  <1>1. Init => Gate!GateInit
    BY InitGate
  <1>2. IInv /\ IInv' /\ [Next]_vars => [Gate!GateNext]_Gate!gateVars
    <2> SUFFICES ASSUME IInv, IInv', [Next]_vars
                 PROVE  [Gate!GateNext]_Gate!gateVars
      OBVIOUS
    <2>1. CoreInv /\ CoreInv'
      BY DEF IInv
    <2>2. ASSUME UNCHANGED vars PROVE UNCHANGED Gate!gateVars
      <3>1. pc' = pc /\ frozen' = frozen /\ revision' = revision
        BY <2>2 DEF vars
      <3>2. Operating' = Operating
        BY <3>1 DEF Operating
      <3>3. QED
        BY <2>1, <3>1, <3>2, NobodyMoves, SameHolder DEF Gate!gateVars
    <2>3. ASSUME NEW c \in Writes, Write(c) \/ Resume(c) \/ OperationEnds(c)
          PROVE  [Gate!GateNext]_Gate!gateVars
      BY <2>1, <2>3, WriteAtGate
    <2>4. ASSUME NEW f \in Freezes, Freeze(f) \/ FreezeRuns(f) \/ FreezeEnds(f)
          PROVE  [Gate!GateNext]_Gate!gateVars
      BY <2>1, <2>4, FreezeAtGate
    <2>5. ASSUME NEW f \in Freezes, Timeout(f)
          PROVE  UNCHANGED Gate!gateVars
      BY <2>1, <2>5, RejectAtGate DEF Timeout, Procs
    <2>6. ASSUME NEW p \in Requests \cup Freezes, Abort(p)
          PROVE  UNCHANGED Gate!gateVars
      <3>1. p \in Procs
        BY ProcsAssumption DEF Procs
      <3>2. QED
        BY <2>1, <2>6, <3>1, RejectAtGate DEF Abort
    <2>7. QED
      BY <2>2, <2>3, <2>4, <2>5, <2>6 DEF Next, Quiescent
  <1>3. QED
    BY <1>1, <1>2, Invariance, PTL DEF Spec, ImplementsGate, Gate!GateSpec

-----------------------------------------------------------------------------
(* The reloads of the storage context (StorageReload), which drain what the*)
(* coordinator lets through.                                               *)

(* A request is counted from the time it is let in to the time its response*)
(* or its client is gone, and a reload in progress has a caller.           *)
CountedInv ==
    /\ Handling \cap connected \subseteq counted
    /\ counted \cap At({"away", "parked"}) = {}
    /\ phase # "none" => reloads # <<>>

(* From the journal of a restore on no request is let in or parked: those  *)
(* at the gate when it replaces the files were there when it began, and    *)
(* from its drain on only those can have gone on.                          *)
RestoreInv ==
    /\ job["restore"] \in {"freezing", "frozen", "entering", "closing", "replacing"} => maintenance
    /\ job["restore"] \in {"entering", "closing", "replacing"} => At({"parked"}) \subseteq across
    /\ job["restore"] = "closing" => Handling \cap connected \subseteq across

ReloadInv == ReloadTypeOK /\ CountedInv /\ RestoreInv /\ ReplacedAlone

-----------------------------------------------------------------------------
(* The count of requests is that of a finite set.                          *)
LEMMA FiniteServed ==
    ASSUME NEW P, P \subseteq Served
    PROVE  IsFiniteSet(P) /\ Cardinality(P) \in Nat
  BY FS_Subset, FS_CardinalityType, ReloadAssumption

LEMMA Counts ==
    ASSUME ReloadTypeOK, NEW rs, rs \subseteq Served,
           rs \cap counted = {}, Count(rs)
    PROVE  counted' \subseteq Served /\ counted' = counted \cup rs /\ inflight' = Cardinality(counted')
  <1>1. counted \subseteq Served /\ inflight = Cardinality(counted)
    BY DEF ReloadTypeOK
  <1>2. IsFiniteSet(counted) /\ IsFiniteSet(rs)
    BY <1>1, FiniteServed
  <1>3. Cardinality(counted) \in Nat /\ Cardinality(rs) \in Nat
    BY <1>2, FS_CardinalityType
  <1>4. counted \cap rs = {}
    OBVIOUS
  <1>5. Cardinality(counted \cap rs) = 0
    BY <1>4, FS_EmptySet
  <1>6. Cardinality(counted \cup rs) = Cardinality(counted) + Cardinality(rs) - Cardinality(counted \cap rs)
    BY <1>2, FS_Union
  <1>7. Cardinality(counted \cup rs) = Cardinality(counted) + Cardinality(rs)
    BY <1>3, <1>5, <1>6
  <1>8. QED
    BY <1>1, <1>7 DEF Count

LEMMA Uncounts ==
    ASSUME ReloadTypeOK, NEW r, Uncount(r)
    PROVE  counted' \subseteq Served /\ counted' = counted \ {r} /\ inflight' = Cardinality(counted')
  <1>1. counted \subseteq Served /\ inflight = Cardinality(counted)
    BY DEF ReloadTypeOK
  <1>2. IsFiniteSet(counted)
    BY <1>1, FiniteServed
  <1>3. CASE r \in counted
    BY <1>1, <1>2, <1>3, FS_RemoveElement DEF Uncount
  <1>4. CASE r \notin counted
    <2>1. counted \ {r} = counted
      BY <1>4
    <2>2. QED
      BY <1>1, <1>4, <2>1 DEF Uncount
  <1>5. QED
    BY <1>3, <1>4

(* Nobody is counted when the count is zero.                               *)
LEMMA NobodyCounted ==
    ASSUME ReloadTypeOK, inflight = 0
    PROVE  counted = {}
  <1>1. IsFiniteSet(counted) /\ Cardinality(counted) = 0
    BY FiniteServed DEF ReloadTypeOK
  <1>2. QED
    BY <1>1, FS_EmptySet

Places == {"away", "parked", "working", "writing", "waiting", "done"}
LEMMA RequestMoves ==
    ASSUME ReloadTypeOK, NEW r \in Served, NEW stage \in Places, ReqGoto(r, stage)
    PROVE  /\ req' \in [Served -> Places] /\ req'[r] = stage
           /\ \A s \in Served : s # r => req'[s] = req[s]
  BY DEF ReloadTypeOK, ReqGoto, Places

LEMMA ReloadInitInv ==
    ASSUME ReloadInit
    PROVE  ReloadInv
  <1>1. inflight = Cardinality(counted)
    <2>1. counted = {} /\ inflight = 0
      BY DEF ReloadInit
    <2>2. QED
      BY <2>1, FS_EmptySet
  <1>2. ReloadTypeOK
    <2>1. writes \in [Served -> 0..MaxWrites]
      <3>1. 0 \in 0..MaxWrites
        BY ReloadAssumption
      <3>2. QED
        BY <3>1 DEF ReloadInit
    <2>2. reloads \in Seq(Jobs \cup {"select"})
      BY DEF ReloadInit
    <2>3. inflight = Cardinality(counted)
      BY <1>1
    <2>4. QED
      BY <2>1, <2>2, <2>3 DEF ReloadInit, ReloadTypeOK, Jobs, JobStages
  <1>3. QED
    BY <1>2 DEF ReloadInit, ReloadInv, CountedInv, RestoreInv, ReplacedAlone, Jobs,
       Handling, At

(* A request that moves between places where it is handled, or to its end. *)
LEMMA RequestGoesOn ==
    ASSUME ReloadInv, NEW r \in Served, NEW stage \in Places,
           ReqGoto(r, stage), req[r] \in {"working", "writing", "waiting"},
           stage \in {"working", "writing", "waiting"},
           writes' \in [Served -> 0..MaxWrites], cancelled' \subseteq Served, told' \subseteq Served,
           UNCHANGED <<counted, inflight, connected, across, context, freeze, job, library>>
    PROVE  ReloadInv'
  <1>1. /\ req' \in [Served -> Places] /\ req'[r] = stage
        /\ \A s \in Served : s # r => req'[s] = req[s]
    BY RequestMoves DEF ReloadInv
  <1>2. ReloadTypeOK'
    BY <1>1 DEF ReloadInv, ReloadTypeOK, Places, context, library
  <1>3. Handling' = Handling /\ At({"parked"})' = At({"parked"})
        /\ At({"away", "parked"})' = At({"away", "parked"})
    BY <1>1 DEF Handling, At
  <1>4. QED
    BY <1>2, <1>3 DEF ReloadInv, CountedInv, RestoreInv, ReplacedAlone,
       context, library

LEMMA RequestInv ==
    ASSUME ReloadInv, NEW r \in Served,
           Arrive(r) \/ WriteBegins(r) \/ Disconnect(r) \/ Handler(r)
    PROVE  ReloadInv'
  <1>0. ReloadTypeOK /\ CountedInv /\ RestoreInv /\ ReplacedAlone
    BY DEF ReloadInv
  <1>1. CASE Arrive(r)
    <2>1. PICK stage \in {"done", "parked", "working"} : ReqGoto(r, stage) /\
            \/ stage = "done" /\ UNCHANGED <<counted, inflight>>
            \/ ~InMaintenance /\ stage = "parked" /\ UNCHANGED <<counted, inflight>>
            \/ ~InMaintenance /\ stage = "working" /\ Count({r})
      BY <1>1 DEF Arrive
    <2>2. /\ req' \in [Served -> Places] /\ req'[r] = stage /\ req[r] = "away"
          /\ \A s \in Served : s # r => req'[s] = req[s]
      BY <1>0, <1>1, <2>1, RequestMoves DEF Arrive, Places
    <2>3. r \notin counted
      BY <1>0, <2>2 DEF CountedInv, At
    <2>4. /\ counted' \subseteq Served /\ inflight' = Cardinality(counted')
          /\ IF stage = "working" THEN counted' = counted \cup {r} ELSE counted' = counted
      BY <1>0, <2>1, <2>3, Counts DEF ReloadTypeOK
    <2>5. ReloadTypeOK'
      BY <1>0, <1>1, <2>2, <2>4 DEF Arrive, ReloadTypeOK, context, library, Places
    <2>6. CountedInv'
      BY <1>0, <1>1, <2>2, <2>4 DEF Arrive, CountedInv, Handling, At, context
    <2>7. RestoreInv' /\ ReplacedAlone'
      <3>1. stage # "done" => job["restore"] \notin {"entering", "closing", "replacing"}
        BY <1>0, <2>1 DEF RestoreInv, InMaintenance
      <3>2. QED
        BY <1>0, <1>1, <2>1, <2>2, <3>1 DEF Arrive, RestoreInv, ReplacedAlone,
           Handling, At, library
    <2>8. QED
      BY <2>5, <2>6, <2>7 DEF ReloadInv
  <1>2. CASE WriteBegins(r)
    <2>1. PICK stage \in {"writing", "waiting"} : ReqGoto(r, stage)
      BY <1>2 DEF WriteBegins
    <2>2. req[r] = "working" /\ writes' \in [Served -> 0..MaxWrites]
      BY <1>0, <1>2, ReloadAssumption DEF WriteBegins, ReloadTypeOK
    <2>3. cancelled' \subseteq Served /\ told' \subseteq Served
      BY <1>0, <1>2 DEF WriteBegins, ReloadTypeOK
    <2>4. QED
      BY <1>2, <2>1, <2>2, <2>3, RequestGoesOn DEF WriteBegins, Places
  <1>3. CASE Woken(r) \/ WriteEnds(r)
    <2>1. PICK stage \in {"writing", "working"} : ReqGoto(r, stage)
      BY <1>3 DEF Woken, WriteEnds
    <2>2. QED
      BY <1>0, <1>3, <2>1, RequestGoesOn DEF Woken, WriteEnds, Places, ReloadTypeOK
  <1>4. CASE Respond(r)
    <2>1. /\ req' \in [Served -> Places] /\ req'[r] = "done" /\ req[r] = "working"
          /\ \A s \in Served : s # r => req'[s] = req[s]
      BY <1>0, <1>4, RequestMoves DEF Respond, Places
    <2>2. /\ counted' \subseteq Served /\ inflight' = Cardinality(counted')
          /\ counted' \in {counted, counted \ {r}}
      BY <1>0, <1>4, Uncounts DEF Respond, ReloadTypeOK
    <2>3. ReloadTypeOK'
      BY <1>0, <1>4, <2>1, <2>2 DEF Respond, ReloadTypeOK, context, library, Places
    <2>4. CountedInv'
      BY <1>0, <1>4, <2>1, <2>2 DEF Respond, CountedInv, Handling, At, context
    <2>5. RestoreInv' /\ ReplacedAlone'
      BY <1>0, <1>4, <2>1 DEF Respond, RestoreInv, ReplacedAlone,
         Handling, At, library
    <2>6. QED
      BY <2>3, <2>4, <2>5 DEF ReloadInv
  <1>5. CASE Disconnect(r)
    <2>1. counted' \subseteq Served /\ inflight' = Cardinality(counted') /\ counted' = counted \ {r}
      BY <1>0, <1>5, Uncounts DEF Disconnect
    <2>2. connected' = connected \ {r} /\ UNCHANGED <<req, across, job, maintenance, reloads, phase>>
      BY <1>5 DEF Disconnect, context, library
    <2>3. ReloadTypeOK'
      BY <1>0, <1>5, <2>1 DEF Disconnect, ReloadTypeOK, context, library
    <2>4. CountedInv' /\ RestoreInv' /\ ReplacedAlone'
      BY <1>0, <2>1, <2>2 DEF CountedInv, RestoreInv, ReplacedAlone, Handling, At
    <2>5. QED
      BY <2>3, <2>4 DEF ReloadInv
  <1>6. QED
    BY <1>1, <1>2, <1>3, <1>4, <1>5 DEF Handler

(* The reload that goes first ends, and its caller goes on.                *)
LEMMA ReloadLeaves ==
    ASSUME ReloadTypeOK, CountedInv, phase # "none", reloads' = Tail(reloads),
           NEW stage \in {"leaving", "failed"}, CallerGoes(stage)
    PROVE  /\ reloads' \in Seq(Jobs \cup {"select"})
           /\ \A j \in Jobs : job'[j] \in {job[j], stage}
           /\ DOMAIN job' = Jobs
  BY DEF ReloadTypeOK, CountedInv, CallerGoes

LEMMA ReloadStepInv ==
    ASSUME ReloadInv,
           Select \/ Reload \/ ReloadFails
    PROVE  ReloadInv'
  <1>0. ReloadTypeOK /\ CountedInv /\ RestoreInv /\ ReplacedAlone
    BY DEF ReloadInv
  <1>1. CASE Select
    <2>1. reloads' \in Seq(Jobs \cup {"select"}) /\ reloads' # <<>>
      BY <1>0, <1>1 DEF Select, ReloadTypeOK
    <2>2. ReloadTypeOK'
      BY <1>0, <1>1, <2>1 DEF Select, ReloadTypeOK, requests, library
    <2>3. QED
      BY <1>0, <1>1, <2>1, <2>2 DEF Select, ReloadInv, CountedInv, RestoreInv,
         ReplacedAlone, Handling, At, requests, library
  <1>2. CASE DrainBegins
    <2>1. ReloadTypeOK'
      BY <1>0, <1>2 DEF DrainBegins, ReloadTypeOK, At, library
    <2>2. QED
      BY <1>0, <1>2, <2>1 DEF DrainBegins, ReloadInv, CountedInv, RestoreInv,
         ReplacedAlone, Handling, At, library
  <1>3. CASE Drained
    <2>1. ReloadTypeOK'
      BY <1>0, <1>3 DEF Drained, ReloadTypeOK, requests, library
    <2>2. QED
      BY <1>0, <1>3, <2>1 DEF Drained, ReloadInv, CountedInv, RestoreInv,
         ReplacedAlone, Handling, At, requests, library
  <1>4. CASE Switched
    <2>1. phase = "releasing" /\ phase' = "none" /\ UNCHANGED <<connected, across, maintenance, writes>>
      BY <1>4 DEF Switched, library
    <2>2. /\ reloads' \in Seq(Jobs \cup {"select"})
          /\ \A j \in Jobs : job'[j] \in {job[j], "leaving"}
          /\ DOMAIN job' = Jobs
      BY <1>0, <1>4, <2>1, ReloadLeaves DEF Switched
    <2>3. At({"parked"}) \subseteq Served /\ At({"parked"}) \cap counted = {}
      BY <1>0 DEF CountedInv, At
    <2>4. /\ counted' \subseteq Served /\ counted' = counted \cup At({"parked"})
          /\ inflight' = Cardinality(counted')
      BY <1>0, <1>4, <2>3, Counts DEF Switched
    <2>5. /\ req' \in [Served -> Places]
          /\ \A s \in Served : req'[s] = IF req[s] = "parked" THEN "working" ELSE req[s]
      BY <1>0, <1>4 DEF Switched, ReloadTypeOK, Places
    <2>6. ReloadTypeOK'
      <3>1. job' \in [Jobs -> JobStages]
        BY <1>0, <1>4, <2>2 DEF Switched, CallerGoes, ReloadTypeOK, JobStages
      <3>2. QED
        BY <1>0, <1>4, <2>1, <2>2, <2>4, <2>5, <3>1 DEF Switched, ReloadTypeOK, library, Places
    <2>7. CountedInv'
      <3>1. At({"away", "parked"})' \subseteq At({"away"})
        BY <2>5 DEF At
      <3>2. counted' \cap At({"away", "parked"})' = {}
        BY <1>0, <2>4, <3>1 DEF CountedInv, At
      <3>3. Handling' \subseteq Handling \cup At({"parked"})
        BY <2>5 DEF At, Handling
      <3>4. QED
        BY <1>0, <2>1, <2>4, <3>2, <3>3 DEF CountedInv
    <2>8. RestoreInv' /\ ReplacedAlone'
      <3>1. job'["restore"] \in {job["restore"], "leaving"}
        BY <2>2 DEF Jobs
      <3>2. /\ Handling' \subseteq Handling \cup At({"parked"})
            /\ At({"parked"})' \subseteq At({"parked"})
        BY <2>5 DEF At, Handling
      <3>3. QED
        BY <1>0, <2>1, <3>1, <3>2 DEF RestoreInv, ReplacedAlone
    <2>9. QED
      BY <2>6, <2>7, <2>8 DEF ReloadInv
  <1>5. CASE ReloadFails
    <2>1. phase # "none" /\ phase' = "none"
          /\ UNCHANGED <<connected, across, maintenance, writes, counted, inflight>>
      BY <1>5 DEF ReloadFails
    <2>2. /\ reloads' \in Seq(Jobs \cup {"select"})
          /\ \A j \in Jobs : job'[j] \in {job[j], "failed"}
          /\ DOMAIN job' = Jobs
      BY <1>0, <1>5, <2>1, ReloadLeaves DEF ReloadFails
    <2>3. /\ req' \in [Served -> Places]
          /\ \A s \in Served : req'[s] = IF req[s] = "parked" THEN "done" ELSE req[s]
      BY <1>0, <1>5 DEF ReloadFails, ReloadTypeOK, Places
    <2>4. ReloadTypeOK'
      <3>1. job' \in [Jobs -> JobStages]
        BY <1>0, <1>5, <2>2 DEF ReloadFails, CallerGoes, ReloadTypeOK, JobStages
      <3>2. QED
        BY <1>0, <1>5, <2>1, <2>2, <2>3, <3>1 DEF ReloadFails, ReloadTypeOK, Places
    <2>5. /\ Handling' = Handling /\ At({"parked"})' = {}
          /\ At({"away", "parked"})' \subseteq At({"away", "parked"})
      BY <2>3 DEF At, Handling
    <2>6. job'["restore"] \in {job["restore"], "failed"}
      BY <2>2 DEF Jobs
    <2>7. CountedInv' /\ RestoreInv' /\ ReplacedAlone'
      BY <1>0, <2>1, <2>5, <2>6 DEF CountedInv, RestoreInv, ReplacedAlone
    <2>8. QED
      BY <2>4, <2>7 DEF ReloadInv
  <1>6. CASE Opened
    <2>1. ReloadTypeOK'
      BY <1>0, <1>6 DEF Opened, ReloadTypeOK, requests, library
    <2>2. QED
      BY <1>0, <1>6, <2>1 DEF Opened, ReloadInv, CountedInv, RestoreInv,
         ReplacedAlone, Handling, At, requests, library
  <1>7. QED
    BY <1>1, <1>2, <1>3, <1>4, <1>5, <1>6 DEF Reload

(* A job goes on: its requests stay where they are.                        *)
LEMMA JobMoves ==
    ASSUME ReloadTypeOK, NEW j \in Jobs,
           NEW stage \in JobStages,
           JobGoto(j, stage)
    PROVE  /\ job' \in [Jobs -> JobStages]
           /\ job'[j] = stage /\ \A k \in Jobs : k # j => job'[k] = job[k]
  BY DEF ReloadTypeOK, JobGoto

LEMMA JobInv ==
    ASSUME ReloadInv,
           ArchiveStarts \/ RestoreCall \/ EnterFails \/ JobSteps
    PROVE  ReloadInv'
  <1> USE DEF Jobs
  <1>0. ReloadTypeOK /\ CountedInv /\ RestoreInv /\ ReplacedAlone
    BY DEF ReloadInv
  (* A job that does not enter maintenance, or replace, or end.            *)
  <1>1. ASSUME NEW j \in Jobs,
               NEW stage \in {"called", "freezing", "frozen", "reloading", "failed", "done"},
               JobGoto(j, stage),
               UNCHANGED <<req, writes, counted, inflight, cancelled, told, connected, across, phase, opened>>,
               UNCHANGED reloads \/ reloads' = Append(reloads, j),
               freeze' \in Jobs \cup {Nobody}, maintenance' \in BOOLEAN, closed' \in BOOLEAN,
               j = "restore" /\ stage \in {"freezing", "frozen"} => maintenance',
               j # "restore" => maintenance' = maintenance
        PROVE  ReloadInv'
    <2>1. /\ job' \in [Jobs -> JobStages]
          /\ job'[j] = stage /\ \A k \in Jobs : k # j => job'[k] = job[k]
      BY <1>0, <1>1, JobMoves DEF JobStages
    <2>2. reloads' \in Seq(Jobs \cup {"select"}) /\ (reloads # <<>> => reloads' # <<>>)
      <3>1. reloads \in Seq(Jobs \cup {"select"}) /\ j \in Jobs \cup {"select"}
        BY <1>0, <1>1 DEF ReloadTypeOK
      <3>2. CASE UNCHANGED reloads
        BY <3>1, <3>2
      <3>3. CASE reloads' = Append(reloads, j)
        BY <3>1, <3>3
      <3>4. QED
        BY <1>1, <3>2, <3>3
    <2>3. ReloadTypeOK'
      BY <1>0, <1>1, <2>1, <2>2 DEF ReloadTypeOK
    <2>4. CountedInv' /\ RestoreInv' /\ ReplacedAlone'
      BY <1>0, <1>1, <2>1, <2>2 DEF CountedInv, RestoreInv, ReplacedAlone, Handling, At
    <2>5. QED
      BY <2>3, <2>4 DEF ReloadInv
  <1>2. CASE ArchiveStarts \/ RestoreCall \/ EnterFails
    <2>1. PICK j \in Jobs, stage \in {"called", "freezing", "failed"} :
              JobGoto(j, stage) /\ (j = "restore" => stage \in {"called", "failed"})
      BY <1>2 DEF ArchiveStarts, RestoreCall, EnterFails
    <2>2. QED
      BY <1>0, <1>1, <1>2, <2>1 DEF ArchiveStarts, RestoreCall, EnterFails,
         ReloadTypeOK, requests, context, library
  <1>3. CASE RestoreRecords
    BY <1>0, <1>1, <1>3 DEF RestoreRecords, ReloadTypeOK, requests, context
  <1>4. CASE ArchivePublished \/ Replaced
    <2>1. PICK j \in Jobs : JobGoto(j, "reloading") /\ reloads' = Append(reloads, j)
      BY <1>4 DEF ArchivePublished, Replaced
    <2>2. QED
      BY <1>0, <1>1, <1>4, <2>1 DEF ArchivePublished, Replaced, ReloadTypeOK,
         requests, library
  <1>5. ASSUME NEW j \in Jobs, TakeFreeze(j)
        PROVE  ReloadInv'
    <2>1. j = "restore" => maintenance
      BY <1>0, <1>5 DEF TakeFreeze, RestoreInv
    <2>2. QED
      BY <1>0, <1>1, <1>5, <2>1 DEF TakeFreeze, ReloadTypeOK, requests,
         context, library
  <1>6. ASSUME NEW j \in Jobs, JobEnds(j)
        PROVE  ReloadInv'
    <2>1. freeze' = Nobody /\ maintenance' \in BOOLEAN /\ closed' \in BOOLEAN
          /\ (j # "restore" => maintenance' = maintenance)
      BY <1>0, <1>6 DEF JobEnds, ReloadTypeOK, library
    <2>2. QED
      BY <1>1, <1>6, <2>1 DEF JobEnds, requests, context
  <1>7. CASE Enter
    <2>1. /\ job' \in [Jobs -> JobStages]
          /\ job'["restore"] = "entering" /\ job["restore"] = "frozen"
      BY <1>0, <1>7, JobMoves DEF Enter, JobStages
    <2>2. /\ UNCHANGED <<req, writes, counted, inflight, told, connected, reloads, phase, opened, freeze, maintenance>>
          /\ closed' = TRUE /\ across' = At({"parked"})
          /\ cancelled' = cancelled \cup (At({"waiting"}) \cap counted)
      BY <1>7 DEF Enter, context
    <2>3. ReloadTypeOK'
      BY <1>0, <2>1, <2>2 DEF ReloadTypeOK, At
    <2>4. CountedInv' /\ RestoreInv' /\ ReplacedAlone'
      BY <1>0, <2>1, <2>2 DEF CountedInv, RestoreInv, ReplacedAlone, Handling, At
    <2>5. QED
      BY <2>3, <2>4 DEF ReloadInv
  <1>8. CASE MaintenanceDrained
    <2>1. /\ job' \in [Jobs -> JobStages]
          /\ job'["restore"] = "closing" /\ job["restore"] = "entering"
      BY <1>0, <1>8, JobMoves DEF MaintenanceDrained, JobStages
    <2>2. UNCHANGED <<req, writes, counted, inflight, cancelled, told, connected, across, reloads,
                      phase, opened, freeze, maintenance, closed>>
      BY <1>8 DEF MaintenanceDrained, requests, context, library
    <2>3. Handling \cap connected = {}
      BY <1>0, <1>8, NobodyCounted DEF MaintenanceDrained, CountedInv
    <2>4. ReloadTypeOK'
      BY <1>0, <2>1, <2>2 DEF ReloadTypeOK
    <2>5. CountedInv' /\ RestoreInv' /\ ReplacedAlone'
      BY <1>0, <2>1, <2>2, <2>3 DEF CountedInv, RestoreInv, ReplacedAlone, Handling, At
    <2>6. QED
      BY <2>4, <2>5 DEF ReloadInv
  <1>9. CASE Entered
    <2>1. /\ job' \in [Jobs -> JobStages]
          /\ job'["restore"] = "replacing" /\ job["restore"] = "closing"
      BY <1>0, <1>9, JobMoves DEF Entered, JobStages
    <2>2. /\ UNCHANGED <<req, writes, counted, inflight, cancelled, told, connected, across, reloads, phase,
                         freeze, maintenance, closed>>
          /\ opened' = FALSE
      BY <1>9 DEF Entered, requests, library
    <2>3. ReloadTypeOK'
      BY <1>0, <2>1, <2>2 DEF ReloadTypeOK
    <2>4. CountedInv' /\ RestoreInv' /\ ReplacedAlone'
      BY <1>0, <2>1, <2>2 DEF CountedInv, RestoreInv, ReplacedAlone, Handling, At
    <2>5. QED
      BY <2>3, <2>4 DEF ReloadInv
  <1>10. QED
    BY <1>2, <1>3, <1>4, <1>5, <1>6, <1>7, <1>8, <1>9 DEF JobSteps

LEMMA ReloadNextInv ==
    ASSUME ReloadInv, [ReloadNext]_reloadVars
    PROVE  ReloadInv'
  <1>1. CASE UNCHANGED reloadVars
    BY <1>1 DEF reloadVars, requests, context, library, budget,
       ReloadInv, ReloadTypeOK, CountedInv, RestoreInv, ReplacedAlone, Handling, At
  <1>2. CASE ReloadNext
    BY <1>2, RequestInv, ReloadStepInv, JobInv DEF ReloadNext
  <1>3. QED
    BY <1>1, <1>2

LEMMA ReloadInvariance ==
    ReloadSpec => []ReloadInv
  <1>1. ReloadInit => ReloadInv
    BY ReloadInitInv
  <1>2. ReloadInv /\ [ReloadNext]_reloadVars => ReloadInv'
    BY ReloadNextInv
  <1>3. QED
    BY <1>1, <1>2, PTL DEF ReloadSpec

(* While a restore replaces the files of the library, no request is handled*)
(* but those that were at the gate when it began.                          *)
THEOREM FilesReplacedAlone == ReloadSpec => []ReplacedAlone
  <1>1. ReloadInv => ReplacedAlone
    BY DEF ReloadInv
  <1>2. QED
    BY <1>1, ReloadInvariance, PTL

(* A reload closes the database only when nothing handles the request of a *)
(* connected client; a restore when nothing does but what was parked when  *)
(* it began.                                                               *)
THEOREM DatabaseClosedAlone == ReloadSpec => ClosedAlone
  <1>1. ReloadInv /\ [ReloadNext]_reloadVars
            => [opened /\ ~opened' =>
                   Handling \cap connected \subseteq (IF ReloadCloses THEN {} ELSE across)]_reloadVars
    <2> SUFFICES ASSUME ReloadInv, ReloadNext, opened, ~opened'
                 PROVE  Handling \cap connected \subseteq (IF ReloadCloses THEN {} ELSE across)
      OBVIOUS
    <2>1. Drained \/ Entered
      BY DEF ReloadNext, Arrive, WriteBegins, Disconnect, Handler, Woken,
         WriteEnds, Respond, Select, Reload, DrainBegins, Opened,
         Switched, ReloadFails, ArchiveStarts, RestoreCall, EnterFails,
         JobSteps, RestoreRecords, ArchivePublished, Enter, MaintenanceDrained,
         Replaced, TakeFreeze, JobEnds, context
    <2>2. CASE Drained
      BY <2>2, NobodyCounted DEF Drained, ReloadInv, CountedInv
    <2>3. CASE Entered
      <3>1. Handling \cap connected \subseteq across /\ ~ReloadCloses
        BY <2>3 DEF Entered, ReloadInv, RestoreInv, ReloadCloses
      <3>2. QED
        BY <3>1
    <2>4. QED
      BY <2>1, <2>2, <2>3
  <1>2. QED
    BY <1>1, ReloadInvariance, PTL DEF ReloadSpec, ClosedAlone

(* Every reachable state of a context reload has its type; the count of    *)
(* requests in flight is that of the counted ones.                         *)
THEOREM ReloadTypeCorrect == ReloadSpec => []ReloadTypeOK
  <1>1. ReloadInv => ReloadTypeOK
    BY DEF ReloadInv
  <1>2. QED
    BY <1>1, ReloadInvariance, PTL

=============================================================================
