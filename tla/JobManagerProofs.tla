------------------------- MODULE JobManagerProofs -------------------------
(***************************************************************************)
(* Proofs about the job manager, for any set of jobs and any bounds: the   *)
(* type invariant, and that records tell the state of their jobs.          *)
(*                                                                         *)
(* The argument is about the chain of writes of one record: its last write *)
(* carries the state of the job, and start and execute have at most one    *)
(* write of their own in it, the one their stage waits for.                *)
(***************************************************************************)
EXTENDS JobManager, SequenceTheorems, TLAPS

(* The writes of a chain that belong to start or execute, by the stage     *)
(* that waits for them.                                                    *)
OwnWrites(at) == IF at \in {"accepting", "recording", "finishing"} THEN 1 ELSE 0
StageOf(waiter) ==
    CASE waiter = "start" -> "accepting"
      [] waiter = "running" -> "recording"
      [] waiter = "final" -> "finishing"
      [] OTHER -> "none"

(* The chain s of a job that is at a stage and in a state, after n calls   *)
(* of cancel.                                                              *)
Chain(s, at, st, n) ==
    /\ at = "unused" => s = <<>>
    /\ at = "accepting" => Len(s) = 1 /\ s[1].waiter = "start"
    /\ s # <<>> /\ at # "accepting" => s[Len(s)].content = st
    /\ \A k \in 1..Len(s) : s[k].waiter # "cancel" => StageOf(s[k].waiter) = at
    /\ \A k, l \in 1..Len(s) :
        k # l => s[k].waiter = "cancel" \/ s[l].waiter = "cancel"
    /\ Len(s) <= n + OwnWrites(at)

ChainsInv == \A j \in Jobs : Chain(writes[j], stage[j], state[j], cancels)

IInv == TypeOK /\ ChainsInv /\ RecordIsTrue

-----------------------------------------------------------------------------
(* Two steps on a chain: a write joins it, and its first write leaves it.  *)
LEMMA Joins ==
    ASSUME NEW s \in Seq(Write), NEW w \in Write
    PROVE  /\ Append(s, w) \in Seq(Write) /\ Append(s, w) # <<>>
           /\ Len(s) \in Nat /\ Len(Append(s, w)) = Len(s) + 1
           /\ Append(s, w)[Len(s) + 1] = w
           /\ \A k \in 1..Len(s) : Append(s, w)[k] = s[k]
  BY AppendProperties, LenProperties

LEMMA Leaves ==
    ASSUME NEW s \in Seq(Write), s # <<>>
    PROVE  /\ Tail(s) \in Seq(Write)
           /\ Len(s) \in Nat \ {0} /\ Len(Tail(s)) = Len(s) - 1
           /\ Head(s) = s[1] /\ Head(s) \in Write
           /\ \A k \in 1..Len(s) - 1 : Tail(s)[k] = s[k + 1]
           /\ Len(s) = 1 => Tail(s) = <<>>
  BY HeadTailProperties, EmptySeq, LenProperties, ElementOfSeq

(* The chain of a job that is left alone survives the calls of others.     *)
LEMMA ChainAlone ==
    ASSUME NEW s \in Seq(Write), NEW at, NEW st, NEW n \in Nat, NEW m \in Nat,
           n <= m, Chain(s, at, st, n)
    PROVE  Chain(s, at, st, m)
  <1>1. Len(s) \in Nat /\ OwnWrites(at) \in Nat
    BY LenProperties DEF OwnWrites
  <1>2. QED
    BY <1>1 DEF Chain

(* The empty chain of a job that is not used yet, or no longer.            *)
LEMMA EmptyChain ==
    ASSUME NEW at \in {"unused", "over"}, NEW st, NEW n \in Nat
    PROVE  Chain(<<>>, at, st, n)
  <1>1. Len(<<>>) = 0
    BY EmptySeq
  <1>2. OwnWrites(at) = 0
    BY DEF OwnWrites
  <1>3. 1..Len(<<>>) = {}
    BY <1>1
  <1>4. at # "accepting"
    OBVIOUS
  <1>5. Len(<<>>) <= n + OwnWrites(at)
    BY <1>1, <1>2
  <1>6. QED
    BY <1>3, <1>4, <1>5, Zenon DEF Chain

(* start: the first write of a chain.                                      *)
LEMMA ChainStarts ==
    ASSUME NEW w \in Write, w.waiter = "start", NEW st, NEW n \in Nat
    PROVE  Chain(Append(<<>>, w), "accepting", st, n)
  <1>1. <<>> \in Seq(Write) /\ Len(<<>>) = 0
    BY EmptySeq
  <1>2. Len(Append(<<>>, w)) = 1 /\ Append(<<>>, w)[1] = w
    BY <1>1, Joins
  <1>3. QED
    BY <1>2 DEF Chain, StageOf, OwnWrites

(* execute: the handler has ended and the last write joins.                *)
LEMMA ChainFinishes ==
    ASSUME NEW s \in Seq(Write), NEW st, NEW n \in Nat, NEW w \in Write,
           Chain(s, "handling", st, n), w.waiter = "final"
    PROVE  Chain(Append(s, w), "finishing", w.content, n)
  <1>1. \A k \in 1..Len(s) : s[k].waiter = "cancel"
    <2>1. \A k \in 1..Len(s) : s[k] \in Write
      BY ElementOfSeq
    <2>2. QED
      BY <2>1 DEF Chain, StageOf, Write, Waiters
  <1>2. Len(s) <= n
    BY LenProperties DEF Chain, OwnWrites
  <1>3. QED
    BY <1>1, <1>2, Joins DEF Chain, StageOf, OwnWrites

(* cancel: its write joins, at any stage of an active job.                 *)
LEMMA ChainCancelled ==
    ASSUME NEW s \in Seq(Write), NEW at, NEW st, NEW n \in Nat, NEW w \in Write,
           Chain(s, at, st, n), w.waiter = "cancel",
           at \in {"recording", "handling", "finishing"}
    PROVE  Chain(Append(s, w), at, w.content, n + 1)
  <1>1. Len(s) \in Nat /\ OwnWrites(at) \in Nat
    BY LenProperties DEF OwnWrites
  <1>2. Len(s) <= n + OwnWrites(at)
    BY DEF Chain
  <1>3. \A k \in 1..Len(s) + 1 : k \in 1..Len(s) \/ k = Len(s) + 1
    BY <1>1
  <1>4. QED
    BY <1>1, <1>2, <1>3, Joins DEF Chain

(* The first write of a chain ends: the job moves on when it was its own.  *)
LEMMA ChainAdvances ==
    ASSUME NEW s \in Seq(Write), s # <<>>, NEW at, NEW to, NEW st, NEW n \in Nat,
           Chain(s, at, st, n), at # "accepting",
           \/ s[1].waiter = "cancel" /\ to = at
           \/ s[1].waiter = "running" /\ to = "handling"
           \/ s[1].waiter = "final" /\ to = "over"
    PROVE  Chain(Tail(s), to, st, n)
  <1> DEFINE t == Tail(s)
  <1>1. /\ t \in Seq(Write) /\ Len(s) \in Nat \ {0} /\ Len(t) = Len(s) - 1
        /\ \A k \in 1..Len(t) : t[k] = s[k + 1] /\ k + 1 \in 1..Len(s)
        /\ Len(s) = 1 => t = <<>>
    BY Leaves
  <1>2. 1 \in 1..Len(s) /\ (t # <<>> => Len(t) \in 1..Len(t))
    BY <1>1
  <1>3. \A k \in 1..Len(t) : s[1].waiter # "cancel" => t[k].waiter = "cancel"
    BY <1>1, <1>2 DEF Chain
  <1>4. s[1].waiter # "cancel" => at = StageOf(s[1].waiter)
    BY <1>2 DEF Chain
  <1>5. Len(t) <= n + OwnWrites(to)
    <2>1. Len(s) <= n + OwnWrites(at)
      BY DEF Chain
    <2>2. OwnWrites(at) \in Nat /\ OwnWrites(to) \in Nat
          /\ OwnWrites(at) <= OwnWrites(to) + 1
      BY DEF OwnWrites
    <2>3. QED
      BY <2>1, <2>2, <1>1
  <1>6. to # "accepting" /\ to # "unused"
    BY <1>2 DEF Chain
  <1>7. t # <<>> => t[Len(t)].content = st
    <2>1. t # <<>> => Len(t) \in 1..Len(t) /\ t[Len(t)] = s[Len(s)]
      BY <1>1, <1>2
    <2>2. QED
      BY <2>1 DEF Chain
  <1>8. \A k \in 1..Len(t) : t[k].waiter # "cancel" => StageOf(t[k].waiter) = to
    BY <1>1, <1>3 DEF Chain
  <1>9. \A k, l \in 1..Len(t) :
          k # l => t[k].waiter = "cancel" \/ t[l].waiter = "cancel"
    <2> SUFFICES ASSUME NEW k \in 1..Len(t), NEW l \in 1..Len(t), k # l
                 PROVE  t[k].waiter = "cancel" \/ t[l].waiter = "cancel"
      OBVIOUS
    <2>1. /\ t[k] = s[k + 1] /\ k + 1 \in 1..Len(s)
          /\ t[l] = s[l + 1] /\ l + 1 \in 1..Len(s) /\ k + 1 # l + 1
      BY <1>1
    <2>2. QED
      BY <2>1 DEF Chain
  <1>10. QED
    BY <1>5, <1>6, <1>7, <1>8, <1>9 DEF Chain

-----------------------------------------------------------------------------
(* What TypeOK says of one job.                                            *)
LEMMA JobTypes ==
    ASSUME TypeOK, NEW j \in Jobs
    PROVE  /\ state[j] \in Busy \cup Settled \cup {None}
           /\ record[j] \in Busy \cup Settled \cup {None}
           /\ writes[j] \in Seq(Write) /\ Len(writes[j]) \in Nat
           /\ stage[j] \in Stages
           /\ cancels \in Nat
  <1>1. writes[j] \in Seq(Write) /\ Len(writes[j]) \in Nat
    BY LenProperties DEF TypeOK
  <1>2. QED
    BY <1>1, BoundsAssumption DEF TypeOK

(* The bound on the length of a chain, from its invariant.                 *)
LEMMA ChainsBounded ==
    ASSUME NEW s \in Seq(Write), NEW at, NEW st, NEW n \in 0..MaxCancels,
           Chain(s, at, st, n)
    PROVE  Len(s) <= 1 + MaxCancels
  <1>1. Len(s) \in Nat /\ OwnWrites(at) \in {0, 1}
    BY LenProperties DEF OwnWrites
  <1>2. QED
    BY <1>1, BoundsAssumption DEF Chain

LEMMA InitIInv == Init => IInv
  <1> SUFFICES ASSUME Init PROVE IInv
    OBVIOUS
  <1>1. <<>> \in Seq(Write) /\ Len(<<>>) = 0
    BY EmptySeq
  <1>2. TypeOK
    BY <1>1, BoundsAssumption DEF Init, TypeOK, Stages
  <1>3. ChainsInv
    BY EmptyChain DEF Init, ChainsInv
  <1>4. RecordIsTrue
    BY DEF Init, RecordIsTrue
  <1>5. QED
    BY <1>2, <1>3, <1>4 DEF IInv

(* What a step that touches the chain, the stage and the state of one job  *)
(* leaves of the invariant, and what is then left to show for that job.    *)
LEMMA OneJobMoves ==
    ASSUME TypeOK, ChainsInv, NEW j \in Jobs,
           NEW s \in Seq(Write), NEW at \in Stages, NEW st \in Busy \cup Settled,
           writes' = [writes EXCEPT ![j] = s],
           stage' = [stage EXCEPT ![j] = at],
           \/ state' = [state EXCEPT ![j] = st]
           \/ UNCHANGED state /\ state[j] = st
           \/ UNCHANGED state /\ at = "accepting",
           cancels' \in 0..MaxCancels, cancels <= cancels',
           Chain(s, at, st, cancels')
    PROVE  /\ writes' \in [Jobs -> Seq(Write)]
           /\ \A q \in Jobs : Len(writes'[q]) <= 1 + MaxCancels
           /\ stage' \in [Jobs -> Stages]
           /\ state' \in [Jobs -> Busy \cup Settled \cup {None}]
           /\ ChainsInv'
  <1>1. /\ writes' \in [Jobs -> Seq(Write)]
        /\ stage' \in [Jobs -> Stages]
        /\ state' \in [Jobs -> Busy \cup Settled \cup {None}]
    BY DEF TypeOK
  <1>2. cancels \in Nat /\ cancels' \in Nat
    BY JobTypes, BoundsAssumption
  <1>3. \A q \in Jobs : Chain(writes'[q], stage'[q], state'[q], cancels')
    <2> SUFFICES ASSUME NEW q \in Jobs
                 PROVE  Chain(writes'[q], stage'[q], state'[q], cancels')
      OBVIOUS
    <2>1. CASE q = j
      <3>1. writes'[q] = s /\ stage'[q] = at
        BY <2>1 DEF TypeOK
      <3>2. state'[q] = st \/ at = "accepting"
        BY <2>1 DEF TypeOK
      <3>3. Chain(s, at, state'[q], cancels')
        BY <3>2 DEF Chain
      <3>4. QED
        BY <3>1, <3>3
    <2>2. CASE q # j
      <3>1. writes'[q] = writes[q] /\ stage'[q] = stage[q] /\ state'[q] = state[q]
        BY <2>2 DEF TypeOK
      <3>2. Chain(writes[q], stage[q], state[q], cancels) /\ writes[q] \in Seq(Write)
        BY DEF ChainsInv, TypeOK
      <3>3. Chain(writes[q], stage[q], state[q], cancels')
        BY <1>2, <3>2, ChainAlone
      <3>4. QED
        BY <3>1, <3>3
    <2>3. QED
      BY <2>1, <2>2
  <1>4. \A q \in Jobs : Len(writes'[q]) <= 1 + MaxCancels
    BY <1>1, <1>3, ChainsBounded
  <1>5. QED
    BY <1>1, <1>3, <1>4 DEF ChainsInv

(* A write that joins a chain keeps the records true: nothing is said of a *)
(* record with a write pending.                                            *)
LEMMA JoiningKeepsRecords ==
    ASSUME TypeOK, RecordIsTrue, NEW j \in Jobs, NEW w \in Write,
           writes' = [writes EXCEPT ![j] = Append(@, w)],
           \A q \in Jobs : q # j => state'[q] = state[q],
           UNCHANGED <<record, lastOk>>
    PROVE  RecordIsTrue'
  <1>1. writes'[j] # <<>>
    BY Joins DEF TypeOK
  <1>2. \A q \in Jobs : q # j => writes'[q] = writes[q]
    BY DEF TypeOK
  <1>3. QED
    BY <1>1, <1>2 DEF RecordIsTrue

LEMMA StartKeepsIInv ==
    ASSUME IInv, NEW j \in Jobs, Start(j)
    PROVE  IInv'
  <1> DEFINE w == [content |-> "queued", waiter |-> "start"]
  <1>1. TypeOK /\ ChainsInv /\ RecordIsTrue
    BY DEF IInv
  <1>2. w \in Write /\ w.content \in Busy \cup Settled /\ "accepting" \in Stages
    BY DEF Write, Busy, Waiters, Stages
  <1>3. /\ stage[j] = "unused"
        /\ stage' = [stage EXCEPT ![j] = "accepting"]
        /\ writes' = [writes EXCEPT ![j] = Append(@, w)]
        /\ UNCHANGED <<state, record, lastOk, aborted, closing, awaited,
                       drain, failures, cancels, restarts>>
    BY DEF Start, Persist, close, budget
  <1>4. cancels \in 0..MaxCancels /\ cancels \in Nat /\ <<>> \in Seq(Write)
    BY <1>1, JobTypes, EmptySeq DEF TypeOK
  <1>5. writes[j] = <<>>
    BY <1>1, <1>3 DEF ChainsInv, Chain
  <1>6. /\ Chain(Append(<<>>, w), "accepting", w.content, cancels)
        /\ Append(<<>>, w) \in Seq(Write)
    BY <1>2, <1>4, ChainStarts, Joins
  <1>7. writes' = [writes EXCEPT ![j] = Append(<<>>, w)]
    BY <1>3, <1>5
  <1>8. /\ writes' \in [Jobs -> Seq(Write)]
        /\ \A q \in Jobs : Len(writes'[q]) <= 1 + MaxCancels
        /\ stage' \in [Jobs -> Stages]
        /\ state' \in [Jobs -> Busy \cup Settled \cup {None}]
        /\ ChainsInv'
    <2>1. cancels' \in 0..MaxCancels /\ cancels <= cancels'
      BY <1>3, <1>4
    <2> HIDE DEF w
    <2>2. QED
      BY <1>1, <1>2, <1>3, <1>6, <1>7, <2>1, OneJobMoves
  <1>9. TypeOK'
    BY <1>1, <1>3, <1>8 DEF TypeOK
  <1>10. RecordIsTrue'
    <2> HIDE DEF w
    <2>1. QED
      BY <1>1, <1>2, <1>3, JoiningKeepsRecords
  <1>11. QED
    BY <1>8, <1>9, <1>10 DEF IInv

LEMMA HandlerEndsKeepsIInv ==
    ASSUME IInv, NEW j \in Jobs, NEW result \in Results, HandlerEnds(j, result)
    PROVE  IInv'
  <1> DEFINE w == [content |-> result, waiter |-> "final"]
  <1>1. TypeOK /\ ChainsInv /\ RecordIsTrue
    BY DEF IInv
  <1>2. w \in Write /\ w.content = result /\ result \in Settled /\ "finishing" \in Stages
    BY DEF Write, Settled, Results, Waiters, Stages
  <1>3. /\ stage[j] = "handling"
        /\ stage' = [stage EXCEPT ![j] = "finishing"]
        /\ state' = [state EXCEPT ![j] = result]
        /\ writes' = [writes EXCEPT ![j] = Append(@, w)]
        /\ UNCHANGED <<record, lastOk, aborted, closing, awaited,
                       drain, failures, cancels, restarts>>
    BY DEF HandlerEnds, Persist, close, budget
  <1>4. /\ cancels \in 0..MaxCancels /\ cancels \in Nat
        /\ cancels' \in 0..MaxCancels /\ cancels <= cancels'
        /\ writes[j] \in Seq(Write)
    BY <1>1, <1>3, JobTypes DEF TypeOK
  <1>5. /\ Append(writes[j], w) \in Seq(Write)
        /\ Chain(Append(writes[j], w), "finishing", w.content, cancels')
    <2>1. Chain(writes[j], "handling", state[j], cancels)
      BY <1>1, <1>3 DEF ChainsInv
    <2>2. w.waiter = "final" /\ cancels' = cancels
      BY <1>3
    <2> HIDE DEF w
    <2>3. QED
      BY <1>2, <1>4, <2>1, <2>2, ChainFinishes, Joins
  <1>6. /\ writes' \in [Jobs -> Seq(Write)]
        /\ \A q \in Jobs : Len(writes'[q]) <= 1 + MaxCancels
        /\ stage' \in [Jobs -> Stages]
        /\ state' \in [Jobs -> Busy \cup Settled \cup {None}]
        /\ ChainsInv'
    <2> HIDE DEF w
    <2>1. QED
      BY <1>1, <1>2, <1>3, <1>4, <1>5, OneJobMoves
  <1>7. TypeOK'
    BY <1>1, <1>3, <1>6 DEF TypeOK
  <1>8. RecordIsTrue'
    <2> HIDE DEF w
    <2>1. \A q \in Jobs : q # j => state'[q] = state[q]
      BY <1>1, <1>3 DEF TypeOK
    <2>2. QED
      BY <1>1, <1>2, <1>3, <2>1, JoiningKeepsRecords
  <1>9. QED
    BY <1>6, <1>7, <1>8 DEF IInv

LEMMA CancelKeepsIInv ==
    ASSUME IInv, NEW j \in Jobs, Cancel(j)
    PROVE  IInv'
  <1> DEFINE w == [content |-> "cancelling", waiter |-> "cancel"]
  <1>1. TypeOK /\ ChainsInv /\ RecordIsTrue
    BY DEF IInv
  <1>2. w \in Write /\ w.content = "cancelling" /\ "cancelling" \in Busy
    BY DEF Write, Busy, Waiters
  <1>3. /\ stage[j] \in {"recording", "handling", "finishing"} /\ cancels < MaxCancels
        /\ state' = [state EXCEPT ![j] = "cancelling"]
        /\ writes' = [writes EXCEPT ![j] = Append(@, w)]
        /\ cancels' = cancels + 1
        /\ UNCHANGED <<record, lastOk, stage, aborted, closing,
                       awaited, drain, failures, restarts>>
    BY DEF Cancel, Active, Persist, close
  <1>4. /\ cancels \in Nat /\ writes[j] \in Seq(Write) /\ stage[j] \in Stages
        /\ cancels' \in 0..MaxCancels /\ cancels <= cancels'
        /\ stage' = [stage EXCEPT ![j] = stage[j]]
    BY <1>1, <1>3, JobTypes, BoundsAssumption DEF TypeOK
  <1>5. /\ Append(writes[j], w) \in Seq(Write)
        /\ Chain(Append(writes[j], w), stage[j], w.content, cancels')
    <2>1. Chain(writes[j], stage[j], state[j], cancels)
      BY <1>1 DEF ChainsInv
    <2>2. w.waiter = "cancel" /\ cancels' = cancels + 1
      BY <1>3
    <2> HIDE DEF w
    <2>3. QED
      BY <1>2, <1>3, <1>4, <2>1, <2>2, ChainCancelled, Joins
  <1>6. /\ writes' \in [Jobs -> Seq(Write)]
        /\ \A q \in Jobs : Len(writes'[q]) <= 1 + MaxCancels
        /\ stage' \in [Jobs -> Stages]
        /\ state' \in [Jobs -> Busy \cup Settled \cup {None}]
        /\ ChainsInv'
    <2> HIDE DEF w
    <2>1. /\ Append(writes[j], w) \in Seq(Write) /\ stage[j] \in Stages
          /\ writes' = [writes EXCEPT ![j] = Append(writes[j], w)]
          /\ stage' = [stage EXCEPT ![j] = stage[j]]
          /\ state' = [state EXCEPT ![j] = "cancelling"]
          /\ cancels' \in 0..MaxCancels /\ cancels <= cancels'
          /\ Chain(Append(writes[j], w), stage[j], "cancelling", cancels')
      BY <1>2, <1>3, <1>4, <1>5
    <2>2. QED
      BY <1>1, <1>2, <2>1, OneJobMoves
  <1>7. TypeOK'
    BY <1>1, <1>3, <1>4, <1>6 DEF TypeOK
  <1>8. RecordIsTrue'
    <2> HIDE DEF w
    <2>1. \A q \in Jobs : q # j => state'[q] = state[q]
      BY <1>1, <1>3 DEF TypeOK
    <2>2. QED
      BY <1>1, <1>2, <1>3, <2>1, JoiningKeepsRecords
  <1>9. QED
    BY <1>6, <1>7, <1>8 DEF IInv

(* execute follows start: the first record has been written, or not, and   *)
(* the second write joins an empty chain.                                  *)
LEMMA ChainFollows ==
    ASSUME NEW w \in Write, w.waiter = "running", NEW n \in Nat
    PROVE  Chain(Append(<<>>, w), "recording", w.content, n)
  <1>1. <<>> \in Seq(Write) /\ Len(<<>>) = 0
    BY EmptySeq
  <1>2. Len(Append(<<>>, w)) = 1 /\ Append(<<>>, w)[1] = w
    BY <1>1, Joins
  <1>3. QED
    BY <1>2 DEF Chain, StageOf, OwnWrites

(* What the end of a write does to the variables that no chain speaks of.  *)
LEMMA WriteEndsTypes ==
    ASSUME TypeOK, NEW j \in Jobs, NEW ok \in BOOLEAN, WriteEnds(j, ok)
    PROVE  /\ record' \in [Jobs -> Busy \cup Settled \cup {None}]
           /\ lastOk' \in [Jobs -> BOOLEAN] /\ aborted' \in [Jobs -> BOOLEAN]
           /\ closing' \in {"open", "waiting", "draining", "closed", "thrown"}
           /\ awaited' \subseteq Jobs /\ drain' \in [Jobs -> 0..1 + MaxCancels]
           /\ failures' \in 0..MaxFailures /\ cancels' \in 0..MaxCancels
           /\ restarts' \in 0..MaxRestarts
  <1>1. record' \in [Jobs -> Busy \cup Settled \cup {None}]
    <2>1. Head(writes[j]).content \in Busy \cup Settled
      BY Leaves DEF WriteEnds, TypeOK, Write
    <2>2. QED
      BY <2>1 DEF WriteEnds, TypeOK
  <1>2. lastOk' \in [Jobs -> BOOLEAN]
    BY DEF WriteEnds, TypeOK
  <1>3. aborted' \in [Jobs -> BOOLEAN]
    <2>1. aborted \in [Jobs -> BOOLEAN]
      BY DEF TypeOK
    <2>2. aborted' = [aborted EXCEPT ![j] = @ \/ (Head(writes[j]).waiter = "cancel" /\ ok)]
      BY DEF WriteEnds, AbortedAfter
    <2>3. QED
      BY <2>1, <2>2
  <1>4. /\ closing' \in {"open", "waiting", "draining", "closed", "thrown"}
        /\ awaited' \subseteq Jobs /\ drain' \in [Jobs -> 0..1 + MaxCancels]
    BY BoundsAssumption DEF WriteEnds, DrainAfter, TypeOK
  <1>5. /\ failures' \in 0..MaxFailures /\ cancels' \in 0..MaxCancels
        /\ restarts' \in 0..MaxRestarts
    BY BoundsAssumption DEF WriteEnds, TypeOK
  <1>6. QED
    BY <1>1, <1>2, <1>3, <1>4, <1>5

LEMMA WriteEndsKeepsIInv ==
    ASSUME IInv, NEW j \in Jobs, NEW ok \in BOOLEAN, WriteEnds(j, ok)
    PROVE  IInv'
  <1> DEFINE s == writes[j]
             waiter == Head(s).waiter
             r == [content |-> "running", waiter |-> "running"]
             to == StageAfter(j, waiter, ok)
  <1>1. TypeOK /\ ChainsInv /\ RecordIsTrue
    BY DEF IInv
  <1>2. /\ s # <<>>
        /\ record' = IF ok THEN [record EXCEPT ![j] = Head(s).content] ELSE record
        /\ lastOk' = [lastOk EXCEPT ![j] = ok]
        /\ state' = [state EXCEPT ![j] = StateAfter(j, waiter)]
        /\ stage' = [stage EXCEPT ![j] = to]
        /\ writes' = [writes EXCEPT ![j] =
              IF waiter = "start" THEN Append(Tail(s), r) ELSE Tail(s)]
        /\ cancels' = cancels
    BY <1>1 DEF WriteEnds, TypeOK
  <1>3. /\ cancels \in 0..MaxCancels /\ cancels \in Nat
        /\ cancels' \in 0..MaxCancels /\ cancels <= cancels'
    BY <1>1, <1>2, JobTypes DEF TypeOK
  <1>4. /\ s \in Seq(Write) /\ Tail(s) \in Seq(Write)
        /\ Len(s) \in Nat \ {0} /\ Len(Tail(s)) = Len(s) - 1
        /\ Head(s) = s[1] /\ Head(s) \in Write
        /\ \A k \in 1..Len(s) : s[k] \in Write
        /\ Len(s) = 1 => Tail(s) = <<>>
    BY <1>1, <1>2, Leaves, ElementOfSeq DEF TypeOK
  <1>5. Chain(s, stage[j], state[j], cancels)
    BY <1>1 DEF ChainsInv
  <1>6. stage[j] \in Stages /\ waiter \in Waiters
    BY <1>1, <1>4 DEF TypeOK, Write
  <1>7. CASE waiter = "start"
    <2>1. stage[j] = "accepting"
      BY <1>4, <1>5, <1>7 DEF Chain, StageOf
    <2>2. Tail(s) = <<>>
      BY <1>4, <1>5, <2>1 DEF Chain
    <2>3. /\ r \in Write /\ r.content = "running" /\ r.content \in Busy
          /\ "recording" \in Stages /\ r.waiter = "running"
      BY DEF Write, Busy, Waiters, Stages
    <2>4. /\ to = "recording" /\ StateAfter(j, waiter) = "running"
          /\ writes' = [writes EXCEPT ![j] = Append(<<>>, r)]
      BY <1>2, <1>7, <2>2 DEF StageAfter, StateAfter
    <2>5. /\ Chain(Append(<<>>, r), "recording", r.content, cancels')
          /\ Append(<<>>, r) \in Seq(Write) /\ Append(<<>>, r) # <<>>
      BY <1>2, <1>3, <2>3, ChainFollows, Joins, EmptySeq
    <2>6. /\ writes' \in [Jobs -> Seq(Write)]
          /\ \A q \in Jobs : Len(writes'[q]) <= 1 + MaxCancels
          /\ stage' \in [Jobs -> Stages]
          /\ state' \in [Jobs -> Busy \cup Settled \cup {None}]
          /\ ChainsInv'
      <3>1. state' = [state EXCEPT ![j] = r.content] /\ stage' = [stage EXCEPT ![j] = "recording"]
        BY <1>2, <2>3, <2>4
      <3> HIDE DEF r, s, to, waiter
      <3>2. QED
        BY <1>1, <1>3, <2>3, <2>4, <2>5, <3>1, OneJobMoves
    <2>7. TypeOK'
      BY <1>1, <2>6, WriteEndsTypes DEF TypeOK
    <2>8. RecordIsTrue'
      <3>1. writes'[j] # <<>>
        BY <1>1, <2>4, <2>5 DEF TypeOK
      <3>2. \A q \in Jobs : q # j =>
              /\ writes'[q] = writes[q] /\ lastOk'[q] = lastOk[q]
              /\ record'[q] = record[q] /\ state'[q] = state[q]
        BY <1>1, <1>2 DEF TypeOK
      <3>3. QED
        BY <1>1, <3>1, <3>2 DEF RecordIsTrue
    <2>9. QED
      BY <2>6, <2>7, <2>8 DEF IInv
  <1>8. CASE waiter # "start"
    <2>1. stage[j] # "accepting"
      BY <1>4, <1>5, <1>8 DEF Chain
    <2>2. state[j] = s[Len(s)].content /\ state[j] \in Busy \cup Settled
      BY <1>2, <1>4, <1>5, <2>1 DEF Chain, Write
    <2>3. /\ \/ s[1].waiter = "cancel" /\ to = stage[j]
             \/ s[1].waiter = "running" /\ to = "handling"
             \/ s[1].waiter = "final" /\ to = "over"
          /\ to \in Stages
      <3>1. CASE waiter = "cancel"
        BY <1>4, <1>6, <3>1 DEF StageAfter
      <3>2. CASE waiter = "running"
        BY <1>4, <3>2 DEF StageAfter, Stages
      <3>3. CASE waiter = "final"
        BY <1>4, <3>3 DEF StageAfter, Stages
      <3>4. QED
        BY <1>6, <1>8, <3>1, <3>2, <3>3 DEF Waiters
    <2>4. /\ writes' = [writes EXCEPT ![j] = Tail(s)]
          /\ UNCHANGED state
      BY <1>1, <1>2, <1>8 DEF StateAfter, TypeOK
    <2>5. Chain(Tail(s), to, state[j], cancels')
      <3> HIDE DEF s, to, waiter
      <3>1. QED
        BY <1>2, <1>3, <1>4, <1>5, <2>1, <2>3, ChainAdvances
    <2>6. /\ writes' \in [Jobs -> Seq(Write)]
          /\ \A q \in Jobs : Len(writes'[q]) <= 1 + MaxCancels
          /\ stage' \in [Jobs -> Stages]
          /\ state' \in [Jobs -> Busy \cup Settled \cup {None}]
          /\ ChainsInv'
      <3> HIDE DEF s, to, waiter
      <3>1. QED
        BY <1>1, <1>2, <1>3, <1>4, <2>2, <2>3, <2>4, <2>5, OneJobMoves
    <2>7. TypeOK'
      BY <1>1, <2>6, WriteEndsTypes DEF TypeOK
    <2>8. RecordIsTrue'
      <3>1. writes'[j] = <<>> /\ lastOk'[j] => record'[j] = state'[j]
        <4> SUFFICES ASSUME writes'[j] = <<>>, lastOk'[j]
                     PROVE  record'[j] = state'[j]
          OBVIOUS
        <4>1. Tail(s) = <<>> /\ ok
          BY <1>1, <1>2, <2>4 DEF TypeOK
        <4>2. Len(s) = 1
          <5>1. Len(Tail(s)) = 0
            BY <4>1, EmptySeq
          <5>2. QED
            BY <1>4, <5>1
        <4>3. record'[j] = s[1].content
          BY <1>1, <1>2, <1>4, <4>1 DEF TypeOK
        <4>4. QED
          BY <2>2, <2>4, <4>2, <4>3
      <3>2. \A q \in Jobs : q # j =>
              /\ writes'[q] = writes[q] /\ lastOk'[q] = lastOk[q]
              /\ record'[q] = record[q] /\ state'[q] = state[q]
        BY <1>1, <1>2, <2>4 DEF TypeOK
      <3>3. QED
        BY <1>1, <3>1, <3>2 DEF RecordIsTrue
    <2>9. QED
      BY <2>6, <2>7, <2>8 DEF IInv
  <1>9. QED
    BY <1>7, <1>8

-----------------------------------------------------------------------------
(* The steps of close touch no chain.                                      *)
LEMMA CloseStepsKeepIInv ==
    ASSUME IInv, Close \/ JobsDone \/ CloseEnds
    PROVE  IInv'
  <1>1. TypeOK /\ ChainsInv /\ RecordIsTrue
    BY DEF IInv
  <1>2. /\ UNCHANGED <<state, record, writes, lastOk, stage>>
        /\ UNCHANGED <<failures, cancels, restarts>>
    BY DEF Close, JobsDone, CloseEnds, job, budget
  <1>3. ChainsInv' /\ RecordIsTrue'
    BY <1>1, <1>2 DEF ChainsInv, RecordIsTrue
  <1>4. TypeOK'
    <2>1. aborted' \in [Jobs -> BOOLEAN]
      <3>1. aborted \in [Jobs -> BOOLEAN]
        BY <1>1 DEF TypeOK
      <3>2. CASE Close
        BY <3>1, <3>2 DEF Close
      <3>3. CASE JobsDone \/ CloseEnds
        BY <3>1, <3>3 DEF JobsDone, CloseEnds, job
      <3>4. QED
        BY <3>2, <3>3
    <2>2. /\ closing' \in {"open", "waiting", "draining", "closed", "thrown"}
          /\ awaited' \subseteq Jobs
      BY <1>1 DEF Close, JobsDone, CloseEnds, TypeOK
    <2>3. drain' \in [Jobs -> 0..1 + MaxCancels]
      <3>1. \A q \in Jobs : Len(writes[q]) \in 0..1 + MaxCancels
        BY <1>1, JobTypes, BoundsAssumption DEF TypeOK
      <3>2. QED
        BY <1>1, <3>1 DEF Close, JobsDone, CloseEnds, TypeOK
    <2>4. QED
      BY <1>1, <1>2, <2>1, <2>2, <2>3 DEF TypeOK
  <1>5. QED
    BY <1>3, <1>4 DEF IInv

(* A restart empties the chains and takes the states from the records.     *)
LEMMA RestartKeepsIInv ==
    ASSUME IInv, Restart
    PROVE  IInv'
  <1>1. TypeOK /\ <<>> \in Seq(Write) /\ Len(<<>>) = 0
    BY EmptySeq DEF IInv
  <1>2. \A q \in Jobs : Loaded(q) \in Busy \cup Settled \cup {None}
    BY <1>1 DEF Loaded, Settled, TypeOK
  <1>3. TypeOK'
    <2>1. /\ state' \in [Jobs -> Busy \cup Settled \cup {None}]
          /\ record' \in [Jobs -> Busy \cup Settled \cup {None}]
          /\ stage' \in [Jobs -> Stages]
      BY <1>2 DEF Restart, Stages
    <2>2. writes' \in [Jobs -> Seq(Write)] /\ \A q \in Jobs : Len(writes'[q]) <= 1 + MaxCancels
      BY <1>1, BoundsAssumption DEF Restart
    <2>3. QED
      BY <1>1, <2>1, <2>2, BoundsAssumption DEF Restart, TypeOK
  <1>4. ChainsInv'
    <2>1. cancels' \in Nat
      BY <1>3, BoundsAssumption DEF TypeOK
    <2>2. \A q \in Jobs : Chain(<<>>, stage'[q], state'[q], cancels')
      BY <2>1, EmptyChain DEF Restart
    <2>3. \A q \in Jobs : writes'[q] = <<>>
      BY DEF Restart
    <2>4. QED
      BY <2>2, <2>3 DEF ChainsInv
  <1>5. RecordIsTrue'
    BY DEF Restart, RecordIsTrue
  <1>6. QED
    BY <1>3, <1>4, <1>5 DEF IInv

(* Every step keeps the invariant.                                         *)
LEMMA StepIInv == IInv /\ [Next]_vars => IInv'
  <1> SUFFICES ASSUME IInv, [Next]_vars PROVE IInv'
    OBVIOUS
  <1>1. CASE Writing
    BY <1>1, WriteEndsKeepsIInv DEF Writing
  <1>2. ASSUME NEW j \in Jobs, Start(j) PROVE IInv'
    BY <1>2, StartKeepsIInv
  <1>3. ASSUME NEW j \in Jobs, Handling(j) PROVE IInv'
    BY <1>3, HandlerEndsKeepsIInv DEF Handling
  <1>4. ASSUME NEW j \in Jobs, Cancel(j) PROVE IInv'
    BY <1>4, CancelKeepsIInv
  <1>5. ASSUME NEW i \in Jobs, NEW j \in Jobs, Retry(i, j) PROVE IInv'
    BY <1>5, StartKeepsIInv DEF Retry
  <1>6. CASE Close \/ JobsDone \/ CloseEnds
    BY <1>6, CloseStepsKeepIInv
  <1>7. CASE Restart
    BY <1>7, RestartKeepsIInv
  <1>8. CASE UNCHANGED vars
    BY <1>8 DEF vars, job, close, budget, IInv, TypeOK, ChainsInv, RecordIsTrue
  <1>9. QED
    BY <1>1, <1>2, <1>3, <1>4, <1>5, <1>6, <1>7, <1>8 DEF Next

(* The inductive invariant holds in every reachable state.                 *)
THEOREM Invariance == Spec => []IInv
  BY InitIInv, StepIInv, PTL DEF Spec

(* Every reachable state is well typed, for any number of jobs, failing    *)
(* writes, cancellations and restarts; a chain is never longer than the    *)
(* cancellations and the one write start or execute waits for.             *)
THEOREM TypeCorrect == Spec => []TypeOK
  <1>1. IInv => TypeOK
    BY DEF IInv
  <1>2. QED
    BY Invariance, <1>1, PTL

(* What a restart would read back for a job without pending or failed      *)
(* writes is the state of the job: persist starts its writes in the order  *)
(* of the changes they record, whoever makes them.                         *)
THEOREM RecordsTellTheState == Spec => []RecordIsTrue
  <1>1. IInv => RecordIsTrue
    BY DEF IInv
  <1>2. QED
    BY Invariance, <1>1, PTL

=============================================================================
