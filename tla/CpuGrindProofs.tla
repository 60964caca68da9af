--------------------------- MODULE CpuGrindProofs ---------------------------
(***************************************************************************)
(* Safety of CpuGrind for any number of tasks and pool threads, any space, *)
(* stride and batch, and any set of winning counters.                      *)
(*                                                                         *)
(* The invariant that carries the proof follows a find from the task that  *)
(* makes it to the result: a task between swap and slot is alone there and *)
(* found is set; found with an empty slot means that such a task exists;   *)
(* so once every task has returned, found means a full slot.               *)
(***************************************************************************)
EXTENDS CpuGrind, FiniteSetTheorems, TLAPS

\* A batch that is being ground is a part of the counter space without a wrap in it, and
\* local_hashes is what has been done of it.
BatchInv ==
  \A t \in Task : pc[t] = "grind" /\ counter[t] < end[t] =>
                    localH[t] + (end[t] - counter[t]) <= Batch

\* A task that goes for the slot has a winning nonce, and is the only one.
FinderInv ==
  \A t \in Task :
    /\ pc[t] \in {"swap", "slot"} => counter[t] \in Winning
    /\ pc[t] = "slot" => slot = None /\ mpc = "tasks"
    /\ pc[t] \in {"slot", "last"} => found
    /\ pc[t] = "done" => found \/ stop
    /\ \A u \in Task : pc[t] = "slot" /\ pc[u] = "slot" => t = u

\* The found flag, the slot and the result, from the swap to the return.
SlotInv ==
  /\ slot # None => slot \in Winning /\ found
  /\ found /\ mpc # "returned" => slot # None \/ \E t \in Task : pc[t] = "slot"
  /\ mpc # "tasks" => \A t \in Task : pc[t] = "done"
  /\ mpc # "returned" => result.nonce = None
  /\ mpc = "returned" => slot = None
  /\ mpc = "returned" /\ found => result.nonce # None
  /\ result.nonce # None => result.nonce \in Winning

\* Progress follows the counter of hashes.
ReportInv ==
  /\ reported <= total
  /\ mpc = "returned" => rpc = "gone" /\ result.hashes = total

IInv == TypeOK /\ BatchInv /\ FinderInv /\ SlotInv /\ ReportInv
-----------------------------------------------------------------------------
(* Counters. *)

\* Wrapping any counter value yields a counter.
LEMMA WrapType == \A n \in Nat : Wrap(n) \in Counter
  BY SpaceAssumption, BatchAssumption, SMT DEF Wrap, Counter

\* A counter below the end of its batch has a successor, which needs no wrap.
LEMMA WrapSucc == \A n, m \in Counter : n < m => Wrap(n + 1) = n + 1
  BY SpaceAssumption, BatchAssumption, SMT DEF Wrap, Counter

\* A batch either lies within the space or ends below its start.
LEMMA WrapBatch ==
  \A n \in Counter : n < Wrap(n + Batch) => Wrap(n + Batch) - n <= Batch
  <1> SUFFICES ASSUME NEW n \in Counter, n < Wrap(n + Batch)
               PROVE  Wrap(n + Batch) - n <= Batch
    OBVIOUS
  <1>1. n \in Nat /\ n < Space /\ Batch \in Nat /\ Space \in Nat \ {0} /\ Batch < Space
    BY SpaceAssumption, BatchAssumption DEF Counter
  <1>2. CASE n + Batch < Space
    BY <1>1, <1>2, SMT DEF Wrap
  <1>3. CASE n + Batch >= Space
    BY <1>1, <1>3, SMT DEF Wrap
  <1> QED BY <1>1, <1>2, <1>3, SMT

-----------------------------------------------------------------------------
(* The invariant. *)

\* The invariant holds when a run starts.
LEMMA InitInv == Init => IInv
  <1> SUFFICES ASSUME Init PROVE IInv
    OBVIOUS
  <1> USE DEF Init
  <1>1. TypeOK
    <2>1. \A t \in Task : Wrap(t * Stride) \in Counter
      BY WrapType, SpaceAssumption, BatchAssumption, TasksAssumption, SMT DEF Task
    <2>2. 0 \in Counter /\ 0 \in 0..Batch
      BY SpaceAssumption, BatchAssumption, SMT DEF Counter
    <2> QED BY <2>1, <2>2 DEF TypeOK
  <1>2. BatchInv
    BY DEF BatchInv
  <1>3. FinderInv
    BY DEF FinderInv
  <1>4. SlotInv
    BY DEF SlotInv
  <1>5. ReportInv
    BY DEF ReportInv
  <1> QED BY <1>1, <1>2, <1>3, <1>4, <1>5 DEF IInv

\* Every step of every task, of the reporter and of the run thread preserves it.
LEMMA NextInv == IInv /\ [Next]_vars => IInv'
  <1> SUFFICES ASSUME IInv, [Next]_vars PROVE IInv'
    OBVIOUS
  <1> USE DEF IInv
  <1>1. ASSUME NEW t \in Task, Schedule(t) PROVE IInv'
    <2> USE <1>1 DEF Schedule, Goto, RunFrame
    <2>1. TypeOK'
      BY DEF TypeOK
    <2>2. BatchInv'
      BY DEF TypeOK, BatchInv
    <2>3. FinderInv'
      BY DEF TypeOK, FinderInv, SlotInv
    <2>4. SlotInv'
      BY DEF TypeOK, FinderInv, SlotInv
    <2>5. ReportInv'
      BY DEF TypeOK, ReportInv
    <2> QED BY <2>1, <2>2, <2>3, <2>4, <2>5
  <1>2. ASSUME NEW t \in Task, Check(t) PROVE IInv'
    <2> USE <1>2 DEF Check, Goto, RunFrame
    <2>1. TypeOK'
      BY WrapType, SpaceAssumption, BatchAssumption DEF TypeOK, BatchInv, Counter
    <2>2. BatchInv'
      <3> SUFFICES ASSUME NEW u \in Task, pc'[u] = "grind", counter'[u] < end'[u]
                   PROVE  localH'[u] + (end'[u] - counter'[u]) <= Batch
        BY DEF BatchInv
      <3>1. CASE u # t
        BY <3>1 DEF TypeOK, BatchInv
      <3>2. CASE u = t
        <4>1. ~(found \/ stop)
          BY <3>2 DEF TypeOK
        <4>2. counter'[t] = counter[t] /\ end'[t] = Wrap(counter[t] + Batch) /\ localH'[t] = 0
          BY <4>1 DEF TypeOK
        <4>3. end'[t] - counter'[t] <= Batch /\ end'[t] - counter'[t] \in Int
          BY <3>2, <4>2, WrapBatch, WrapType, SpaceAssumption, BatchAssumption DEF TypeOK, Counter
        <4> QED BY <3>2, <4>2, <4>3
      <3> QED BY <3>1, <3>2
    <2>3. FinderInv'
      BY DEF TypeOK, FinderInv, SlotInv
    <2>4. SlotInv'
      BY DEF TypeOK, FinderInv, SlotInv
    <2>5. ReportInv'
      BY DEF TypeOK, ReportInv
    <2> QED BY <2>1, <2>2, <2>3, <2>4, <2>5
  <1>3. ASSUME NEW t \in Task, Hash(t) PROVE IInv'
    <2> USE <1>3 DEF Hash, Goto, RunFrame
    <2>1. TypeOK'
      BY WrapSucc, WrapType, SpaceAssumption, BatchAssumption DEF TypeOK, BatchInv, Counter
    <2>2. BatchInv'
      <3> SUFFICES ASSUME NEW u \in Task, pc'[u] = "grind", counter'[u] < end'[u]
                   PROVE  localH'[u] + (end'[u] - counter'[u]) <= Batch
        BY DEF BatchInv
      <3>1. CASE u # t
        BY <3>1 DEF TypeOK, BatchInv
      <3>2. CASE u = t
        <4>1. counter[t] \notin Winning
          BY <3>2 DEF TypeOK
        <4>2. counter'[t] = counter[t] + 1
          BY <4>1, WrapSucc DEF TypeOK
        <4>3. localH'[t] = localH[t] + 1 /\ end'[t] = end[t]
          BY DEF TypeOK
        <4>4. localH[t] + (end[t] - counter[t]) <= Batch
          BY DEF BatchInv
        <4> QED BY <3>2, <4>2, <4>3, <4>4, SpaceAssumption, BatchAssumption DEF TypeOK, Counter
      <3> QED BY <3>1, <3>2
    <2>3. FinderInv'
      BY DEF TypeOK, FinderInv, SlotInv
    <2>4. SlotInv'
      BY DEF TypeOK, FinderInv, SlotInv
    <2>5. ReportInv'
      BY DEF TypeOK, ReportInv
    <2> QED BY <2>1, <2>2, <2>3, <2>4, <2>5
  <1>4. ASSUME NEW t \in Task, Swap(t) PROVE IInv'
    <2> USE <1>4 DEF Swap, Goto, RunFrame
    <2>1. TypeOK'
      BY DEF TypeOK
    <2>2. BatchInv'
      BY DEF TypeOK, BatchInv
    <2>3. FinderInv'
      BY DEF TypeOK, FinderInv, SlotInv
    <2>4. SlotInv'
      BY DEF TypeOK, FinderInv, SlotInv
    <2>5. ReportInv'
      BY DEF TypeOK, ReportInv
    <2> QED BY <2>1, <2>2, <2>3, <2>4, <2>5
  <1>5. ASSUME NEW t \in Task, FillSlot(t) PROVE IInv'
    <2> USE <1>5 DEF FillSlot, Goto, RunFrame
    <2>1. TypeOK'
      BY DEF TypeOK
    <2>2. BatchInv'
      BY DEF TypeOK, BatchInv
    <2>3. FinderInv'
      BY DEF TypeOK, FinderInv, SlotInv
    <2>4. SlotInv'
      BY SpaceAssumption DEF TypeOK, FinderInv, SlotInv
    <2>5. ReportInv'
      BY DEF TypeOK, ReportInv
    <2> QED BY <2>1, <2>2, <2>3, <2>4, <2>5
  <1>6. ASSUME NEW t \in Task, AddHashes(t) PROVE IInv'
    <2> USE <1>6 DEF AddHashes, Goto, RunFrame
    <2>1. TypeOK'
      BY DEF TypeOK, BatchInv, Counter
    <2>2. BatchInv'
      BY DEF TypeOK, BatchInv, Counter
    <2>3. FinderInv'
      BY DEF TypeOK, FinderInv, SlotInv
    <2>4. SlotInv'
      BY DEF TypeOK, FinderInv, SlotInv
    <2>5. ReportInv'
      BY SpaceAssumption, BatchAssumption DEF TypeOK, ReportInv, SlotInv
    <2> QED BY <2>1, <2>2, <2>3, <2>4, <2>5
  <1>7. CASE Stop
    <2> USE <1>7 DEF Stop, taskVars, RunFrame
    <2>1. TypeOK'
      BY DEF TypeOK
    <2>2. BatchInv'
      BY DEF TypeOK, BatchInv
    <2>3. FinderInv'
      BY DEF TypeOK, FinderInv, SlotInv
    <2>4. SlotInv'
      BY DEF TypeOK, FinderInv, SlotInv
    <2>5. ReportInv'
      BY DEF TypeOK, ReportInv
    <2> QED BY <2>1, <2>2, <2>3, <2>4, <2>5
  <1>8. CASE Report
    <2> USE <1>8 DEF Report, taskVars, RunFrame
    <2>1. TypeOK'
      BY DEF TypeOK
    <2>2. BatchInv'
      BY DEF TypeOK, BatchInv
    <2>3. FinderInv'
      BY DEF TypeOK, FinderInv, SlotInv
    <2>4. SlotInv'
      BY DEF TypeOK, FinderInv, SlotInv
    <2>5. ReportInv'
      BY DEF TypeOK, ReportInv, SlotInv
    <2> QED BY <2>1, <2>2, <2>3, <2>4, <2>5
  <1>9. CASE JoinTasks
    <2> USE <1>9 DEF JoinTasks, taskVars, RunFrame
    <2>1. TypeOK'
      BY DEF TypeOK
    <2>2. BatchInv'
      BY DEF TypeOK, BatchInv
    <2>3. FinderInv'
      BY DEF TypeOK, FinderInv, SlotInv
    <2>4. SlotInv'
      BY DEF TypeOK, FinderInv, SlotInv
    <2>5. ReportInv'
      BY DEF TypeOK, ReportInv
    <2> QED BY <2>1, <2>2, <2>3, <2>4, <2>5
  <1>10. CASE Return
    <2> USE <1>10 DEF Return, taskVars, RunFrame
    <2>1. TypeOK'
      BY DEF TypeOK
    <2>2. BatchInv'
      BY DEF TypeOK, BatchInv
    <2>3. FinderInv'
      BY DEF TypeOK, FinderInv, SlotInv
    <2>4. SlotInv'
      BY DEF TypeOK, FinderInv, SlotInv
    <2>5. ReportInv'
      BY DEF TypeOK, ReportInv, SlotInv
    <2> QED BY <2>1, <2>2, <2>3, <2>4, <2>5
  <1>11. CASE UNCHANGED vars
    BY <1>11 DEF vars, taskVars, TypeOK, BatchInv, FinderInv, SlotInv, ReportInv, Counter
  <1> QED
    BY <1>1, <1>2, <1>3, <1>4, <1>5, <1>6, <1>7, <1>8, <1>9, <1>10, <1>11 DEF Next, TaskStep, Terminated

\* The inductive invariant holds of every behaviour.
THEOREM Invariance == Spec => []IInv
  <1>1. Init => IInv
    BY InitInv
  <1>2. IInv /\ [Next]_vars => IInv'
    BY NextInv
  <1> QED BY <1>1, <1>2, PTL DEF Spec

-----------------------------------------------------------------------------
(* What follows from it. *)

\* Every variable of a run has its type: counters wrap within the space, and no task counts
\* more hashes than its batch has.
THEOREM TypeCorrect == Spec => []TypeOK
  <1>1. IInv => TypeOK
    BY DEF IInv
  <1> QED BY <1>1, Invariance, PTL

\* A nonce that a run returns is below the target.
THEOREM ReturnsWinners == Spec => []ResultWins
  <1>1. IInv => ResultWins
    BY DEF IInv, SlotInv, ResultWins
  <1> QED BY <1>1, Invariance, PTL

\* A run that has returned found a nonce, which it returns, or was stopped.
THEOREM ReturnsOnlyForCause == Spec => []ReturnsForCause
  <1>1. IInv => ReturnsForCause
    <2>1. 0 \in Task
      BY TasksAssumption, SMT DEF Task
    <2> QED BY <2>1 DEF IInv, FinderInv, SlotInv, ReturnsForCause
  <1> QED BY <1>1, Invariance, PTL

\* The progress of a run never exceeds the hash count it returns.
THEOREM ProgressIsBelowResult == Spec => []ProgressBelowResult
  <1>1. IInv => ProgressBelowResult
    BY DEF IInv, ReportInv, ProgressBelowResult
  <1> QED BY <1>1, Invariance, PTL

\* One task fills the slot, and no other overwrites it.
THEOREM SlotIsWrittenOnce == Spec => SlotWrittenOnce
  <1>1. IInv /\ [Next]_vars => [slot # None => slot' \in {slot, None}]_vars
    <2> SUFFICES ASSUME IInv, [Next]_vars, slot # None PROVE slot' \in {slot, None}
      OBVIOUS
    <2>1. \A t \in Task : ~FillSlot(t)
      BY DEF IInv, FinderInv, FillSlot
    <2> QED
      BY <2>1 DEF Next, TaskStep, Schedule, Check, Hash, Swap, AddHashes, Stop, Report,
                  JoinTasks, Return, Terminated, vars
  <1> QED BY <1>1, Invariance, PTL DEF Spec, SlotWrittenOnce

-----------------------------------------------------------------------------
(* Every hash is counted once. *)

\* The hashes of task t that are not in total yet.
Uncounted(t) == IF pc[t] \in {"grind", "swap", "slot", "last"} THEN localH[t] ELSE 0

\* One element for each of them: the sum over the tasks is the size of a set.
Pending == {p \in Task \X (1..Batch) : p[2] <= Uncounted(p[1])}

HashInv == hashed = total + Cardinality(Pending)

\* There are finitely many of them.
LEMMA PendingFinite == IsFiniteSet(Pending) /\ Cardinality(Pending) \in Nat
  <1>1. IsFiniteSet(Task) /\ IsFiniteSet(1..Batch)
    BY TasksAssumption, SpaceAssumption, BatchAssumption, FS_Interval DEF Task
  <1>2. IsFiniteSet(Task \X (1..Batch))
    BY <1>1, FS_Product
  <1>3. Pending \subseteq Task \X (1..Batch)
    BY DEF Pending
  <1>4. IsFiniteSet(Pending)
    BY <1>2, <1>3, FS_Subset
  <1> QED BY <1>4, FS_CardinalityType

\* A step that changes no task's count changes nothing.
LEMMA PendingSame ==
  ASSUME HashInv, \A t \in Task : Uncounted(t)' = Uncounted(t), UNCHANGED <<total, hashed>>
  PROVE  HashInv'
  <1>1. Pending' = Pending
    BY DEF Pending
  <1> QED BY <1>1 DEF HashInv

\* A hash is pending as soon as it is made.
LEMMA PendingHash ==
  ASSUME IInv, HashInv, NEW t \in Task, Hash(t)
  PROVE  HashInv'
  <1>1. /\ Uncounted(t) = localH[t] /\ Uncounted(t)' = localH[t] + 1
        /\ localH[t] \in Nat /\ localH[t] + 1 \in 1..Batch
    <2>1. localH[t] \in Nat /\ counter[t] \in Nat /\ end[t] \in Nat
      BY SpaceAssumption, BatchAssumption DEF IInv, TypeOK, Counter
    <2>2. localH[t] + (end[t] - counter[t]) <= Batch /\ counter[t] < end[t]
      BY DEF IInv, BatchInv, Hash
    <2>3. localH[t] + 1 \in 1..Batch
      BY <2>1, <2>2, SpaceAssumption, BatchAssumption
    <2>4. localH'[t] = localH[t] + 1 /\ pc[t] = "grind" /\ pc'[t] \in {"grind", "swap"}
      BY DEF IInv, TypeOK, Hash, Goto
    <2> QED BY <2>1, <2>3, <2>4 DEF Uncounted
  <1>2. \A u \in Task : u # t => Uncounted(u)' = Uncounted(u)
    BY DEF IInv, TypeOK, Hash, Goto, Uncounted
  <1> DEFINE new == <<t, localH[t] + 1>>
  <1>3. new \in Task \X (1..Batch) /\ new[1] = t /\ new[2] = localH[t] + 1
    BY <1>1
  <1>4. new \notin Pending
    BY <1>1, <1>3 DEF Pending
  <1>5. Pending' = Pending \cup {new}
    <2>1. ASSUME NEW p \in Task \X (1..Batch)
          PROVE  p[2] <= Uncounted(p[1])' <=> p[2] <= Uncounted(p[1]) \/ p = new
      <3>1. p[1] \in Task /\ p[2] \in Nat /\ p = <<p[1], p[2]>>
        BY <2>1, SpaceAssumption, BatchAssumption
      <3>2. CASE p[1] # t
        BY <1>2, <1>3, <3>1, <3>2
      <3>3. CASE p[1] = t
        <4>1. p = new <=> p[2] = localH[t] + 1
          BY <3>1, <3>3
        <4> QED BY <1>1, <3>1, <3>3, <4>1
      <3> QED BY <3>2, <3>3
    <2> HIDE DEF new
    <2> QED BY <1>3, <2>1 DEF Pending
  <1> HIDE DEF new
  <1>6. Cardinality(Pending \cup {new}) = Cardinality(Pending) + 1
    BY <1>4, PendingFinite, FS_AddElement
  <1>7. hashed' = hashed + 1 /\ total' = total /\ total \in Nat
    BY DEF Hash, IInv, TypeOK
  <1> QED BY <1>5, <1>6, <1>7, PendingFinite DEF HashInv

\* The hashes of a batch leave the pending ones as they are added.
LEMMA PendingAdded ==
  ASSUME IInv, HashInv, NEW t \in Task, AddHashes(t)
  PROVE  HashInv'
  <1> DEFINE n == localH[t]
             mine == {t} \X (1..n)
  <1>1. Uncounted(t) = n /\ Uncounted(t)' = 0 /\ n \in 0..Batch
    BY DEF IInv, TypeOK, AddHashes, Goto, Uncounted
  <1>2. \A u \in Task : u # t => Uncounted(u)' = Uncounted(u)
    BY DEF IInv, TypeOK, AddHashes, Goto, Uncounted
  <1>3. n \in Nat /\ n <= Batch /\ Batch \in Nat
    BY <1>1, SpaceAssumption, BatchAssumption
  <1>4. IsFiniteSet(mine) /\ Cardinality(mine) = n
    <2> HIDE DEF n
    <2>1. IsFiniteSet({t}) /\ Cardinality({t}) = 1
      BY FS_Singleton
    <2>2. IsFiniteSet(1..n) /\ Cardinality(1..n) = n
      <3>1. IsFiniteSet(1..n) /\ Cardinality(1..n) = IF 1 > n THEN 0 ELSE n - 1 + 1
        BY <1>3, FS_Interval, 1 \in Int, n \in Int
      <3> QED BY <1>3, <3>1
    <2> DEFINE S == {t}
               T == 1..n
    <2> HIDE DEF S, T
    <2>3. IsFiniteSet(S \X T) /\ Cardinality(S \X T) = Cardinality(S) * Cardinality(T)
      <3>1. IsFiniteSet(S) /\ IsFiniteSet(T)
        BY <2>1, <2>2 DEF S, T
      <3> QED BY <3>1, FS_Product
    <2>4. Cardinality(S) * Cardinality(T) = n
      BY <1>3, <2>1, <2>2 DEF S, T
    <2> QED BY <2>3, <2>4 DEF S, T
  <1>5. ASSUME NEW p \in Task \X (1..Batch)
        PROVE  /\ p[2] <= Uncounted(p[1])' <=> p[2] <= Uncounted(p[1]) /\ p[1] # t
               /\ p \in mine <=> p[2] <= Uncounted(p[1]) /\ p[1] = t
    <2>1. p[1] \in Task /\ p[2] \in Nat \ {0} /\ p = <<p[1], p[2]>>
      BY <1>5, SpaceAssumption, BatchAssumption
    <2>2. CASE p[1] # t
      BY <1>2, <2>1, <2>2
    <2>3. CASE p[1] = t
      <3>1. p \in mine <=> p[2] \in 1..n
        BY <2>1, <2>3
      <3> HIDE DEF mine, n
      <3> QED BY <1>1, <1>3, <2>1, <2>3, <3>1
    <2> QED BY <2>2, <2>3
  <1>6. mine \subseteq Task \X (1..Batch)
    BY <1>3
  <1> HIDE DEF mine, n
  <1>7. Pending = Pending' \cup mine /\ Pending' \cap mine = {}
    BY <1>5, <1>6 DEF Pending
  <1>8. IsFiniteSet(Pending')
    BY <1>7, PendingFinite, FS_Subset
  <1>9. Cardinality(Pending') \in Nat
    BY <1>8, FS_CardinalityType
  <1>10. Cardinality(Pending) = Cardinality(Pending') + n
    <2>1. Cardinality(Pending' \cup mine)
            = Cardinality(Pending') + Cardinality(mine) - Cardinality(Pending' \cap mine)
      BY <1>4, <1>8, FS_Union
    <2>2. Cardinality({}) = 0
      BY FS_EmptySet
    <2>3. Cardinality(Pending) = Cardinality(Pending' \cup mine)
      BY <1>7
    <2>4. Cardinality(Pending' \cap mine) = 0
      BY <1>7, <2>2
    <2> QED BY <1>3, <1>4, <1>9, <2>1, <2>3, <2>4
  <1>11. hashed' = hashed /\ total' = total + n /\ total \in Nat
    BY DEF AddHashes, IInv, TypeOK, n
  <1> QED BY <1>3, <1>9, <1>10, <1>11 DEF HashInv

\* A run starts with nothing hashed.
LEMMA InitHashes == Init => HashInv
  <1> SUFFICES ASSUME Init PROVE HashInv
    OBVIOUS
  <1>1. \A t \in Task : Uncounted(t) = 0
    BY DEF Init, Uncounted
  <1>2. \A p \in Task \X (1..Batch) : p[1] \in Task /\ p[2] \in 1..Batch
    OBVIOUS
  <1>3. Pending = {}
    BY <1>1, <1>2, SpaceAssumption, BatchAssumption DEF Pending
  <1>4. hashed = 0 /\ total = 0
    BY DEF Init
  <1> QED BY <1>3, <1>4, FS_EmptySet DEF HashInv

\* Every step keeps the balance.
LEMMA NextHashes == IInv /\ HashInv /\ [Next]_vars => HashInv'
  <1> SUFFICES ASSUME IInv, HashInv, [Next]_vars PROVE HashInv'
    OBVIOUS
  <1>1. ASSUME NEW t \in Task, Schedule(t) PROVE HashInv'
    <2>1. \A u \in Task : Uncounted(u)' = Uncounted(u)
      BY <1>1 DEF IInv, TypeOK, Schedule, Goto, Uncounted
    <2> QED BY <1>1, <2>1, PendingSame DEF Schedule
  <1>2. ASSUME NEW t \in Task, Check(t) PROVE HashInv'
    <2>1. \A u \in Task : Uncounted(u)' = Uncounted(u)
      BY <1>2 DEF IInv, TypeOK, Check, Goto, Uncounted
    <2> QED BY <1>2, <2>1, PendingSame DEF Check
  <1>3. ASSUME NEW t \in Task, Swap(t) PROVE HashInv'
    <2>1. \A u \in Task : Uncounted(u)' = Uncounted(u)
      BY <1>3 DEF IInv, TypeOK, Swap, Goto, Uncounted
    <2> QED BY <1>3, <2>1, PendingSame DEF Swap
  <1>4. ASSUME NEW t \in Task, FillSlot(t) PROVE HashInv'
    <2>1. \A u \in Task : Uncounted(u)' = Uncounted(u)
      BY <1>4 DEF IInv, TypeOK, FillSlot, Goto, Uncounted
    <2> QED BY <1>4, <2>1, PendingSame DEF FillSlot
  <1>5. CASE Stop \/ Report \/ JoinTasks \/ Return \/ UNCHANGED vars
    <2>1. UNCHANGED <<pc, localH, total, hashed>>
      BY <1>5 DEF Stop, Report, JoinTasks, Return, vars, taskVars, RunFrame
    <2>2. \A u \in Task : Uncounted(u)' = Uncounted(u)
      BY <2>1 DEF Uncounted
    <2> QED BY <2>1, <2>2, PendingSame
  <1> QED BY <1>1, <1>2, <1>3, <1>4, <1>5, PendingHash, PendingAdded DEF Next, TaskStep, Terminated

\* The hash count that a run returns is the number of hashes it made: no batch is lost or
\* counted twice, however tasks find, see the flags and return.
THEOREM ResultCountsEveryHash == Spec => []HashesExact
  <1>1. Init => IInv /\ HashInv
    BY InitInv, InitHashes
  <1>2. IInv /\ HashInv /\ [Next]_vars => (IInv /\ HashInv)'
    BY NextInv, NextHashes
  <1>3. IInv /\ HashInv => HashesExact
    <2> SUFFICES ASSUME IInv, HashInv, mpc = "returned" PROVE result.hashes = hashed
      BY DEF HashesExact
    <2>1. \A t \in Task : Uncounted(t) = 0
      BY DEF IInv, SlotInv, Uncounted
    <2>2. \A p \in Task \X (1..Batch) : p[1] \in Task /\ p[2] \in 1..Batch
      OBVIOUS
    <2>3. Pending = {}
      BY <2>1, <2>2, SpaceAssumption, BatchAssumption DEF Pending
    <2>4. result.hashes = total /\ total \in Nat
      BY DEF IInv, ReportInv, TypeOK
    <2> QED BY <2>3, <2>4, FS_EmptySet DEF HashInv
  <1> QED BY <1>1, <1>2, <1>3, PTL DEF Spec

-----------------------------------------------------------------------------
(* No winner is passed over. *)

\* A task passes a counter only when it has hashed it and it lost, and never by the wrap: a
\* counter that is ground lies below the end of its batch.
LEMMA NextSkipsNone == IInv /\ TasksSkipNone /\ [Next]_vars => TasksSkipNone'
  <1> SUFFICES ASSUME IInv, TasksSkipNone, [Next]_vars,
                      NEW t \in Task, NEW c \in Counter,
                      Wrap(t * Stride) <= c, c < counter'[t]
               PROVE  c \notin Winning
    BY DEF TasksSkipNone
  <1>1. c < counter[t] => c \notin Winning
    BY DEF TasksSkipNone
  <1>2. CASE counter'[t] = counter[t]
    BY <1>1, <1>2
  <1>3. ASSUME NEW u \in Task, Hash(u) PROVE c \notin Winning
    <2>1. CASE counter'[t] # counter[t]
      <3>1. u = t /\ counter[t] \notin Winning /\ counter'[t] = Wrap(counter[t] + 1)
        BY <1>3, <2>1 DEF Hash, IInv, TypeOK
      <3>2. counter'[t] = counter[t] + 1
        BY <1>3, <3>1, WrapSucc DEF Hash, IInv, TypeOK
      <3>3. c < counter[t] \/ c = counter[t]
        BY <3>2, SpaceAssumption DEF IInv, TypeOK, Counter
      <3> QED BY <1>1, <3>1, <3>3
    <2> QED BY <1>2, <2>1
  <1>4. CASE UNCHANGED counter
    BY <1>2, <1>4
  <1> QED
    BY <1>3, <1>4 DEF Next, TaskStep, Schedule, Check, Swap, FillSlot, AddHashes, Stop, Report,
                      JoinTasks, Return, Terminated, vars, taskVars

\* Every counter between the first one of a task and its next one has been tried and lost.
THEOREM TasksPassNoWinner == Spec => []TasksSkipNone
  <1>1. Init => TasksSkipNone
    <2> SUFFICES ASSUME Init, NEW t \in Task
                 PROVE  Winning \cap {c \in Counter : Wrap(t * Stride) <= c /\ c < counter[t]} = {}
      BY DEF TasksSkipNone
    <2>1. counter[t] = Wrap(t * Stride)
      BY DEF Init
    <2>2. Wrap(t * Stride) \in Counter
      BY WrapType, BatchAssumption, SMT DEF Task
    <2>3. \A c \in Counter : ~(Wrap(t * Stride) <= c /\ c < Wrap(t * Stride))
      BY <2>2, SpaceAssumption DEF Counter
    <2> QED BY <2>1, <2>3
  <1>2. IInv /\ TasksSkipNone /\ [Next]_vars => (IInv /\ TasksSkipNone)'
    BY NextInv, NextSkipsNone
  <1> QED BY <1>1, <1>2, InitInv, PTL DEF Spec
-----------------------------------------------------------------------------
(* A stop costs a batch. *)

\* Steps that task t has left, if the stop flag is up: at most the rest of its batch, the find that
\* may end it, and the look at the flags.
TaskLeft(t) ==
  CASE pc[t] = "grind" -> IF counter[t] < end[t] THEN 4 + (end[t] - counter[t]) ELSE 4
    [] pc[t] = "swap" -> 3
    [] pc[t] \in {"queued", "slot"} -> 2
    [] pc[t] \in {"check", "last"} -> 1
    [] OTHER -> 0

\* A task that is not done can take its next step: the pool has a thread for it.
CanGo(t) == pc[t] \notin {"queued", "done"} \/ (pc[t] = "queued" /\ Cardinality(Busy) < Pool)

\* Every task is at most a batch and a find away from its end.
LeftBounded == \A t \in Task : TaskLeft(t) \in 0 .. Batch + 4

\* Once the flag is up, every step of a task brings it closer to its end, and no other step takes
\* it further away: none starts another batch.
StopCloser ==
  stop => \A t \in Task : UNCHANGED <<pc[t], counter[t], end[t]>> \/ TaskLeft(t)' < TaskLeft(t)

\* Until every task has returned one of them can take a step; then the tasks are joined, and the
\* reporter, which sees the flag as well as the run's own, ends and is joined.
NeverStuck == mpc = "tasks" => (\A t \in Task : pc[t] = "done") \/ \E t \in Task : CanGo(t)

\* What is left of a batch is at most a batch.
LEMMA LeftInBatch == IInv => LeftBounded
  <1> SUFFICES ASSUME IInv, NEW t \in Task PROVE TaskLeft(t) \in 0 .. Batch + 4
    BY DEF LeftBounded
  <1>1. Batch \in Nat \ {0}
    BY BatchAssumption
  <1>2. CASE pc[t] = "grind" /\ counter[t] < end[t]
    <2>1. counter[t] \in Nat /\ end[t] \in Nat /\ localH[t] \in Nat
      BY SpaceAssumption, BatchAssumption DEF IInv, TypeOK, Counter
    <2>2. localH[t] + (end[t] - counter[t]) <= Batch
      BY <1>2 DEF IInv, BatchInv
    <2>3. TaskLeft(t) = 4 + (end[t] - counter[t])
      BY <1>2 DEF TaskLeft
    <2> QED BY <1>1, <1>2, <2>1, <2>2, <2>3
  <1>3. CASE ~(pc[t] = "grind" /\ counter[t] < end[t])
    <2>1. TaskLeft(t) \in 0 .. 4
      BY <1>3 DEF TaskLeft
    <2> QED BY <1>1, <2>1
  <1> QED BY <1>2, <1>3

\* Each step of a task counts.
LEMMA EachStepCounts ==
  ASSUME IInv, stop, NEW t \in Task, TaskStep(t)
  PROVE  TaskLeft(t)' < TaskLeft(t)
  <1>1. /\ pc \in [Task -> {"queued", "check", "grind", "swap", "slot", "last", "done"}]
        /\ counter \in [Task -> Counter] /\ end \in [Task -> Counter]
    BY DEF IInv, TypeOK
  <1>2. counter[t] \in Nat /\ end[t] \in Nat
    BY <1>1, SpaceAssumption DEF Counter
  <1>3. CASE Schedule(t) \/ Check(t) \/ Swap(t) \/ FillSlot(t)
    <2>1. \/ pc[t] = "queued" /\ pc'[t] = "check"
          \/ pc[t] = "check" /\ pc'[t] = "done"
          \/ pc[t] = "swap" /\ pc'[t] \in {"last", "slot"}
          \/ pc[t] = "slot" /\ pc'[t] = "last"
      BY <1>1, <1>3 DEF Schedule, Check, Swap, FillSlot, Goto
    <2>2. /\ pc[t] = "queued" => TaskLeft(t) = 2
          /\ pc[t] = "check" => TaskLeft(t) = 1
          /\ pc[t] = "swap" => TaskLeft(t) = 3
          /\ pc[t] = "slot" => TaskLeft(t) = 2
      BY DEF TaskLeft
    <2>3. /\ pc'[t] \in {"check", "last"} => TaskLeft(t)' = 1
          /\ pc'[t] = "slot" => TaskLeft(t)' = 2
          /\ pc'[t] = "done" => TaskLeft(t)' = 0
      BY DEF TaskLeft
    <2> QED BY <2>1, <2>2, <2>3
  <1>4. CASE AddHashes(t)
    BY <1>1, <1>2, <1>4 DEF AddHashes, Goto, TaskLeft
  <1>5. CASE Hash(t)
    <2>1. TaskLeft(t) = 4 + (end[t] - counter[t]) /\ counter[t] < end[t] /\ UNCHANGED end
      BY <1>5 DEF Hash, TaskLeft
    <2>2. CASE pc'[t] = "swap"
      <3>1. TaskLeft(t)' = 3
        BY <2>2 DEF TaskLeft
      <3> QED BY <1>2, <2>1, <3>1
    <2>3. CASE pc'[t] # "swap"
      <3>1. pc'[t] = "grind" /\ counter'[t] = Wrap(counter[t] + 1)
        BY <1>1, <1>5, <2>3 DEF Hash, Goto
      <3>2. counter'[t] = counter[t] + 1
        BY <1>1, <2>1, <3>1, WrapSucc
      <3>3. TaskLeft(t)' = IF counter[t] + 1 < end[t] THEN 4 + (end[t] - (counter[t] + 1)) ELSE 4
        BY <2>1, <3>1, <3>2 DEF TaskLeft
      <3> QED BY <1>2, <2>1, <3>3
    <2> QED BY <2>2, <2>3
  <1> QED BY <1>3, <1>4, <1>5 DEF TaskStep

\* A stop takes at most a batch and a find of every task, however many there are for however few
\* threads of the pool, and no task waits for one that cannot go on.
THEOREM StopCostsABatch == Spec => [](LeftBounded /\ NeverStuck) /\ [][StopCloser]_vars
  <1>1. IInv => NeverStuck
    <2> SUFFICES ASSUME IInv, NEW u \in Task, pc[u] # "done" PROVE \E t \in Task : CanGo(t)
      BY DEF NeverStuck
    <2>1. CASE \E t \in Task : pc[t] \notin {"queued", "done"}
      BY <2>1 DEF CanGo
    <2>2. CASE \A t \in Task : pc[t] \in {"queued", "done"}
      <3>1. Busy = {}
        BY <2>2 DEF Busy
      <3>2. Cardinality(Busy) = 0 /\ 0 < Pool
        BY <3>1, FS_EmptySet, TasksAssumption
      <3> QED BY <2>2, <3>2 DEF CanGo
    <2> QED BY <2>1, <2>2
  <1>2. IInv /\ [Next]_vars => [StopCloser]_vars
    <2> SUFFICES ASSUME IInv, [Next]_vars, stop, NEW t \in Task
                 PROVE  UNCHANGED <<pc[t], counter[t], end[t]>> \/ TaskLeft(t)' < TaskLeft(t)
      BY DEF StopCloser
    <2>1. CASE TaskStep(t)
      BY <2>1, EachStepCounts
    <2>2. ASSUME NEW u \in Task, u # t, TaskStep(u) PROVE UNCHANGED <<pc[t], counter[t], end[t]>>
      BY <2>2 DEF IInv, TypeOK, TaskStep, Schedule, Check, Hash, Swap, FillSlot, AddHashes, Goto
    <2>3. CASE ~ \E u \in Task : TaskStep(u)
      BY <2>3 DEF Next, Stop, Report, JoinTasks, Return, Terminated, vars, taskVars
    <2> QED BY <2>1, <2>2, <2>3
  <1> QED BY <1>1, <1>2, LeftInBatch, Invariance, PTL DEF Spec

-----------------------------------------------------------------------------
(* No two tasks grind the same nonce. *)

\* The counters that task t has tried, and the one it is at.
Reached(t) == {c \in Counter : Wrap(t * Stride) <= c /\ c <= counter[t]}

\* A run that has made fewer hashes than Stride has made none of them twice.
TasksApart ==
  hashed < Stride => \A t, u \in Task : t # u => Reached(t) \cap Reached(u) = {}

\* A task is no further than all tasks together have ground.
StrideInv ==
  hashed < Stride => \A t \in Task : t * Stride <= counter[t] /\ counter[t] <= t * Stride + hashed

\* The stretches of different tasks do not overlap.
LEMMA Stretches ==
  ASSUME NEW i \in Nat, NEW j \in Nat, i < j, Stride \in Nat
  PROVE  (i + 1) * Stride <= j * Stride /\ (i + 1) * Stride = i * Stride + Stride
  <1>1. PICK d \in Nat : j = i + 1 + d
    <2>1. j - i - 1 \in Nat /\ j = i + 1 + (j - i - 1)
      OBVIOUS
    <2> QED BY <2>1
  <1>2. d * Stride \in Nat /\ (i + 1) * Stride \in Nat
    BY SMT
  <1>3. j * Stride = (i + 1) * Stride + d * Stride
    BY <1>1, SMT
  <1> QED BY <1>2, <1>3, SMT

\* A task leaves its place only by a hash that it adds to the count.
LEMMA NextStride == IInv /\ StrideInv /\ [Next]_vars => StrideInv'
  <1> SUFFICES ASSUME IInv, StrideInv, [Next]_vars, hashed' < Stride, NEW t \in Task
               PROVE  t * Stride <= counter'[t] /\ counter'[t] <= t * Stride + hashed'
    BY DEF StrideInv
  <1>1. /\ counter \in [Task -> Counter] /\ end \in [Task -> Counter] /\ hashed \in Nat /\ Stride \in Nat
        /\ counter[t] \in Nat /\ t \in Nat /\ t * Stride \in Nat
    <2>1. t \in Nat /\ Stride \in Nat
      BY BatchAssumption DEF Task
    <2>2. t * Stride \in Nat
      BY <2>1, SMT
    <2> QED BY <2>1, <2>2, SpaceAssumption DEF IInv, TypeOK, Counter
  <1>2. ASSUME NEW u \in Task, Hash(u)
        PROVE  hashed' = hashed + 1 /\ counter'[t] \in {counter[t], counter[t] + 1}
    <2>1. hashed' = hashed + 1 /\ counter[u] < end[u]
          /\ (counter' = counter \/ counter' = [counter EXCEPT ![u] = Wrap(@ + 1)])
      BY <1>2 DEF Hash
    <2>2. Wrap(counter[u] + 1) = counter[u] + 1
      BY <1>1, <2>1, WrapSucc
    <2> QED BY <1>1, <2>1, <2>2
  <1>3. CASE UNCHANGED <<counter, hashed>>
    BY <1>3 DEF StrideInv
  <1>4. CASE \E u \in Task : Hash(u)
    <2>1. hashed' = hashed + 1 /\ counter'[t] \in {counter[t], counter[t] + 1}
      BY <1>2, <1>4
    <2>2. t * Stride <= counter[t] /\ counter[t] <= t * Stride + hashed
      BY <1>1, <2>1 DEF StrideInv
    <2> QED BY <1>1, <2>1, <2>2
  <1> QED
    BY <1>3, <1>4 DEF Next, TaskStep, Schedule, Check, Swap, FillSlot, AddHashes, Stop, Report,
                      JoinTasks, Return, Terminated, vars, taskVars

\* When the first counters of the tasks fit into the space, no nonce is hashed twice before one task
\* could have walked into the next one's part: that takes Stride hashes, 2^48 in run_cpu.
THEOREM TasksGrindApart ==
  ASSUME Tasks * Stride <= Space
  PROVE  Spec => []TasksApart
  <1>1. \A t \in Task : t * Stride \in Nat /\ t * Stride + Stride <= Space
    <2> SUFFICES ASSUME NEW t \in Task PROVE t * Stride \in Nat /\ t * Stride + Stride <= Space
      OBVIOUS
    <2>1. t \in Nat /\ Tasks \in Nat /\ t < Tasks /\ Stride \in Nat
      BY TasksAssumption, BatchAssumption DEF Task
    <2>2. t * Stride \in Nat /\ Tasks * Stride \in Nat /\ (t + 1) * Stride \in Nat
      BY <2>1, SMT
    <2>3. (t + 1) * Stride <= Tasks * Stride /\ (t + 1) * Stride = t * Stride + Stride
      BY <2>1, Stretches
    <2> QED BY <2>1, <2>2, <2>3, SpaceAssumption
  <1>2. Init => StrideInv
    <2> SUFFICES ASSUME Init, hashed < Stride, NEW t \in Task
                 PROVE  t * Stride <= counter[t] /\ counter[t] <= t * Stride + hashed
      BY DEF StrideInv
    <2>1. counter[t] = Wrap(t * Stride) /\ hashed = 0
      BY DEF Init
    <2>2. t * Stride \in Nat /\ t * Stride < Space /\ Space \in Nat
      BY <1>1, <2>1, BatchAssumption, SpaceAssumption
    <2>3. Wrap(t * Stride) = t * Stride
      BY <2>2, SMT DEF Wrap
    <2> QED BY <2>1, <2>2, <2>3
  <1>3. IInv /\ StrideInv => TasksApart
    <2> SUFFICES ASSUME IInv, StrideInv, hashed < Stride,
                        NEW t \in Task, NEW u \in Task, t # u, NEW c \in Reached(t), c \in Reached(u)
                 PROVE  FALSE
      BY DEF TasksApart
    <2>1. /\ \A v \in Task : v \in Nat /\ v * Stride \in Nat /\ Wrap(v * Stride) = v * Stride
          /\ Stride \in Nat /\ hashed \in Nat /\ c \in Nat
      <3>1. Stride \in Nat /\ hashed \in Nat /\ c \in Nat /\ Stride > 0 /\ Space \in Nat
        BY BatchAssumption, SpaceAssumption DEF IInv, TypeOK, Reached, Counter
      <3>2. \A v \in Task : v \in Nat /\ v * Stride \in Nat /\ v * Stride < Space
        BY <1>1, <3>1 DEF Task
      <3> QED BY <3>1, <3>2, SMT DEF Wrap
    <2>2. \A v \in Task : c \in Reached(v) => v * Stride <= c /\ c < v * Stride + Stride
      <3> SUFFICES ASSUME NEW v \in Task, c \in Reached(v)
                   PROVE  v * Stride <= c /\ c < v * Stride + Stride
        OBVIOUS
      <3>1. v * Stride <= c /\ c <= counter[v] /\ counter[v] <= v * Stride + hashed /\ counter[v] \in Nat
        BY <2>1, SpaceAssumption DEF Reached, StrideInv, IInv, TypeOK, Counter
      <3> QED BY <2>1, <3>1
    <2>3. \A v, w \in Task : v < w => v * Stride + Stride <= w * Stride
      BY <2>1, Stretches
    <2>4. /\ t * Stride \in Nat /\ u * Stride \in Nat /\ (t < u \/ u < t)
          /\ t * Stride <= c /\ c < t * Stride + Stride
          /\ u * Stride <= c /\ c < u * Stride + Stride
      BY <2>1, <2>2
    <2>5. t * Stride + Stride <= u * Stride \/ u * Stride + Stride <= t * Stride
      BY <2>3, <2>4
    <2> QED BY <2>1, <2>4, <2>5
  <1>4. IInv /\ StrideInv /\ [Next]_vars => StrideInv'
    BY NextStride
  <1> QED BY <1>2, <1>3, <1>4, Invariance, PTL DEF Spec
=============================================================================
