--------------------------- MODULE GrindRunProofs ---------------------------
(***************************************************************************)
(* Safety of GpuGrind for any batch, work-group size, space and target,    *)
(* and of GrindRun: both kinds of run keep GrindPromise.                   *)
(*                                                                         *)
(* While a kernel runs, the flag tells what its items have done: as long   *)
(* as it is down none has left or found, and once it is up an item that    *)
(* wins has stored its nonce or is about to.  So a batch that ends with    *)
(* the flag down has tried all its counters, and one that ends with the    *)
(* flag up has stored a winner; the host agrees on what a winner is by     *)
(* WordsAgreeWithBytes.                                                    *)
(***************************************************************************)
EXTENDS GrindRun, CpuGrindProofs, TargetProofs

\* Counter of item i of the batch.
Low(i) == Wrap(gcounter + i)

\* The items of the batch and the flag.
KernelInv ==
  /\ gpc = "kernel" => \A i \in Item : item[i] # "none"
  /\ gpc = "read" => \A i \in Item : item[i] \in {"done", "left"}
  /\ gpc \notin {"kernel", "failed"} => \A i \in Item : item[i] \in {"none", "done", "left"}
  /\ \A i \in Item : item[i] = "store" => Low(i) \in Winning
  /\ gpc \in {"kernel", "read"} /\ flag = 0 =>
       \A i \in Item : /\ item[i] \notin {"left", "store"}
                       /\ item[i] = "done" => Low(i) \notin Winning
  /\ gpc \in {"kernel", "read"} /\ flag = 1 =>
       /\ nonceLow \in Winning \/ \E i \in Item : item[i] = "store"
       /\ \E i \in Item : item[i] \in {"store", "done"}

\* The host: where it may be, and what it has reported and returned.
HostInv ==
  /\ gpc # "mismatch"
  /\ greported <= gtotal
  /\ gpc \in {"found", "stopped"} => gresult.hashes = gtotal
  /\ gpc = "found" <=> gresult.nonce # None
  /\ gpc = "found" => gresult.nonce \in Winning
  /\ gpc = "stopped" => stop

\* No batch before this one had a winner.
SkipInv ==
  gpc \in {"setup", "top", "kernel", "read"} =>
    \A c \in Counter : c < gcounter => c \notin Winning

GpuInv == GpuTypeOK /\ KernelInv /\ HostInv /\ SkipInv

-----------------------------------------------------------------------------
(* Batches. *)

\* A batch has at least one item, and no more than there are counters.
LEMMA GlobalType == Global \in Nat /\ 1 <= Global /\ Global <= Space
  <1> DEFINE n == IF GpuBatch < Local THEN Local ELSE GpuBatch
             q == (n + Local - 1) \div Local
  <1>1. Local \in Nat /\ 1 <= Local /\ n \in Nat /\ Local <= n
    BY GpuAssumption, SMT
  <1>2. q \in Nat /\ 1 <= q
    <2> HIDE DEF n
    <2> QED BY <1>1, SMT
  <1>3. q * Local \in Nat /\ 1 <= q * Local
    <2> HIDE DEF q
    <2> QED BY <1>1, <1>2, SMT
  <1> QED BY <1>3, GlobalAssumption DEF Global

\* Every counter that an item or the host computes is a counter.
LEMMA LowType == ASSUME GpuTypeOK, NEW i \in Item \cup {Global} PROVE Low(i) \in Counter
  <1>1. gcounter \in Nat /\ i \in Nat
    BY GlobalType, SpaceAssumption DEF GpuTypeOK, Counter, Item
  <1> QED BY <1>1, WrapType DEF Low

\* The kernel and the host mean the same by a winner.
LEMMA KernelWins ==
  ASSUME NEW c \in Counter
  PROVE  WordsBelow(Keccak[c], Difficulty) <=> c \in Winning
  <1>1. Keccak[c] \in Digest /\ Difficulty \in Digest
    BY JobAssumption
  <1> QED BY <1>1, WordsAgreeWithBytes DEF Winning

\* The counters before the next batch are those before this one and those of this one.
LEMMA BatchCovers ==
  ASSUME GpuTypeOK, NEW c \in Counter, c < Low(Global)
  PROVE  c < gcounter \/ \E i \in Item : c = Low(i)
  <1>1. /\ gcounter \in Nat /\ c \in Nat /\ gcounter < Space /\ c < Space
        /\ Space \in Nat /\ 1 <= Space
    BY SpaceAssumption DEF GpuTypeOK, Counter
  <1>2. CASE gcounter + Global < Space
    <2>1. Low(Global) = gcounter + Global
      BY <1>1, <1>2, GlobalType, SMT DEF Low, Wrap
    <2>2. CASE c >= gcounter
      <3>1. c - gcounter \in Item /\ gcounter + (c - gcounter) = c
        BY <1>1, <2>1, <2>2, GlobalType, SMT DEF Item
      <3>2. c % Space = c
        BY <1>1, SMT
      <3>3. c = Low(c - gcounter)
        BY <3>1, <3>2 DEF Low, Wrap
      <3> QED BY <3>1, <3>3
    <2> QED BY <1>1, <2>2, SMT
  <1>3. CASE gcounter + Global >= Space
    <2>1. Low(Global) = gcounter + Global - Space
      <3>1. gcounter + Global - Space \in 0..(Space - 1)
        BY <1>1, <1>3, GlobalType, SMT
      <3> QED BY <1>1, <3>1, GlobalType, SMT DEF Low, Wrap
    <2> QED BY <1>1, <2>1, GlobalType, SMT
  <1> QED BY <1>1, <1>2, <1>3, GlobalType, SMT

\* A saturated count is a counter, and no smaller than what it was before.
LEMMA SaturatedType ==
  ASSUME NEW n \in Nat, NEW m \in Nat
  PROVE  /\ Saturated(n) \in Counter /\ Saturated(n) <= n
         /\ Saturated(Saturated(n) + m) = Saturated(n + m)
         /\ n <= m => Saturated(n) <= Saturated(m)
         /\ n < Space => Saturated(n) = n
  <1>1. Space \in Nat /\ 1 <= Space
    BY SpaceAssumption
  <1>2. Saturated(n) \in Nat /\ Saturated(n) < Space /\ Saturated(n) <= n
    BY <1>1, SMT DEF Saturated
  <1>3. Saturated(Saturated(n) + m) = Saturated(n + m)
    <2>1. CASE n < Space
      BY <2>1 DEF Saturated
    <2>2. CASE ~(n < Space)
      BY <1>1, <2>2, SMT DEF Saturated
    <2> QED BY <2>1, <2>2
  <1>4. n <= m => Saturated(n) <= Saturated(m)
    BY <1>1, SMT DEF Saturated
  <1> QED BY <1>1, <1>2, <1>3, <1>4, SMT DEF Saturated, Counter

-----------------------------------------------------------------------------
(* The invariant of a GPU run. *)

\* It holds when a run starts.
LEMMA GpuInitInv == GpuInit => GpuInv
  <1> SUFFICES ASSUME GpuInit PROVE GpuInv
    OBVIOUS
  <1>1. 0 \in Counter
    BY SpaceAssumption, SMT DEF Counter
  <1>2. \A c \in Counter : ~(c < 0)
    BY SpaceAssumption, SMT DEF Counter
  <1> USE DEF GpuInit
  <1>3. GpuTypeOK
    BY <1>1 DEF GpuTypeOK
  <1>4. KernelInv
    BY DEF KernelInv
  <1>5. HostInv
    BY DEF HostInv
  <1>6. SkipInv
    BY <1>2 DEF SkipInv
  <1> QED BY <1>3, <1>4, <1>5, <1>6 DEF GpuInv

\* Every step of every item, of the host and of the thread that stops it preserves it.
LEMMA GpuNextInv == GpuInv /\ [GpuNext]_gpuVars => GpuInv'
  <1> SUFFICES ASSUME GpuInv, [GpuNext]_gpuVars PROVE GpuInv'
    OBVIOUS
  <1> USE DEF GpuInv
  <1>1. ASSUME NEW i \in Item, ItemLooks(i) PROVE GpuInv'
    <2> USE <1>1 DEF ItemLooks, Becomes, hostVars
    <2>1. GpuTypeOK'
      BY DEF GpuTypeOK
    <2>2. KernelInv'
      BY DEF GpuTypeOK, KernelInv, Low, GpuEnds
    <2>3. HostInv' /\ SkipInv'
      BY DEF HostInv, SkipInv
    <2> QED BY <2>1, <2>2, <2>3
  <1>2. ASSUME NEW i \in Item, ItemHashes(i) PROVE GpuInv'
    <2> USE <1>2 DEF ItemHashes, Becomes, hostVars
    <2>1. GpuTypeOK'
      BY DEF GpuTypeOK
    <2>2. WordsBelow(Keccak[Low(i)], Difficulty) <=> Low(i) \in Winning
      BY LowType, KernelWins
    <2>3. KernelInv'
      <3>1. gpc \in {"kernel", "failed"}
        BY DEF GpuTypeOK, KernelInv
      <3>2. \A j \in Item : Low(j)' = Low(j)
        BY DEF Low
      <3>3. CASE Low(i) \in Winning
        <4>1. flag' = 1 /\ item' = [item EXCEPT ![i] = IF flag = 0 THEN "store" ELSE "done"]
          BY <2>2, <3>3 DEF Low
        <4> QED BY <3>1, <3>2, <3>3, <4>1 DEF GpuTypeOK, KernelInv
      <3>4. CASE Low(i) \notin Winning
        <4>1. flag' = flag /\ item' = [item EXCEPT ![i] = "done"]
          BY <2>2, <3>4 DEF Low
        <4> QED BY <3>1, <3>2, <3>4, <4>1 DEF GpuTypeOK, KernelInv
      <3> QED BY <3>3, <3>4
    <2>4. HostInv' /\ SkipInv'
      BY DEF HostInv, SkipInv
    <2> QED BY <2>1, <2>3, <2>4
  <1>3. ASSUME NEW i \in Item, ItemStores(i) PROVE GpuInv'
    <2> USE <1>3 DEF ItemStores, Becomes, hostVars
    <2>1. nonceLow' = Low(i) /\ Low(i) \in Counter
      BY LowType DEF Low
    <2>2. GpuTypeOK'
      BY <2>1 DEF GpuTypeOK
    <2>3. KernelInv'
      <3>1. \A j \in Item : Low(j)' = Low(j)
        BY DEF Low
      <3> QED BY <2>1, <3>1 DEF GpuTypeOK, KernelInv
    <2>4. HostInv' /\ SkipInv'
      BY DEF HostInv, SkipInv
    <2> QED BY <2>2, <2>3, <2>4
  <1>4. CASE SetUp
    BY <1>4 DEF SetUp, deviceVars, GpuTypeOK, KernelInv, HostInv, SkipInv, Low
  <1>5. CASE HostStops
    BY <1>5 DEF HostStops, deviceVars, GpuTypeOK, KernelInv, HostInv, SkipInv, Low, GpuEnds
  <1>6. CASE Launch
    BY <1>6 DEF Launch, GpuTypeOK, KernelInv, HostInv, SkipInv, Low
  <1>7. CASE Finish
    <2> USE <1>7 DEF Finish, deviceVars
    <2>1. gtotal' \in Counter /\ gtotal <= gtotal'
      <3>1. gtotal \in Nat /\ gtotal < Space /\ Global \in Nat
        BY SpaceAssumption, GlobalType DEF GpuTypeOK, Counter
      <3> QED BY <3>1, SpaceAssumption, SMT DEF Saturated, Counter
    <2>2. GpuTypeOK'
      BY <2>1 DEF GpuTypeOK
    <2>3. KernelInv' /\ SkipInv'
      BY DEF KernelInv, SkipInv, Low
    <2>4. HostInv'
      <3>1. gtotal \in Int /\ greported \in Int /\ gtotal' \in Int
        BY <2>1, SpaceAssumption DEF GpuTypeOK, Counter
      <3> QED BY <2>1, <3>1 DEF HostInv
    <2> QED BY <2>2, <2>3, <2>4
  <1>8. CASE Verify
    <2> USE <1>8 DEF Verify, deviceVars
    <2>1. nonceLow \in Winning
      BY DEF GpuTypeOK, KernelInv
    <2>2. gpc' = "found" /\ gresult' = [nonce |-> nonceLow, hashes |-> gtotal]
      BY <2>1
    <2>3. nonceLow # None /\ nonceLow \in Counter
      BY <2>1, SpaceAssumption DEF Winning
    <2>4. GpuTypeOK'
      BY <2>2, <2>3 DEF GpuTypeOK, GpuEnds
    <2>5. KernelInv' /\ SkipInv'
      BY <2>2 DEF KernelInv, SkipInv, Low
    <2>6. HostInv'
      BY <2>1, <2>2, <2>3 DEF HostInv
    <2> QED BY <2>4, <2>5, <2>6
  <1>9. CASE Advance
    <2> USE <1>9 DEF Advance, deviceVars
    <2>1. gcounter' = Low(Global) /\ Low(Global) \in Counter
      BY LowType DEF Low
    <2>2. GpuTypeOK'
      BY <2>1 DEF GpuTypeOK
    <2>3. KernelInv'
      BY DEF KernelInv
    <2>4. HostInv'
      BY SpaceAssumption DEF HostInv, GpuTypeOK, Counter
    <2>5. SkipInv'
      <3>1. \A i \in Item : Low(i) \notin Winning
        BY DEF KernelInv
      <3>2. \A c \in Counter : c < gcounter => c \notin Winning
        BY DEF SkipInv
      <3> QED BY <2>1, <3>1, <3>2, BatchCovers DEF SkipInv
    <2> QED BY <2>2, <2>3, <2>4, <2>5
  <1>10. CASE OpenClFails
    BY <1>10 DEF OpenClFails, deviceVars, GpuTypeOK, KernelInv, HostInv, SkipInv, Low, GpuEnds
  <1>11. CASE GpuStop
    BY <1>11 DEF GpuStop, hostVars, deviceVars, GpuTypeOK, KernelInv, HostInv, SkipInv, Low
  <1>12. CASE UNCHANGED gpuVars
    BY <1>12 DEF gpuVars, hostVars, deviceVars, GpuTypeOK, KernelInv, HostInv, SkipInv, Low
  <1> QED
    BY <1>1, <1>2, <1>3, <1>4, <1>5, <1>6, <1>7, <1>8, <1>9, <1>10, <1>11, <1>12
    DEF GpuNext, ItemStep, HostStep, GpuEnded

\* The invariant holds of every behaviour of a GPU run.
THEOREM GpuInvariance == GpuSpec => []GpuInv
  <1>1. GpuInit => GpuInv
    BY GpuInitInv
  <1>2. GpuInv /\ [GpuNext]_gpuVars => GpuInv'
    BY GpuNextInv
  <1> QED BY <1>1, <1>2, PTL DEF GpuSpec

-----------------------------------------------------------------------------
(* What a GPU run counts. *)

\* The items of the batch that have hashed.
Hashed == {i \in Item : item[i] \in {"store", "done"}}

\* Batches that are over are counted in full.  All of their items hashed, except in the one
\* that found a nonce; of the current one ghashed has what was hashed so far.
CountInv ==
  /\ Cardinality(Hashed) <= ghashed
  /\ gpc \in {"setup", "top", "stopped"} => gtotal = Saturated(ghashed)
  /\ gpc = "kernel" => gtotal = Saturated(ghashed - Cardinality(Hashed))
  /\ gpc \in {"read", "found"} => gtotal = Saturated(ghashed - Cardinality(Hashed) + Global)
  /\ gpc = "found" => 1 <= Cardinality(Hashed)

\* A batch has as many items as it has counters.
LEMMA ItemFinite == IsFiniteSet(Item) /\ Cardinality(Item) = Global
  <1>1. 0 \in Int /\ Global - 1 \in Int /\ ~(0 > Global - 1)
    BY GlobalType
  <1>2. IsFiniteSet(0..(Global - 1)) /\ Cardinality(0..(Global - 1)) = Global - 1 - 0 + 1
    BY <1>1, FS_Interval
  <1> QED BY <1>2, GlobalType DEF Item

\* The items that have hashed are between none and all of them.
LEMMA HashedType ==
  /\ IsFiniteSet(Hashed) /\ Cardinality(Hashed) \in Nat /\ Cardinality(Hashed) <= Global
  /\ (\E i \in Item : item[i] \in {"store", "done"}) => 1 <= Cardinality(Hashed)
  /\ (\A i \in Item : item[i] \in {"store", "done"}) => Cardinality(Hashed) = Global
  <1>1. Hashed \in SUBSET Item
    BY DEF Hashed
  <1>2. IsFiniteSet(Hashed) /\ Cardinality(Hashed) <= Cardinality(Item)
    BY <1>1, ItemFinite, FS_Subset
  <1>3. Cardinality(Hashed) \in Nat
    BY <1>2, FS_CardinalityType
  <1>4. (\E i \in Item : item[i] \in {"store", "done"}) => Cardinality(Hashed) # 0
    BY <1>2, FS_EmptySet DEF Hashed
  <1>5. (\A i \in Item : item[i] \in {"store", "done"}) => Hashed = Item
    BY DEF Hashed
  <1> QED BY <1>2, <1>3, <1>4, <1>5, ItemFinite

\* An item that hashes is one more.
LEMMA HashedOneMore ==
  ASSUME GpuTypeOK, NEW i \in Item, ItemHashes(i)
  PROVE  Cardinality(Hashed)' = Cardinality(Hashed) + 1
  <1>1. item'[i] \in {"store", "done"} /\ \A j \in Item : j # i => item'[j] = item[j]
    BY DEF ItemHashes, Becomes, GpuTypeOK
  <1>2. i \notin Hashed
    BY DEF Hashed, ItemHashes
  <1>3. Hashed' = Hashed \cup {i}
    BY <1>1 DEF Hashed
  <1>4. Cardinality(Hashed \cup {i}) = Cardinality(Hashed) + 1
    BY <1>2, HashedType, FS_AddElement
  <1> QED BY <1>3, <1>4

\* A run starts with nothing counted.
LEMMA InitCount == GpuInit => CountInv
  <1> SUFFICES ASSUME GpuInit PROVE CountInv
    OBVIOUS
  <1>1. Hashed = {}
    BY DEF GpuInit, Hashed
  <1>2. Cardinality(Hashed) = 0
    BY <1>1, FS_EmptySet
  <1>3. Saturated(0) = 0
    BY SaturatedType, SpaceAssumption
  <1> QED BY <1>2, <1>3 DEF GpuInit, CountInv

\* A step that changes neither items nor hashes keeps the count if the host does.
LEMMA CountSame ==
  ASSUME CountInv, UNCHANGED <<item, ghashed, gtotal>>, gpc' \in {gpc, "failed"}
  PROVE  CountInv'
  <1>1. Hashed' = Hashed
    BY DEF Hashed
  <1> QED BY <1>1 DEF CountInv

\* Every step keeps the count.
LEMMA NextCount == GpuInv /\ CountInv /\ [GpuNext]_gpuVars => CountInv'
  <1> SUFFICES ASSUME GpuInv, CountInv, [GpuNext]_gpuVars PROVE CountInv'
    OBVIOUS
  <1> USE DEF GpuInv
  <1> DEFINE n == Cardinality(Hashed)
  <1>0. n \in Nat /\ ghashed \in Nat /\ n <= ghashed /\ ghashed - n \in Nat
    BY HashedType DEF GpuTypeOK, CountInv
  <1>1. ASSUME NEW i \in Item, ItemLooks(i) PROVE CountInv'
    <2>1. Hashed' = Hashed
      BY <1>1 DEF ItemLooks, Becomes, GpuTypeOK, Hashed
    <2> QED BY <1>1, <2>1 DEF ItemLooks, hostVars, CountInv
  <1>2. ASSUME NEW i \in Item, ItemHashes(i) PROVE CountInv'
    <2>1. Cardinality(Hashed)' = n + 1
      BY <1>2, HashedOneMore
    <2>2. ghashed' = ghashed + 1 /\ UNCHANGED <<gpc, gtotal>>
      BY <1>2 DEF ItemHashes, hostVars
    <2>3. gpc \in {"kernel", "failed"}
      BY <1>2 DEF ItemHashes, GpuTypeOK, KernelInv
    <2>4. (ghashed + 1) - (n + 1) = ghashed - n /\ n + 1 <= ghashed + 1
      BY <1>0
    <2> QED BY <2>1, <2>2, <2>3, <2>4 DEF CountInv
  <1>3. ASSUME NEW i \in Item, ItemStores(i) PROVE CountInv'
    <2>1. Hashed' = Hashed
      BY <1>3 DEF ItemStores, Becomes, GpuTypeOK, Hashed
    <2> QED BY <1>3, <2>1 DEF ItemStores, hostVars, CountInv
  <1>4. CASE SetUp \/ HostStops
    <2>1. Hashed' = Hashed
      BY <1>4 DEF SetUp, HostStops, deviceVars, Hashed
    <2> QED BY <1>4, <2>1 DEF SetUp, HostStops, deviceVars, CountInv
  <1>5. CASE Launch
    <2>1. Hashed' = {}
      BY <1>5 DEF Launch, Hashed
    <2>2. Cardinality(Hashed)' = 0
      BY <2>1, FS_EmptySet
    <2>3. ghashed - 0 = ghashed /\ 0 <= ghashed
      BY <1>0
    <2> QED BY <1>5, <2>2, <2>3 DEF Launch, CountInv
  <1>6. CASE Finish
    <2>1. Hashed' = Hashed
      BY <1>6 DEF Finish, deviceVars, Hashed
    <2>2. gtotal = Saturated(ghashed - n)
      BY <1>6 DEF Finish, CountInv
    <2>3. Saturated(gtotal + Global) = Saturated(ghashed - n + Global)
      BY <1>0, <2>2, SaturatedType, GlobalType
    <2> QED BY <1>0, <1>6, <2>1, <2>3 DEF Finish, deviceVars, CountInv
  <1>7. CASE Verify
    <2>1. Hashed' = Hashed
      BY <1>7 DEF Verify, deviceVars, Hashed
    <2>2. \E i \in Item : item[i] \in {"store", "done"}
      BY <1>7 DEF Verify, GpuTypeOK, KernelInv
    <2>3. 1 <= n
      BY <2>2, HashedType
    <2> QED BY <1>0, <1>7, <2>1, <2>3 DEF Verify, deviceVars, CountInv
  <1>8. CASE Advance
    <2>1. Hashed' = Hashed
      BY <1>8 DEF Advance, deviceVars, Hashed
    <2>2. \A i \in Item : item[i] \in {"store", "done"}
      BY <1>8 DEF Advance, KernelInv
    <2>3. n = Global
      BY <2>2, HashedType
    <2>4. ghashed - n + Global = ghashed
      BY <1>0, <2>3
    <2> QED BY <1>0, <1>8, <2>1, <2>4 DEF Advance, deviceVars, CountInv
  <1>9. CASE OpenClFails \/ GpuStop \/ UNCHANGED gpuVars
    BY <1>9, CountSame DEF OpenClFails, GpuStop, gpuVars, hostVars, deviceVars
  <1> QED
    BY <1>1, <1>2, <1>3, <1>4, <1>5, <1>6, <1>7, <1>8, <1>9
    DEF GpuNext, ItemStep, HostStep, GpuEnded

-----------------------------------------------------------------------------
(* Theorems of a GPU run. *)

\* Every variable of a GPU run has its type: the counter wraps, the count saturates.
THEOREM GpuTypeCorrect == GpuSpec => []GpuTypeOK
  <1>1. GpuInv => GpuTypeOK
    BY DEF GpuInv
  <1> QED BY <1>1, GpuInvariance, PTL

\* The nonce that the host reads when the flag is up was stored by an item of the batch that
\* is below the target, so its own hash agrees.
THEOREM KernelIsVerified == GpuSpec => []NoFalsePositive
  <1>1. GpuInv => NoFalsePositive
    BY DEF GpuInv, HostInv, NoFalsePositive
  <1> QED BY <1>1, GpuInvariance, PTL

\* A batch that found nothing has tried all its counters, and the next one starts right
\* behind it.
THEOREM BatchesPassNoWinner == GpuSpec => []BatchesSkipNone
  <1>1. GpuInv => BatchesSkipNone
    BY DEF GpuInv, SkipInv, BatchesSkipNone
  <1> QED BY <1>1, GpuInvariance, PTL

\* The count of a GPU run is off by less than a batch, and exact if nothing was found.
THEOREM CountIsWithinBatch == GpuSpec => []CountWithinBatch
  <1>1. GpuInit => GpuInv /\ CountInv
    BY GpuInitInv, InitCount
  <1>2. GpuInv /\ CountInv /\ [GpuNext]_gpuVars => (GpuInv /\ CountInv)'
    BY GpuNextInv, NextCount
  <1>3. GpuInv /\ CountInv => CountWithinBatch
    <2> SUFFICES ASSUME GpuInv, CountInv PROVE CountWithinBatch
      OBVIOUS
    <2> DEFINE n == Cardinality(Hashed)
    <2>1. n \in Nat /\ ghashed \in Nat /\ n <= ghashed /\ n <= Global
      BY HashedType DEF GpuInv, GpuTypeOK, CountInv
    <2>2. ASSUME gpc = "found", gresult.hashes < Space - 1
          PROVE  ghashed <= gresult.hashes /\ gresult.hashes < ghashed + Global
      <3>1. gresult.hashes = Saturated(ghashed - n + Global) /\ 1 <= n
        BY <2>2 DEF GpuInv, HostInv, CountInv
      <3> HIDE DEF n
      <3>2. ghashed - n + Global \in Int
        BY <2>1, GlobalType
      <3>3. gresult.hashes = ghashed - n + Global
        BY <2>2, <3>1, <3>2, SpaceAssumption, SMT DEF Saturated
      <3> QED BY <2>1, <3>1, <3>3, GlobalType
    <2>3. gpc = "stopped" => gresult.hashes = Saturated(ghashed)
      BY DEF GpuInv, HostInv, CountInv
    <2> QED BY <2>2, <2>3 DEF CountWithinBatch
  <1> QED BY <1>1, <1>2, <1>3, PTL DEF GpuSpec

-----------------------------------------------------------------------------
(* A stop costs a GPU a batch. *)

\* Steps that the host has left, if the stop flag is up, and that work item i has.
HostLeft ==
  CASE gpc = "kernel" -> 3 [] gpc \in {"setup", "read"} -> 2 [] gpc = "top" -> 1 [] OTHER -> 0
ItemLeft(i) ==
  CASE item[i] = "queued" -> 3 [] item[i] = "hash" -> 2 [] item[i] = "store" -> 1 [] OTHER -> 0

\* Once the flag is up no step takes the host or an item further from its end: no batch is launched.
GpuStopCloser ==
  stop => /\ gpc' = gpc \/ HostLeft' < HostLeft
          /\ \A i \in Item : item'[i] = item[i] \/ ItemLeft(i)' < ItemLeft(i)

\* While the host waits for a batch some item can go on, or all of them have returned.
GpuNeverStuck ==
  gpc = "kernel" => \/ \A i \in Item : item[i] \in {"done", "left"}
                    \/ \E i \in Item : item[i] \in {"queued", "hash", "store"}

\* After a stop a GPU run ends with the batch it is in, also when work items race for the flag, and
\* the host never waits for an item that cannot go on.
THEOREM GpuStopCostsABatch == GpuSpec => []GpuNeverStuck /\ [][GpuStopCloser]_gpuVars
  <1>1. GpuInv => GpuNeverStuck
    BY DEF GpuInv, GpuTypeOK, KernelInv, GpuNeverStuck
  <1>2. GpuInv /\ [GpuNext]_gpuVars => [GpuStopCloser]_gpuVars
    <2> SUFFICES ASSUME GpuInv, GpuNext, stop PROVE GpuStopCloser
      BY DEF GpuStopCloser
    <2>1. item \in [Item -> {"none", "queued", "hash", "store", "done", "left"}]
      BY DEF GpuInv, GpuTypeOK
    <2>2. ASSUME NEW j \in Item, ItemStep(j) PROVE GpuStopCloser
      <3>1. gpc' = gpc
        BY <2>2 DEF ItemStep, ItemLooks, ItemHashes, ItemStores, hostVars
      <3>2. \A i \in Item : i # j => item'[i] = item[i]
        BY <2>1, <2>2 DEF ItemStep, ItemLooks, ItemHashes, ItemStores, Becomes
      <3>3. \/ item[j] = "queued" /\ item'[j] \in {"hash", "left"}
            \/ item[j] = "hash" /\ item'[j] \in {"store", "done"}
            \/ item[j] = "store" /\ item'[j] = "done"
        BY <2>1, <2>2 DEF ItemStep, ItemLooks, ItemHashes, ItemStores, Becomes
      <3>4. ItemLeft(j)' < ItemLeft(j)
        <4>1. /\ item[j] = "queued" => ItemLeft(j) = 3
              /\ item[j] = "hash" => ItemLeft(j) = 2
              /\ item[j] = "store" => ItemLeft(j) = 1
          BY DEF ItemLeft
        <4>2. /\ item'[j] = "hash" => ItemLeft(j)' = 2
              /\ item'[j] = "store" => ItemLeft(j)' = 1
              /\ item'[j] \in {"done", "left"} => ItemLeft(j)' = 0
          BY DEF ItemLeft
        <4> QED BY <3>3, <4>1, <4>2
      <3> QED BY <3>1, <3>2, <3>4 DEF GpuStopCloser
    <2>3. CASE HostStep \/ OpenClFails \/ GpuStop \/ GpuEnded
      <3>1. item' = item
        BY <2>3 DEF HostStep, SetUp, HostStops, Launch, Finish, Verify, Advance, OpenClFails, GpuStop,
                    GpuEnded, deviceVars, gpuVars
      <3>2. \/ gpc' = gpc
            \/ gpc = "setup" /\ gpc' = "top"
            \/ gpc = "top" /\ gpc' \in GpuEnds
            \/ gpc = "kernel" /\ gpc' = "read"
            \/ gpc = "read" /\ gpc' \in GpuEnds \cup {"top"}
            \/ gpc \in {"setup", "kernel", "read"} /\ gpc' = "failed"
        BY <2>3 DEF HostStep, SetUp, HostStops, Launch, Finish, Verify, Advance, OpenClFails, GpuStop,
                    GpuEnded, gpuVars, hostVars, GpuEnds, GpuInv, GpuTypeOK
      <3>3. /\ gpc = "kernel" => HostLeft = 3
            /\ gpc \in {"setup", "read"} => HostLeft = 2
            /\ gpc = "top" => HostLeft = 1
        BY DEF HostLeft
      <3>4. /\ gpc' = "read" => HostLeft' = 2
            /\ gpc' = "top" => HostLeft' = 1
            /\ gpc' \in GpuEnds => HostLeft' = 0
        BY DEF HostLeft, GpuEnds
      <3>5. gpc' = gpc \/ HostLeft' < HostLeft
        BY <3>2, <3>3, <3>4 DEF GpuEnds
      <3> QED BY <3>1, <3>5 DEF GpuStopCloser
    <2> QED BY <2>2, <2>3 DEF GpuNext
  <1> QED BY <1>1, <1>2, GpuInvariance, PTL DEF GpuSpec

-----------------------------------------------------------------------------
(* A run is a CPU run and a GPU run, one of which does nothing but see the stop flag. *)

ModeInv ==
  /\ mode \in {"cpu", "gpu"}
  /\ mode = "cpu" => gpc = "setup"
  /\ mode = "gpu" => mpc = "tasks"

\* The mode is fixed, and the other kind of run never leaves its first line.
LEMMA ModeInvariance == RunSpec => []ModeInv
  <1>1. RunInit => ModeInv
    BY DEF RunInit, Init, GpuInit, ModeInv
  <1>2. ModeInv /\ [RunNext]_runVars => ModeInv'
    BY DEF ModeInv, RunNext, OnCpu, OnGpu, InMode, cpuOnly, gpuOnly, hostVars,
           runVars, vars, gpuVars
  <1> QED BY <1>1, <1>2, PTL DEF RunSpec

\* A step that changes the flag raises it.
LEMMA StopRaised ==
  /\ Next => UNCHANGED stop \/ Stop
  /\ GpuNext => UNCHANGED stop \/ GpuStop
  <1>1. Next => UNCHANGED stop \/ Stop
    BY DEF Next, TaskStep, Schedule, Check, Hash, Swap, FillSlot, AddHashes, Report, JoinTasks,
           Return, Terminated, vars
  <1>2. GpuNext => UNCHANGED stop \/ GpuStop
    BY DEF GpuNext, ItemStep, ItemLooks, ItemHashes, ItemStores, HostStep, SetUp, HostStops,
           Launch, Finish, Verify, Advance, OpenClFails, GpuEnded, gpuVars
  <1> QED BY <1>1, <1>2

\* What the CPU side of a run does is a behaviour of CpuGrind.
THEOREM RunIsCpuGrind == RunSpec => Spec
  <1>1. RunInit => Init
    BY DEF RunInit
  <1>2. ModeInv /\ [RunNext]_runVars => [Next]_vars
    <2> SUFFICES ASSUME ModeInv, [RunNext]_runVars PROVE [Next]_vars
      OBVIOUS
    <2>1. CASE OnCpu(Next)
      BY <2>1 DEF OnCpu, InMode
    <2>2. CASE OnGpu(GpuNext)
      <3>1. UNCHANGED cpuOnly /\ (UNCHANGED stop \/ GpuStop) /\ mpc = "tasks"
        BY <2>2, StopRaised DEF OnGpu, InMode, ModeInv
      <3>2. CASE UNCHANGED stop
        BY <3>1, <3>2 DEF cpuOnly, vars
      <3>3. CASE GpuStop
        <4>1. Stop
          BY <3>1, <3>3 DEF cpuOnly, GpuStop, Stop, RunFrame
        <4> QED BY <4>1 DEF Next
      <3> QED BY <3>1, <3>2, <3>3
    <2>3. CASE UNCHANGED runVars
      BY <2>3 DEF runVars
    <2> QED BY <2>1, <2>2, <2>3 DEF RunNext
  <1> QED BY <1>1, <1>2, ModeInvariance, PTL DEF RunSpec, Spec

\* What the GPU side of a run does is a behaviour of GpuGrind.
THEOREM RunIsGpuGrind == RunSpec => GpuSpec
  <1>1. RunInit => GpuInit
    BY DEF RunInit
  <1>2. ModeInv /\ [RunNext]_runVars => [GpuNext]_gpuVars
    <2> SUFFICES ASSUME ModeInv, [RunNext]_runVars PROVE [GpuNext]_gpuVars
      OBVIOUS
    <2>1. CASE OnGpu(GpuNext)
      BY <2>1 DEF OnGpu, InMode
    <2>2. CASE OnCpu(Next)
      <3>1. UNCHANGED gpuOnly /\ (UNCHANGED stop \/ Stop) /\ gpc = "setup"
        BY <2>2, StopRaised DEF OnCpu, InMode, ModeInv
      <3>2. CASE UNCHANGED stop
        BY <3>1, <3>2 DEF gpuOnly, gpuVars
      <3>3. CASE Stop
        <4>1. GpuStop
          BY <3>1, <3>3 DEF gpuOnly, GpuStop, Stop, GpuEnds
        <4> QED BY <4>1 DEF GpuNext
      <3> QED BY <3>1, <3>2, <3>3
    <2>3. CASE UNCHANGED runVars
      BY <2>3 DEF runVars
    <2> QED BY <2>1, <2>2, <2>3 DEF RunNext
  <1> QED BY <1>1, <1>2, ModeInvariance, PTL DEF RunSpec, GpuSpec

-----------------------------------------------------------------------------
(* A run keeps what GrindPromise says. *)

\* As long as neither kind of run has ended, the answer is still out.
LEMMA AnswerOut ==
  /\ mode = "cpu" /\ mpc # "returned" => Answer = Promise!Running
  /\ mode = "gpu" /\ gpc \notin GpuEnds => Answer = Promise!Running
  BY DEF Answer, Promise!Running, GpuEnds

\* Nothing that the run thread sees has changed.
SeenSame == UNCHANGED <<mode, stop, reported, greported, mpc, gpc, result, gresult>>

LEMMA SeenSameStutters == SeenSame => UNCHANGED Promise!vars
  BY DEF SeenSame, Promise!vars, Answer, Outcome

\* Every step of a CPU run is a step of the promise.
LEMMA CpuPromise == ASSUME IInv, OnCpu(Next) PROVE [Promise!Next]_Promise!vars
  <1> USE DEF OnCpu, InMode, gpuOnly, hostVars
  <1>1. ASSUME NEW t \in Task, TaskStep(t) PROVE SeenSame
    BY <1>1 DEF SeenSame, TaskStep, Schedule, Check, Hash, Swap, FillSlot, AddHashes, RunFrame
  <1>2. CASE Stop
    <2>1. Answer' = Answer
      BY <1>2 DEF Stop, RunFrame, Answer, Outcome
    <2> QED BY <1>2, <2>1 DEF Stop, RunFrame, Promise!Next, Promise!Raise
  <1>3. CASE Report
    <2>1. Answer = Promise!Running /\ Answer' = Answer
      BY <1>3, AnswerOut DEF Report, IInv, ReportInv, Answer, Outcome
    <2>2. reported' >= reported /\ stop' = stop
      BY <1>3 DEF Report, IInv, TypeOK, ReportInv
    <2> QED BY <2>1, <2>2 DEF Promise!Next, Promise!Tell
  <1>4. CASE JoinTasks
    <2>1. Answer' = Answer
      BY <1>4 DEF JoinTasks, Answer, Outcome
    <2> QED BY <1>4, <2>1 DEF JoinTasks, Promise!vars
  <1>5. CASE Return
    <2>1. Answer = Promise!Running /\ UNCHANGED <<mode, stop, reported>>
      BY <1>5, AnswerOut DEF Return
    <2>2. Answer' = Outcome(IF slot = None THEN "stopped" ELSE "found",
                            [nonce |-> slot, hashes |-> total])
      BY <1>5 DEF Return, Answer, Outcome
    <2>3. reported <= total /\ total \in Nat /\ reported \in Nat
      BY DEF IInv, ReportInv, TypeOK
    <2>4. CASE slot = None
      <3>1. stop
        <4>1. 0 \in Task
          BY TasksAssumption, SMT DEF Task
        <4> QED BY <1>5, <2>4, <4>1 DEF Return, IInv, FinderInv, SlotInv
      <3>2. Promise!Returns("stopped", None)
        BY <2>1, <2>2, <2>3, <2>4 DEF Promise!Returns, Outcome
      <3> QED BY <3>1, <3>2 DEF Promise!Next, Promise!GiveUp
    <2>5. CASE slot # None
      <3>1. slot \in Winning
        BY <2>5 DEF IInv, SlotInv
      <3>2. Promise!Returns("found", slot)
        BY <2>1, <2>2, <2>3, <2>5 DEF Promise!Returns, Outcome
      <3>3. Promise!Winning = Winning
        BY DEF Promise!Winning, Winning, Promise!Counter, Counter,
               Promise!IsBelowTargetBe, IsBelowTargetBe
      <3> QED BY <3>1, <3>2, <3>3 DEF Promise!Next, Promise!Find
    <2> QED BY <2>4, <2>5
  <1>6. CASE Terminated
    BY <1>6, SeenSameStutters DEF Terminated, vars, SeenSame
  <1> QED BY <1>1, <1>2, <1>3, <1>4, <1>5, <1>6, SeenSameStutters DEF Next

\* Every step of a GPU run is a step of the promise.
LEMMA GpuPromise == ASSUME GpuInv, GpuInv', OnGpu(GpuNext) PROVE [Promise!Next]_Promise!vars
  <1> USE DEF OnGpu, InMode, cpuOnly
  <1>1. ASSUME NEW i \in Item, ItemStep(i) PROVE SeenSame
    BY <1>1 DEF SeenSame, ItemStep, ItemLooks, ItemHashes, ItemStores, hostVars
  <1>2. CASE SetUp \/ Launch \/ Finish
    <2>1. UNCHANGED <<mode, stop, greported>>
      BY <1>2 DEF SetUp, Launch, Finish
    <2>2. Answer = Promise!Running /\ Answer' = Promise!Running
      BY <1>2, AnswerOut DEF SetUp, Launch, Finish, GpuEnds, Answer, Promise!Running
    <2> QED BY <2>1, <2>2 DEF Promise!vars
  <1>3. CASE HostStops
    <2>1. Answer = Promise!Running /\ UNCHANGED <<mode, stop, greported>>
      BY <1>3, AnswerOut DEF HostStops, GpuEnds
    <2>2. Answer' = Outcome("stopped", [nonce |-> None, hashes |-> gtotal])
      BY <1>3 DEF HostStops, Answer, Outcome
    <2>3. gtotal >= greported
      BY SpaceAssumption DEF GpuInv, GpuTypeOK, HostInv, Counter
    <2>4. Promise!Returns("stopped", None)
      BY <2>1, <2>2, <2>3 DEF Promise!Returns, Outcome
    <2> QED BY <1>3, <2>4 DEF HostStops, Promise!Next, Promise!GiveUp
  <1>4. CASE Verify
    <2>1. Answer = Promise!Running /\ UNCHANGED <<mode, stop, greported>>
      BY <1>4, AnswerOut DEF Verify, GpuEnds
    <2>2. nonceLow \in Winning /\ gpc' = "found"
          /\ gresult' = [nonce |-> nonceLow, hashes |-> gtotal]
      BY <1>4 DEF Verify, GpuInv, HostInv
    <2>3. Answer' = Outcome("found", [nonce |-> nonceLow, hashes |-> gtotal])
      BY <1>4, <2>2 DEF Answer, Outcome
    <2>4. gtotal >= greported
      BY SpaceAssumption DEF GpuInv, GpuTypeOK, HostInv, Counter
    <2>5. Promise!Returns("found", nonceLow)
      BY <2>1, <2>3, <2>4 DEF Promise!Returns, Outcome
    <2>6. Promise!Winning = Winning
      BY DEF Promise!Winning, Winning, Promise!Counter, Counter,
             Promise!IsBelowTargetBe, IsBelowTargetBe
    <2> QED BY <2>2, <2>5, <2>6 DEF Promise!Next, Promise!Find
  <1>5. CASE Advance
    <2>1. Answer = Promise!Running /\ Answer' = Promise!Running
      BY <1>5, AnswerOut DEF Advance, GpuEnds, Answer, Promise!Running
    <2>2. greported' >= greported /\ UNCHANGED <<mode, stop>>
      BY <1>5, SpaceAssumption DEF Advance, GpuInv, GpuTypeOK, HostInv, Counter
    <2> QED BY <2>1, <2>2 DEF Promise!Next, Promise!Tell
  <1>6. CASE OpenClFails
    <2>1. Answer = Promise!Running /\ UNCHANGED <<mode, stop, greported>>
      BY <1>6, AnswerOut DEF OpenClFails
    <2>2. Answer' = Promise!Failed
      BY <1>6 DEF OpenClFails, Answer, Promise!Failed
    <2> QED BY <2>1, <2>2 DEF Promise!Next, Promise!Fail
  <1>7. CASE GpuStop
    <2>1. Answer' = Answer
      BY <1>7 DEF GpuStop, hostVars, Answer, Outcome
    <2> QED BY <1>7, <2>1 DEF GpuStop, hostVars, Promise!Next, Promise!Raise
  <1>8. CASE GpuEnded
    BY <1>8, SeenSameStutters DEF GpuEnded, gpuVars, hostVars, SeenSame
  <1> QED
    BY <1>1, <1>2, <1>3, <1>4, <1>5, <1>6, <1>7, <1>8, SeenSameStutters DEF GpuNext, HostStep

\* Whatever tasks, reporter, work items and host do, a run tells counts that do not fall and
\* ends with a winner, by its flag or, on a GPU, by an error.
THEOREM RunKeepsPromise == RunSpec => KeepsPromise
  <1>1. RunInit => Promise!Init
    <2> SUFFICES ASSUME RunInit PROVE Promise!Init
      OBVIOUS
    <2>1. Answer = Promise!Running
      BY AnswerOut DEF RunInit, Init, GpuInit, GpuEnds
    <2> QED BY <2>1 DEF RunInit, Init, GpuInit, Promise!Init
  <1>2. IInv /\ GpuInv /\ GpuInv' /\ [RunNext]_runVars => [Promise!Next]_Promise!vars
    <2> SUFFICES ASSUME IInv, GpuInv, GpuInv', [RunNext]_runVars
                 PROVE  [Promise!Next]_Promise!vars
      OBVIOUS
    <2>1. CASE UNCHANGED runVars
      BY <2>1, SeenSameStutters DEF runVars, vars, gpuVars, hostVars, SeenSame
    <2> QED BY <2>1, CpuPromise, GpuPromise DEF RunNext
  <1> QED
    BY <1>1, <1>2, RunIsCpuGrind, RunIsGpuGrind, Invariance, GpuInvariance, PTL
    DEF RunSpec, KeepsPromise, Promise!Spec

-----------------------------------------------------------------------------
(* Theorems of a run, from those of its two kinds. *)

\* Every variable of a run has its type.
THEOREM RunTypeCorrect == RunSpec => []RunTypeOK
  <1>1. ModeInv /\ TypeOK /\ GpuTypeOK => RunTypeOK
    BY DEF ModeInv, RunTypeOK
  <1> QED BY <1>1, ModeInvariance, RunIsCpuGrind, RunIsGpuGrind, TypeCorrect, GpuTypeCorrect, PTL

\* No kind of run passes a winner over.
THEOREM RunSkipsNone == RunSpec => []NoneSkipped
  <1>1. TasksSkipNone /\ BatchesSkipNone => NoneSkipped
    BY DEF NoneSkipped
  <1> QED
    BY <1>1, RunIsCpuGrind, RunIsGpuGrind, TasksPassNoWinner, BatchesPassNoWinner, PTL

\* What was shown of the CPU's tasks and of the GPU's batches holds of the runs that
\* start_run starts.
THEOREM RunKeepsBoth ==
  RunSpec => /\ [](ReturnsForCause /\ HashesExact /\ NoFalsePositive /\ CountWithinBatch)
             /\ SlotWrittenOnce
  BY RunIsCpuGrind, RunIsGpuGrind, ReturnsOnlyForCause, ResultCountsEveryHash, SlotIsWrittenOnce,
     KernelIsVerified, CountIsWithinBatch, PTL
=============================================================================
