--------------------------- MODULE PipelineProofs ---------------------------
(***************************************************************************)
(* One account's worker, handler and transactions, for any capacities,     *)
(* fees, gas limits and numbers of lines and blocks.                       *)
(***************************************************************************)
EXTENDS Pipeline, SequenceTheorems, WellFoundedInduction, TLAPS

(* Arithmetic of fees and gas. *)

\* Every set of naturals that is not empty has a least member.
LEMMA Least ==
  ASSUME NEW T, T \subseteq Nat, T # {}
  PROVE  \E x \in T : \A y \in T : x <= y
<1>1. PICK x \in T : \A y \in T : <<y, x>> \notin OpToRel(<, Nat)
  BY NatLessThanWellFounded, WFMin, Zenon
<1>2. \A y \in T : ~(y < x)
  BY <1>1 DEF OpToRel
<1>. QED BY <1>2

\* What is left, k blocks after it was twice the base fee, of a difference d to the base fee b.
Fresh(k, d, b) ==
  /\ k = 0 => 2 * b <= d
  /\ k = 1 => 16 * b <= 9 * d
  /\ k = 2 => 128 * b <= 81 * d
  /\ k = 3 => 1024 * b <= 729 * d
  /\ k = 4 => 8192 * b <= 6561 * d
  /\ k = 5 => 65536 * b <= 59049 * d

\* The base fee grows by an eighth at most.
LEMMA Grows ==
  ASSUME NEW b \in Nat \ 0..7, NEW b2 \in NextFees(b)
  PROVE  b2 \in Nat \ 0..7 /\ 8 * b2 <= 9 * b
BY DEF NextFees, Max2

\* A block costs the difference one step of the table.
LEMMA FreshNext ==
  ASSUME NEW k \in Nat, NEW d \in Int, NEW b \in Nat, NEW b2 \in Nat, 8 * b2 <= 9 * b, Fresh(k, d, b)
  PROVE  Fresh(k + 1, d, b2)
BY DEF Fresh

\* Up to five blocks on, the difference pays the base fee.
LEMMA FreshPays ==
  ASSUME NEW k \in Nat, NEW d \in Int, NEW b \in Nat, Fresh(k, d, b), k <= 5
  PROVE  b <= d
BY DEF Fresh

\* A multiplier of at least one does not make an estimate smaller.
LEMMA Margin ==
  ASSUME NEW e \in Nat, NEW n \in Nat, NEW d \in Nat \ {0}, n >= d
  PROVE  (e * n) \div d >= e /\ (e * n) \div d \in Nat
<1>1. e * n \in Nat /\ e * d \in Nat /\ e * n >= e * d
  OBVIOUS
<1>. QED BY <1>1

-----------------------------------------------------------------------------
(* Sequences of events. *)

\* A solution is on its way in a longer queue if it was, or if it is the new event.
LEMMA WayAppend ==
  ASSUME NEW q \in Seq(Event), NEW e \in Event
  PROVE  OnItsWay(Append(q, e)) <=> OnItsWay(q) \/ e.kind = "found"
<1>1. DOMAIN q = 1 .. Len(q) /\ DOMAIN Append(q, e) = 1 .. (Len(q) + 1) /\ Len(q) \in Nat
  OBVIOUS
<1>2. /\ \A i \in 1 .. Len(q) : Append(q, e)[i] = q[i]
      /\ Append(q, e)[Len(q) + 1] = e
  OBVIOUS
<1>. QED BY <1>1, <1>2 DEF OnItsWay

\* A solution on its way is the first event or behind it.
LEMMA WayTail ==
  ASSUME NEW q \in Seq(Event), q # <<>>
  PROVE  OnItsWay(q) <=> Head(q).kind = "found" \/ OnItsWay(Tail(q))
<1>1. /\ DOMAIN q = 1 .. Len(q) /\ Len(q) \in Nat \ {0} /\ DOMAIN Tail(q) = 1 .. (Len(q) - 1)
      /\ Head(q) = q[1]
  OBVIOUS
<1>2. \A i \in 1 .. (Len(q) - 1) : Tail(q)[i] = q[i + 1]
  OBVIOUS
<1>3. OnItsWay(Tail(q)) <=> \E i \in 2 .. Len(q) : q[i].kind = "found"
  <2>1. ASSUME NEW i \in 2 .. Len(q), q[i].kind = "found" PROVE OnItsWay(Tail(q))
    <3>1. i - 1 \in 1 .. (Len(q) - 1) /\ Tail(q)[i - 1] = q[i]
      BY <1>1, <1>2
    <3>. QED BY <3>1, <2>1, <1>1 DEF OnItsWay
  <2>2. ASSUME NEW i \in DOMAIN Tail(q), Tail(q)[i].kind = "found"
        PROVE \E j \in 2 .. Len(q) : q[j].kind = "found"
    <3>1. i + 1 \in 2 .. Len(q) /\ Tail(q)[i] = q[i + 1]
      BY <1>1, <1>2
    <3>. QED BY <3>1, <2>2
  <2>. QED BY <2>1, <2>2 DEF OnItsWay
<1>4. OnItsWay(q) <=> q[1].kind = "found" \/ \E i \in 2 .. Len(q) : q[i].kind = "found"
  BY <1>1 DEF OnItsWay
<1>. QED BY <1>1, <1>3, <1>4

-----------------------------------------------------------------------------
\* The numbers of a queue of events are a sequence of the same length.
LEMMA IdsSeq ==
  ASSUME NEW w \in Nat, NEW q \in Seq([id : 0 .. w, kind : LineKinds])
  PROVE  /\ Ids(q) \in Seq(0 .. w) /\ Len(Ids(q)) = Len(q) /\ Len(q) \in Nat
         /\ \A i \in 1 .. Len(q) : Ids(q)[i] = q[i].id
<1>1. DOMAIN q = 1 .. Len(q) /\ Len(q) \in Nat /\ \A i \in 1 .. Len(q) : q[i].id \in 0 .. w
  <2>1. \A i \in 1 .. Len(q) : q[i] \in [id : 0 .. w, kind : LineKinds]
    BY ElementOfSeq
  <2>2. DOMAIN q = 1 .. Len(q) /\ Len(q) \in Nat
    BY LenProperties
  <2>. QED BY <2>1, <2>2
<1>2. Ids(q) \in [1 .. Len(q) -> 0 .. w]
  BY <1>1 DEF Ids
<1>3. Ids(q) \in Seq(0 .. w)
  <2>1. Ids(q) \in UNION {[1 .. n -> 0 .. w] : n \in Nat}
    BY <1>1, <1>2, Zenon
  <2>2. Seq(0 .. w) = UNION {[1 .. n -> 0 .. w] : n \in Nat}
    BY SeqDef, Zenon
  <2>. QED BY <2>1, <2>2, Zenon
<1>4. Len(Ids(q)) = Len(q)
  <2>1. Len(Ids(q)) \in Nat /\ DOMAIN Ids(q) = 1 .. Len(Ids(q))
    BY <1>3, LenProperties, Zenon
  <2>2. DOMAIN Ids(q) = 1 .. Len(q)
    BY <1>2
  <2>3. \A m, n \in Nat : 1 .. m = 1 .. n => m = n
    OBVIOUS
  <2>. QED BY <1>1, <2>1, <2>2, <2>3, Zenon
<1>. QED BY <1>1, <1>3, <1>4, Zenon DEF Ids

\* Appending an event appends its number.
LEMMA IdsAppend ==
  ASSUME NEW w \in Nat, NEW q \in Seq([id : 0 .. w, kind : LineKinds]), NEW e \in [id : 0 .. w, kind : LineKinds]
  PROVE  Ids(Append(q, e)) = Append(Ids(q), e.id)
<1>. DEFINE E == [id : 0 .. w, kind : LineKinds]
<1>1. Append(q, e) \in Seq(E) /\ Len(Append(q, e)) = Len(q) + 1 /\ Len(q) \in Nat
      /\ (\A i \in 1 .. Len(q) : Append(q, e)[i] = q[i]) /\ Append(q, e)[Len(q) + 1] = e
  BY AppendProperties, LenProperties
<1>2. /\ Ids(Append(q, e)) \in Seq(0 .. w) /\ Len(Ids(Append(q, e))) = Len(q) + 1
      /\ \A i \in 1 .. (Len(q) + 1) : Ids(Append(q, e))[i] = Append(q, e)[i].id
  BY <1>1, IdsSeq
<1>3. e.id \in 0 .. w
  OBVIOUS
<1>4. /\ Append(Ids(q), e.id) \in Seq(0 .. w) /\ Len(Append(Ids(q), e.id)) = Len(q) + 1
      /\ \A i \in 1 .. Len(q) : Append(Ids(q), e.id)[i] = q[i].id
      /\ Append(Ids(q), e.id)[Len(q) + 1] = e.id
  <2>1. /\ Ids(q) \in Seq(0 .. w) /\ Len(Ids(q)) = Len(q)
        /\ \A i \in 1 .. Len(q) : Ids(q)[i] = q[i].id
    BY IdsSeq, Zenon
  <2>2. /\ Append(Ids(q), e.id) \in Seq(0 .. w) /\ Len(Append(Ids(q), e.id)) = Len(q) + 1
        /\ \A i \in 1 .. Len(q) : Append(Ids(q), e.id)[i] = Ids(q)[i]
        /\ Append(Ids(q), e.id)[Len(q) + 1] = e.id
    BY <1>3, <2>1, AppendProperties
  <2>. QED BY <2>1, <2>2, Zenon
<1>5. \A i \in 1 .. (Len(q) + 1) : Ids(Append(q, e))[i] = Append(Ids(q), e.id)[i]
  <2>1. ASSUME NEW i \in 1 .. Len(q) PROVE Ids(Append(q, e))[i] = Append(Ids(q), e.id)[i]
    <3>1. i \in 1 .. (Len(q) + 1)
      BY <1>1
    <3>. QED BY <3>1, <1>1, <1>2, <1>4
  <2>2. Ids(Append(q, e))[Len(q) + 1] = e.id
    <3>1. Len(q) + 1 \in 1 .. (Len(q) + 1)
      BY <1>1
    <3>. QED BY <3>1, <1>1, <1>2
  <2>3. \A i \in 1 .. (Len(q) + 1) : i \in 1 .. Len(q) \/ i = Len(q) + 1
    BY <1>1
  <2>. QED BY <2>1, <2>2, <2>3, <1>4
<1>. QED BY <1>2, <1>4, <1>5, SeqEqual

\* Taking an event takes its number.
LEMMA IdsTail ==
  ASSUME NEW w \in Nat, NEW q \in Seq([id : 0 .. w, kind : LineKinds]), q # <<>>
  PROVE  Ids(q) # <<>> /\ Head(Ids(q)) = Head(q).id /\ Ids(Tail(q)) = Tail(Ids(q))
<1>1. Len(q) \in Nat \ {0} /\ Tail(q) \in Seq([id : 0 .. w, kind : LineKinds]) /\ Len(Tail(q)) = Len(q) - 1
      /\ \A i \in 1 .. (Len(q) - 1) : Tail(q)[i] = q[i + 1]
  BY HeadTailProperties, EmptySeq
<1>2. Ids(q) \in Seq(0 .. w) /\ Len(Ids(q)) = Len(q) /\ \A i \in 1 .. Len(q) : Ids(q)[i] = q[i].id
  BY IdsSeq, Zenon
<1>3. Ids(q) # <<>>
  <2>1. Ids(q) \in Seq(0 .. w) /\ Len(Ids(q)) # 0
    BY <1>1, <1>2
  <2>. QED BY <2>1, EmptySeq, Zenon
<1>4. Head(Ids(q)) = Head(q).id
  <2>1. 1 \in 1 .. Len(q)
    BY <1>1
  <2>2. Ids(q)[1] = q[1].id
    BY <1>2, <2>1, Zenon
  <2>3. Head(q) = q[1]
    BY <1>1
  <2>4. Head(Ids(q)) = Ids(q)[1]
    BY <1>2, <1>3
  <2>. QED BY <2>2, <2>3, <2>4, Zenon
<1>5. /\ Tail(Ids(q)) \in Seq(0 .. w) /\ Len(Tail(Ids(q))) = Len(q) - 1
      /\ \A i \in 1 .. (Len(q) - 1) : Tail(Ids(q))[i] = Ids(q)[i + 1]
  BY <1>2, <1>3, HeadTailProperties
<1>6. /\ Ids(Tail(q)) \in Seq(0 .. w) /\ Len(Ids(Tail(q))) = Len(q) - 1
      /\ \A i \in 1 .. (Len(q) - 1) : Ids(Tail(q))[i] = q[i + 1].id
  <2>1. /\ Ids(Tail(q)) \in Seq(0 .. w) /\ Len(Ids(Tail(q))) = Len(Tail(q))
        /\ \A i \in 1 .. Len(Tail(q)) : Ids(Tail(q))[i] = Tail(q)[i].id
    BY <1>1, IdsSeq, Zenon
  <2>2. Len(Tail(q)) = Len(q) - 1
    BY <1>1
  <2>3. Ids(Tail(q)) \in Seq(0 .. w) /\ Len(Ids(Tail(q))) = Len(q) - 1
    BY <2>1, <2>2
  <2>4. ASSUME NEW i \in 1 .. (Len(q) - 1) PROVE Ids(Tail(q))[i] = q[i + 1].id
    <3>1. Ids(Tail(q))[i] = Tail(q)[i].id
      BY <2>1, <2>2
    <3>2. Tail(q)[i] = q[i + 1]
      BY <1>1
    <3>. QED BY <3>1, <3>2
  <2>. QED BY <2>3, <2>4, Zenon
<1>7. \A i \in 1 .. (Len(q) - 1) : Tail(Ids(q))[i] = Ids(Tail(q))[i]
  BY <1>1, <1>2, <1>5, <1>6
<1>8. Tail(Ids(q)) = Ids(Tail(q))
  BY <1>5, <1>6, <1>7, SeqEqual
<1>. QED BY <1>3, <1>4, <1>8

\* Dropping the head of the second of two sequences drops one entry of their concatenation.
LEMMA LoseFirst ==
  ASSUME NEW S, NEW a \in Seq(S), NEW b \in Seq(S), b # <<>>
  PROVE  LET q == a \o b  i == Len(a) + 1 IN
         i \in DOMAIN q /\ SubSeq(q, 1, i - 1) \o SubSeq(q, i + 1, Len(q)) = a \o Tail(b)
<1>. DEFINE q == a \o b  i == Len(a) + 1
<1>1. /\ Len(a) \in Nat /\ Len(b) \in Nat \ {0} /\ q \in Seq(S) /\ Len(q) = Len(a) + Len(b)
      /\ DOMAIN q = 1 .. Len(q)
  BY ConcatProperties, LenProperties, EmptySeq
<1>2. \A j \in 1 .. Len(q) : q[j] \in S /\ q[j] = IF j <= Len(a) THEN a[j] ELSE b[j - Len(a)]
  BY <1>1, ConcatProperties, ElementOfSeq
<1>. DEFINE l == SubSeq(q, 1, i - 1)  r == SubSeq(q, i + 1, Len(q))
<1>3. l = a
  <2>1. l \in Seq(S) /\ Len(l) = Len(a) /\ \A j \in 1 .. Len(a) : l[j] = q[j]
    <3>1. \A j \in 1 .. (i - 1) : q[j] \in S
      BY <1>1, <1>2
    <3>2. 1 \in Int /\ i - 1 \in Int
      BY <1>1
    <3>. HIDE DEF q
    <3>3. /\ l \in Seq(S) /\ Len(l) = IF 1 <= i - 1 THEN i - 1 - 1 + 1 ELSE 0
          /\ \A j \in 1 .. (i - 1 - 1 + 1) : l[j] = q[1 + j - 1]
      BY <3>1, <3>2, SubSeqProperties
    <3>. QED BY <3>3, <1>1
  <2>2. \A j \in 1 .. Len(l) : l[j] = a[j]
    BY <2>1, <1>1, <1>2
  <2>. QED BY <2>1, <2>2, SeqEqual
<1>4. r = Tail(b)
  <2>1. r \in Seq(S) /\ Len(r) = Len(b) - 1 /\ \A j \in 1 .. (Len(b) - 1) : r[j] = q[j + Len(a) + 1]
    <3>1. \A j \in (i + 1) .. Len(q) : q[j] \in S
      BY <1>1, <1>2
    <3>2. i + 1 \in Int /\ Len(q) \in Int
      BY <1>1
    <3>. HIDE DEF q
    <3>3. /\ r \in Seq(S) /\ Len(r) = IF i + 1 <= Len(q) THEN Len(q) - (i + 1) + 1 ELSE 0
          /\ \A j \in 1 .. (Len(q) - (i + 1) + 1) : r[j] = q[i + 1 + j - 1]
      BY <3>1, <3>2, SubSeqProperties
    <3>4. Len(q) - (i + 1) + 1 = Len(b) - 1
      BY <1>1
    <3>5. \A j \in 1 .. (Len(b) - 1) : i + 1 + j - 1 = j + Len(a) + 1
      BY <1>1
    <3>6. ~(i + 1 <= Len(q)) => Len(b) - 1 = 0
      <4>1. Len(a) \in Nat /\ Len(b) \in Nat \ {0} /\ Len(q) = Len(a) + Len(b)
        BY <1>1
      <4>. HIDE DEF q
      <4>2. Len(b) # 1 => Len(a) + 2 <= Len(q)
        <5>1. \A x, y \in Nat : y # 0 /\ y # 1 => x + 2 <= x + y
          OBVIOUS
        <5>2. Len(a) \in Nat /\ Len(b) \in Nat /\ Len(b) # 0
          BY <4>1
        <5>. QED BY <5>1, <5>2, <4>1
      <4>3. Len(a) + 1 + 1 = Len(a) + 2
        BY <4>1
      <4>. QED BY <4>1, <4>2, <4>3
    <3>. HIDE DEF r, i
    <3>. QED BY <3>3, <3>4, <3>5, <3>6
  <2>2. Tail(b) \in Seq(S) /\ Len(Tail(b)) = Len(b) - 1 /\ \A j \in 1 .. (Len(b) - 1) : Tail(b)[j] = b[j + 1]
    BY HeadTailProperties
  <2>3. \A j \in 1 .. (Len(b) - 1) : r[j] = b[j + 1]
    BY <2>1, <1>1, <1>2
  <2>4. \A j \in 1 .. Len(r) : r[j] = Tail(b)[j]
    BY <2>1, <2>2, <2>3
  <2>. QED BY <2>1, <2>2, <2>4, SeqEqual
<1>5. i \in DOMAIN q
  BY <1>1
<1>. QED BY <1>3, <1>4, <1>5

\* Appending to the second of two sequences appends to their concatenation.
LEMMA ConcatAppend ==
  ASSUME NEW S, NEW a \in Seq(S), NEW b \in Seq(S), NEW e \in S
  PROVE  a \o Append(b, e) = Append(a \o b, e)
<1>1. a \o Append(b, e) = a \o (b \o <<e>>)
  BY AppendIsConcat
<1>2. <<e>> \in Seq(S)
  OBVIOUS
<1>3. a \o (b \o <<e>>) = (a \o b) \o <<e>>
  BY <1>2, ConcatAssociative
<1>4. (a \o b) \in Seq(S)
  BY ConcatProperties
<1>5. Append(a \o b, e) = (a \o b) \o <<e>>
  BY <1>4, AppendIsConcat
<1>. QED BY <1>1, <1>3, <1>5

\* The head and the tail of a concatenation are those of its first sequence.
LEMMA ConcatHeadTail ==
  ASSUME NEW S, NEW a \in Seq(S), NEW b \in Seq(S), a # <<>>
  PROVE  a \o b # <<>> /\ Head(a \o b) = Head(a) /\ Tail(a \o b) = Tail(a) \o b
<1>. DEFINE q == a \o b
<1>1. /\ Len(b) \in Nat /\ Len(a) \in Nat \ {0} /\ q \in Seq(S) /\ Len(q) = Len(a) + Len(b)
      /\ \A j \in 1 .. Len(q) : q[j] = IF j <= Len(a) THEN a[j] ELSE b[j - Len(a)]
  BY ConcatProperties, LenProperties, EmptySeq
<1>2. q # <<>>
  BY <1>1
<1>3. Tail(a) \in Seq(S) /\ Len(Tail(a)) = Len(a) - 1 /\ \A j \in 1 .. (Len(a) - 1) : Tail(a)[j] = a[j + 1]
  BY HeadTailProperties
<1>4. Tail(q) \in Seq(S) /\ Len(Tail(q)) = Len(q) - 1 /\ \A j \in 1 .. (Len(q) - 1) : Tail(q)[j] = q[j + 1]
  <2>. HIDE DEF q
  <2>. QED BY <1>1, <1>2, HeadTailProperties
<1>5. /\ Tail(a) \o b \in Seq(S) /\ Len(Tail(a) \o b) = Len(a) - 1 + Len(b)
      /\ \A j \in 1 .. (Len(a) - 1 + Len(b)) :
           (Tail(a) \o b)[j] = IF j <= Len(a) - 1 THEN Tail(a)[j] ELSE b[j - (Len(a) - 1)]
  BY <1>3, ConcatProperties
<1>6. \A j \in 1 .. (Len(q) - 1) : Tail(q)[j] = (Tail(a) \o b)[j]
  <2>. HIDE DEF q
  <2>1. ASSUME NEW j \in 1 .. (Len(q) - 1) PROVE Tail(q)[j] = (Tail(a) \o b)[j]
    <3>1. Tail(q)[j] = IF j + 1 <= Len(a) THEN a[j + 1] ELSE b[j + 1 - Len(a)]
      BY <1>1, <1>4
    <3>2. (Tail(a) \o b)[j] = IF j + 1 <= Len(a) THEN a[j + 1] ELSE b[j + 1 - Len(a)]
      BY <1>1, <1>3, <1>5
    <3>3. CASE j + 1 <= Len(a)
      BY <3>1, <3>2, <3>3
    <3>4. CASE ~(j + 1 <= Len(a))
      BY <3>1, <3>2, <3>4
    <3>. QED BY <3>3, <3>4
  <2>. QED BY <2>1
<1>7. Tail(q) = Tail(a) \o b
  <2>1. Len(a) - 1 + Len(b) = Len(q) - 1
    <3>. HIDE DEF q
    <3>. QED BY <1>1
  <2>. HIDE DEF q
  <2>2. Len(Tail(q)) = Len(Tail(a) \o b)
    BY <1>4, <1>5, <2>1, Zenon
  <2>3. \A j \in 1 .. Len(Tail(q)) : Tail(q)[j] = (Tail(a) \o b)[j]
    BY <1>4, <1>6, Zenon
  <2>. QED BY <1>4, <1>5, <2>2, <2>3, SeqEqual, Zenon
<1>8. Head(q) = Head(a)
  <2>. HIDE DEF q
  <2>. QED BY <1>1, <1>2
<1>. QED BY <1>2, <1>7, <1>8

-----------------------------------------------------------------------------
(* The invariant. *)

\* Events of the first w lines.
Rec(w) == [id : 0 .. w, kind : LineKinds]

\* The channel is closed by a reader that has emptied the pipe of a dead core, and the handler
\* ends with the channel.
StreamInv ==
  /\ pipe \in Seq(Rec(written)) /\ events \in Seq(Rec(written)) /\ held \in Rec(written)
  /\ received \in Seq(0 .. written)
  /\ reader # "deliver" => held = Nothing
  /\ reader \in {"end", "done"} => pipe = <<>> /\ child = "dead"
  /\ closed => reader = "done"
  /\ hpc = "done" => closed /\ events = <<>>

\* Every price is as fresh as the blocks since its header allow.
PriceInv ==
  /\ \A i \in DOMAIN txs :
       txs[i].at <= head /\ Fresh(head - txs[i].at, txs[i].cap - txs[i].tip, base)
  /\ hpc \in {"gas", "nonce", "send"} =>
       draft.at <= head /\ Fresh(head - draft.at, draft.cap - draft.tip, base)

\* A nonce that is not waited for: it is in a block, or a transaction has it.
Reached(n) == n < mined \/ \E j \in DOMAIN txs : txs[j].nonce = n

\* No transaction that the endpoint knew of has the nonce it gave, and no nonce below that one is
\* still to come.
NonceInv ==
  /\ \A i \in DOMAIN txs : txs[i].nonce < mined + Len(txs)
  /\ hpc = "send" =>
       /\ draft.nonce <= mined + Len(txs)
       /\ \A i \in draft.knew \cap DOMAIN txs : txs[i].nonce # draft.nonce
       /\ \A n \in 0 .. (draft.nonce - 1) : Reached(n)

\* The inductive invariant.
IInv == TypeOK /\ StreamInv /\ PriceInv /\ NonceInv /\ GasCovers /\ NoncesInLine /\ IdleForAReason

\* The pending nonce exists, whatever the endpoint knows: the least one from its latest on that its
\* pool does not know.
LEMMA PendingNonceFits ==
  ASSUME TypeOK, NonceInv, NEW v \in Views
  PROVE  /\ PendingNonce(v) \in v.mined .. (mined + Len(txs)) /\ PendingNonce(v) \in Nat
         /\ v.mined \in 0 .. mined /\ PendingNonce(v) \notin PoolNonces(v)
         /\ \A m \in v.mined .. (PendingNonce(v) - 1) : m \in PoolNonces(v)
<1>. DEFINE D == v.mined .. (mined + Len(txs))
            T == {n \in D : n \notin PoolNonces(v)}
<1>1. mined \in Nat /\ Len(txs) \in Nat /\ v.mined \in 0 .. mined /\ v.pool \subseteq DOMAIN txs
  BY LenProperties DEF TypeOK, Views
<1>2. mined + Len(txs) \in T
  <2>1. mined + Len(txs) \in D
    BY <1>1
  <2>2. \A i \in DOMAIN txs : txs[i].nonce # mined + Len(txs)
    <3>1. ASSUME NEW i \in DOMAIN txs PROVE txs[i].nonce \in Nat
      <4>1. i \in 1 .. Len(txs)
        BY LenProperties DEF TypeOK
      <4>2. txs[i] \in Sent
        BY <4>1, ElementOfSeq DEF TypeOK
      <4>. QED BY <4>2 DEF Sent
    <3>. QED BY <3>1, <1>1 DEF NonceInv
  <2>3. mined + Len(txs) \notin PoolNonces(v)
    BY <1>1, <2>2 DEF PoolNonces
  <2>. QED BY <2>1, <2>3
<1>3. T \subseteq Nat /\ T # {}
  BY <1>1, <1>2
<1>4. PICK x \in T : \A y \in T : x <= y
  BY <1>3, Least
<1>5. \A m \in v.mined .. (x - 1) : m \in PoolNonces(v)
  <2>1. ASSUME NEW m \in v.mined .. (x - 1), m \notin PoolNonces(v) PROVE FALSE
    <3>1. m \in D /\ x \in Nat /\ m < x
      BY <1>1, <1>3
    <3>2. x <= m
      BY <3>1, <2>1, <1>4
    <3>. QED BY <3>1, <3>2
  <2>. QED BY <2>1
<1>6. \E n \in D : n \notin PoolNonces(v) /\ \A m \in v.mined .. (n - 1) : m \in PoolNonces(v)
  BY <1>4, <1>5
<1>7. /\ PendingNonce(v) \in D /\ PendingNonce(v) \notin PoolNonces(v)
      /\ \A m \in v.mined .. (PendingNonce(v) - 1) : m \in PoolNonces(v)
  BY <1>6, Zenon DEF PendingNonce
<1>8. PendingNonce(v) \in Nat
  BY <1>1, <1>7
<1>. QED BY <1>1, <1>7, <1>8

\* The invariant holds when the worker starts.
LEMMA InitIInv == Init => IInv
<1>. SUFFICES ASSUME Init PROVE IInv
  OBVIOUS
<1>. USE DEF Init, PipeInit, SubmitterInit
<1>1. TypeOK
  <2>1. base \in Nat \ 0..7
    BY SubmitterAssumption
  <2>2. Nothing \in Event /\ NoDraft \in Amounts
    BY DEF Event, LineKinds, Nothing, Line, Amounts, NoDraft
  <2>3. \A S : <<>> \in Seq(S) /\ Len(<<>>) = 0
    BY EmptySeq
  <2>4. 0 <= PipeCap /\ 0 <= EventCap
    BY PipeAssumption
  <2>5. /\ pipe = <<>> /\ events = <<>> /\ txs = <<>> /\ received = <<>>
        /\ written \in Nat /\ head \in Nat /\ mined \in Nat
        /\ held \in Event /\ draft \in Amounts
    BY <2>2
  <2>6. pipe \in Seq(Event) /\ events \in Seq(Event) /\ received \in Seq(Nat)
        /\ txs \in Seq(Sent)
    BY <2>3, <2>5
  <2>7. Len(pipe) <= PipeCap /\ Len(events) <= EventCap
    BY <2>3, <2>4, <2>5
  <2>8. orders \in 0 .. PipeCap
    BY PipeAssumption
  <2>. QED BY <2>1, <2>5, <2>6, <2>7, <2>8 DEF TypeOK
<1>2. StreamInv
  BY DEF StreamInv, Rec, LineKinds, Nothing, Line
<1>3. PriceInv /\ NonceInv /\ GasCovers /\ NoncesInLine /\ IdleForAReason
  BY DEF PriceInv, NonceInv, GasCovers, NoncesInLine, IdleForAReason
<1>. QED BY <1>1, <1>2, <1>3 DEF IInv

\* The gas limit lies between the floor and the ceiling and covers the estimate.
LEMMA GasBounds ==
  ASSUME NEW est \in Nat
  PROVE  /\ GasLimit(est) \in Nat /\ GasLimit(est) \in Min2(MinGas, MaxGas) .. MaxGas
         /\ MultNum >= MultDen /\ est <= MaxGas => GasLimit(est) >= est
<1>1. MinGas \in Nat /\ MaxGas \in Nat /\ MultNum \in Nat /\ MultDen \in Nat \ {0}
  BY SubmitterAssumption
<1>2. (est * MultNum) \div MultDen \in Nat
  <2>1. est * MultNum \in Nat
    BY <1>1
  <2>. QED BY <2>1, <1>1
<1>3. MultNum >= MultDen => (est * MultNum) \div MultDen >= est
  BY <1>1, Margin
<1>. DEFINE g == (est * MultNum) \div MultDen
<1>. HIDE DEF g
<1>4. g \in Nat /\ (MultNum >= MultDen => g >= est)
  BY <1>2, <1>3 DEF g
<1>5. GasLimit(est) = Min2(Max2(g, MinGas), MaxGas)
  BY DEF GasLimit, Clamp, g
<1>. QED BY <1>1, <1>4, <1>5 DEF Min2, Max2

-----------------------------------------------------------------------------
\* Commands stay within the pipe to the core.
LEMMA OrdersMove ==
  ASSUME orders \in 0 .. PipeCap, SendCommand \/ TakeCommand
  PROVE  orders' \in 0 .. PipeCap
BY PipeAssumption DEF SendCommand, TakeCommand

\* A step keeps the types.
LEMMA TypeStep ==
  ASSUME IInv, Next
  PROVE  TypeOK'
<1>. USE DEF pipeVars, chainVars, handlerVars
<1>1. TypeOK
  BY DEF IInv
<1>. SUFFICES ASSUME TRUE PROVE TypeOK'
  OBVIOUS
<1>2. CASE Core
  <2>1. PICK kind \in LineKinds : pipe' = Append(pipe, Line(written + 1, kind))
    BY <1>2 DEF Core, WriteLine
  <2>2. Line(written + 1, kind) \in Event /\ Len(pipe) + 1 <= PipeCap
    BY <1>1, <1>2, PipeAssumption, LenProperties DEF Core, WriteLine, TypeOK, Event, Line
  <2>3. pipe' \in Seq(Event) /\ Len(pipe') <= PipeCap
    BY <1>1, <2>1, <2>2, AppendProperties DEF TypeOK
  <2>. QED BY <1>1, <1>2, <2>3 DEF Core, WriteLine, TypeOK
<1>3. CASE Block
  <2>1. head' \in Nat /\ base' \in Nat \ 0..7 /\ mined' \in Nat
    BY <1>1, <1>3, Grows, LenProperties DEF Block, MineBlock, TypeOK
  <2>. QED BY <1>1, <1>3, <2>1 DEF Block, MineBlock, TypeOK
<1>4. CASE Reader
  <2>1. CASE Scan
    <3>1. pipe' \in Seq(Event) /\ Len(pipe') <= PipeCap /\ held' \in Event
      <4>1. CASE pipe # <<>>
        <5>1. Head(pipe) \in Event /\ Tail(pipe) \in Seq(Event) /\ Len(Tail(pipe)) <= Len(pipe)
          BY <1>1, <4>1, HeadTailProperties, LenProperties DEF TypeOK
        <5>2. Len(Tail(pipe)) <= PipeCap
          BY <1>1, <5>1, PipeAssumption, LenProperties DEF TypeOK
        <5>. QED BY <1>1, <2>1, <4>1, <5>1, <5>2 DEF Scan, TypeOK
      <4>2. CASE pipe = <<>>
        BY <1>1, <2>1, <4>2 DEF Scan, TypeOK
      <4>. QED BY <4>1, <4>2
    <3>. QED BY <1>1, <1>4, <2>1, <3>1 DEF Reader, Scan, TypeOK
  <2>2. CASE Deliver
    <3>1. events' \in Seq(Event) /\ Len(events') <= EventCap
      <4>1. held \in Event /\ events \in Seq(Event) /\ Len(events) \in Nat /\ EventCap \in Nat
        BY <1>1, PipeAssumption, LenProperties DEF TypeOK
      <4>2. Append(events, held) \in Seq(Event) /\ Len(Append(events, held)) = Len(events) + 1
        BY <4>1, AppendProperties
      <4>3. Len(events) < EventCap => Len(Append(events, held)) <= EventCap
        BY <4>1, <4>2
      <4>. QED BY <1>1, <2>2, <4>2, <4>3 DEF Deliver, TypeOK
    <3>2. held' \in Event
      BY <2>2 DEF Deliver, Nothing, Line, Event, LineKinds
    <3>. QED BY <1>1, <1>4, <2>2, <3>1, <3>2 DEF Reader, Deliver, TypeOK
  <2>3. CASE CloseEvents
    BY <1>1, <1>4, <2>3 DEF Reader, CloseEvents, TypeOK
  <2>. QED BY <1>4, <2>1, <2>2, <2>3 DEF Reader, ReadEvents
<1>5. CASE Main
  <2>1. /\ locker' \in {"no", "retarget", "wait", "done"} /\ child' \in {"alive", "dead"}
        /\ lost' \in BOOLEAN
        /\ UNCHANGED <<written, pipe, grinds, reader, held, events, closed, chainVars, handlerVars>>
    BY <1>1, <1>5 DEF Main, RetargetLock, RetargetSend, StopKill, StopWait, TypeOK
  <2>2. orders' = orders \/ SendCommand
    BY <1>5 DEF Main, RetargetLock, RetargetSend, StopKill, StopWait
  <2>3. orders' \in 0 .. PipeCap
    BY <1>1, <2>2, OrdersMove DEF TypeOK
  <2>. QED BY <1>1, <2>1, <2>3 DEF TypeOK
<1>8. CASE Job
  <2>1. /\ grinds' \in BOOLEAN /\ lost' \in BOOLEAN
        /\ UNCHANGED <<written, pipe, child, reader, held, events, closed, locker, chainVars, handlerVars>>
    BY <1>8 DEF Job, TakeCommand
  <2>2. orders' \in 0 .. PipeCap
    BY <1>1, <1>8, OrdersMove DEF TypeOK, Job
  <2>. QED BY <1>1, <2>1, <2>2 DEF TypeOK
<1>6. CASE CoreDies
  BY <1>1, <1>6 DEF CoreDies, Die, TypeOK
<1>7. CASE Handler
  <2>. NoDraft \in Amounts
    BY DEF NoDraft, Amounts
  <2>1. CASE Receive
    <3>1. events' \in Seq(Event) /\ Len(events') <= EventCap /\ Head(events) \in Event
      BY <1>1, <2>1, PipeAssumption, HeadTailProperties, LenProperties DEF Receive, TypeOK
    <3>2. received' \in Seq(Nat)
      BY <1>1, <2>1, <3>1, AppendProperties DEF Receive, TypeOK, Event
    <3>. QED BY <1>1, <2>1, <3>1, <3>2 DEF Receive, TypeOK
  <2>2. CASE EndOfEvents \/ UpdateWorkerStats \/ Failed \/ FetchChallenge \/ Restart
    <3>1. CASE EndOfEvents \/ UpdateWorkerStats \/ FetchChallenge
      <4>1. hpc' \in {"done", "recv", "restart", "failed"} /\ UNCHANGED <<pipeVars, chainVars, draft, received>>
        BY <3>1 DEF EndOfEvents, UpdateWorkerStats, FetchChallenge
      <4>. QED BY <1>1, <4>1 DEF TypeOK
    <3>2. CASE Failed \/ Restart
      <4>1. /\ hpc' \in {"recv", "failed"} /\ lost' \in BOOLEAN
            /\ UNCHANGED <<written, pipe, child, grinds, reader, held, events, closed, locker, chainVars,
                           draft, received>>
        BY <1>1, <3>2 DEF Failed, Restart, TypeOK
      <4>2. orders' = orders \/ SendCommand
        BY <3>2 DEF Failed, Restart
      <4>3. orders' \in 0 .. PipeCap
        BY <1>1, <4>2, OrdersMove DEF TypeOK
      <4>. QED BY <1>1, <4>1, <4>3 DEF TypeOK
    <3>. QED BY <2>2, <3>1, <3>2
  <2>3. CASE Submit
    <3>1. CASE ChooseTip \/ PackMine
      <4>1. /\ UNCHANGED <<pipeVars, received, chainVars>> /\ hpc' \in {"pack", "fees", "failed"}
            /\ \/ draft' \in {draft, NoDraft}
               \/ \E tip \in {Tip, BumpedTip} : draft' = [draft EXCEPT !.tip = tip]
        BY <2>3, <3>1 DEF Submit, ChooseTip, PackMine, Fail
      <4>2. draft \in Amounts /\ Tip \in Nat /\ BumpedTip \in Nat
        BY <1>1, SubmitterAssumption DEF TypeOK
      <4>3. draft' \in Amounts
        BY <4>1, <4>2 DEF Amounts, NoDraft
      <4>. QED BY <1>1, <4>1, <4>3 DEF TypeOK
    <3>2. CASE SuggestFees
      <4>1. draft' \in Amounts
        <5>1. CASE Fail
          BY <5>1 DEF Fail
        <5>2. ASSUME NEW suggested \in NetworkTips,
                     draft' = [draft EXCEPT !.tip = Max2(draft.tip, suggested),
                                            !.cap = Cap(base, Max2(draft.tip, suggested)), !.at = head]
              PROVE  draft' \in Amounts
          <6>1. suggested \in Nat /\ draft.tip \in Nat /\ base \in Nat /\ head \in Nat
            BY <1>1, SubmitterAssumption DEF TypeOK, Amounts
          <6>2. Max2(draft.tip, suggested) \in Nat /\ Cap(base, Max2(draft.tip, suggested)) \in Nat
            BY <6>1 DEF Max2, Cap
          <6>3. draft \in Amounts
            BY <1>1 DEF TypeOK
          <6>. HIDE DEF Max2, Cap
          <6>. QED BY <5>2, <6>1, <6>2, <6>3, Zenon DEF Amounts
        <5>. QED BY <3>2, <5>1, <5>2 DEF SuggestFees
      <4>2. UNCHANGED <<pipeVars, chainVars, received>> /\ hpc' \in {"gas", "failed"}
        BY <2>3, <3>2 DEF Submit, SuggestFees, Fail
      <4>. QED BY <1>1, <4>1, <4>2 DEF TypeOK
    <3>3. CASE EstimateGas
      <4>1. PICK est \in Nat : draft' = [draft EXCEPT !.estimate = est, !.gas = GasLimit(est)]
        BY <3>3, SubmitterAssumption DEF EstimateGas
      <4>2. draft \in Amounts /\ GasLimit(est) \in Nat
        BY <1>1, GasBounds DEF TypeOK
      <4>3. draft' \in Amounts
        BY <4>1, <4>2 DEF Amounts
      <4>4. UNCHANGED <<pipeVars, chainVars, received>> /\ hpc' = "nonce"
        BY <2>3, <3>3 DEF Submit, EstimateGas
      <4>. QED BY <1>1, <4>3, <4>4 DEF TypeOK
    <3>4. CASE ReadNonce
      <4>1. /\ UNCHANGED <<pipeVars, received, chainVars>> /\ hpc' \in {"send", "failed"}
            /\ \/ draft' = NoDraft
               \/ \E v \in Views : draft' = [draft EXCEPT !.nonce = PendingNonce(v), !.knew = Known(v)]
        BY <2>3, <3>4, Zenon DEF Submit, ReadNonce, Fail
      <4>2. \A v \in Views : PendingNonce(v) \in Nat /\ Known(v) \in SUBSET Nat
        <5>1. DOMAIN txs \subseteq Nat
          BY <1>1, LenProperties DEF TypeOK
        <5>2. \A v \in Views : Known(v) \subseteq DOMAIN txs
          BY DEF Known, Views
        <5>. QED BY <5>1, <5>2, PendingNonceFits DEF IInv
      <4>3. \A n \in Nat, k \in SUBSET Nat : [draft EXCEPT !.nonce = n, !.knew = k] \in Amounts
        <5>1. draft \in Amounts
          BY <1>1 DEF TypeOK
        <5>. QED BY <5>1 DEF Amounts
      <4>4. draft' \in Amounts
        BY <4>1, <4>2, <4>3, Zenon
      <4>. QED BY <1>1, <4>1, <4>4, Zenon DEF TypeOK
    <3>5. CASE SendTransaction
      <4>1. Transaction \in Sent
        BY <1>1 DEF Transaction, TypeOK, Amounts, Sent
      <4>2. txs' \in Seq(Sent)
        <5>1. txs \in Seq(Sent)
          BY <1>1 DEF TypeOK
        <5>2. Append(txs, Transaction) \in Seq(Sent)
          BY <4>1, <5>1, AppendProperties
        <5>3. txs' = Append(txs, Transaction) \/ txs' = txs
          BY <3>5 DEF SendTransaction
        <5>. QED BY <5>1, <5>2, <5>3
      <4>. QED BY <1>1, <2>3, <3>5, <4>2 DEF Submit, SendTransaction, Fail, TypeOK
    <3>. QED BY <2>3, <3>1, <3>2, <3>3, <3>4, <3>5 DEF Submit, SubmitMine
  <2>. QED BY <1>7, <2>1, <2>2, <2>3 DEF Handler
<1>. QED BY <1>2, <1>3, <1>4, <1>5, <1>6, <1>7, <1>8 DEF Next

\* Events of the first w lines are events of the first w + 1.
LEMMA RecGrows ==
  ASSUME NEW w \in Nat, NEW v \in Nat, w <= v
  PROVE  /\ Seq(Rec(w)) \subseteq Seq(Rec(v)) /\ Rec(w) \subseteq Rec(v)
         /\ Seq(0 .. w) \subseteq Seq(0 .. v)
<1>1. Rec(w) \subseteq Rec(v) /\ 0 .. w \subseteq 0 .. v
  BY DEF Rec
<1>2. \A q \in Seq(Rec(w)) : q \in Seq(Rec(v))
  BY <1>1, SeqMonotonic
<1>3. \A q \in Seq(0 .. w) : q \in Seq(0 .. v)
  BY <1>1, SeqMonotonic
<1>. QED BY <1>1, <1>2, <1>3

\* A step keeps what is known of the reader and the channel.
LEMMA StreamStep ==
  ASSUME IInv, Next
  PROVE  StreamInv'
<1>. USE DEF pipeVars, chainVars, handlerVars
<1>1. TypeOK /\ StreamInv
  BY DEF IInv
<1>2. CASE Core
  <2>1. PICK kind \in LineKinds : pipe' = Append(pipe, Line(written + 1, kind))
    BY <1>2 DEF Core, WriteLine
  <2>2. written \in Nat /\ written' = written + 1
    BY <1>1, <1>2 DEF Core, WriteLine, TypeOK
  <2>3. Line(written + 1, kind) \in Rec(written')
    BY <2>2 DEF Line, Rec
  <2>4. /\ pipe \in Seq(Rec(written')) /\ events \in Seq(Rec(written')) /\ held \in Rec(written')
        /\ received \in Seq(0 .. written')
    BY <1>1, <2>2, RecGrows DEF StreamInv
  <2>5. pipe' \in Seq(Rec(written'))
    BY <2>1, <2>2, <2>3, <2>4, AppendProperties
  <2>6. child # "dead"
    BY <1>2 DEF Core, WriteLine
  <2>. QED BY <1>1, <1>2, <2>4, <2>5, <2>6 DEF Core, WriteLine, StreamInv
<1>3. CASE Block
  <2>1. hpc' = hpc /\ UNCHANGED pipeVars /\ received' = received
    BY <1>3 DEF Block, MineBlock
  <2>. QED BY <1>1, <2>1 DEF StreamInv
<1>4. CASE Reader
  <2>1. CASE Scan
    <3>1. pipe' \in Seq(Rec(written)) /\ held' \in Rec(written)
      <4>1. CASE pipe # <<>>
        <5>1. Head(pipe) \in Rec(written) /\ Tail(pipe) \in Seq(Rec(written))
          BY <1>1, <4>1, HeadTailProperties DEF StreamInv
        <5>. QED BY <1>1, <2>1, <4>1, <5>1 DEF Scan, StreamInv
      <4>2. CASE pipe = <<>>
        BY <1>1, <2>1, <4>2 DEF Scan, StreamInv
      <4>. QED BY <4>1, <4>2
    <3>. QED BY <1>1, <1>4, <2>1, <3>1 DEF Reader, Scan, StreamInv
  <2>2. CASE Deliver
    <3>1. events' \in Seq(Rec(written))
      <4>1. Append(events, held) \in Seq(Rec(written))
        BY <1>1, AppendProperties DEF StreamInv
      <4>. QED BY <1>1, <2>2, <4>1 DEF Deliver, StreamInv
    <3>2. held' = Nothing /\ Nothing \in Rec(written) /\ reader = "deliver"
      BY <1>1, <2>2 DEF Deliver, Nothing, Line, Rec, LineKinds, TypeOK
    <3>3. hpc # "done" /\ ~closed
      BY <1>1, <3>2 DEF StreamInv
    <3>. QED BY <1>1, <1>4, <2>2, <3>1, <3>2, <3>3 DEF Reader, Deliver, StreamInv
  <2>3. CASE CloseEvents
    BY <1>1, <1>4, <2>3 DEF Reader, CloseEvents, StreamInv
  <2>. QED BY <1>4, <2>1, <2>2, <2>3 DEF Reader, ReadEvents
<1>5. CASE Main
  <2>1. /\ UNCHANGED <<written, pipe, reader, held, events, closed, hpc, received>>
        /\ child = "dead" => child' = "dead"
    BY <1>5 DEF Main, RetargetLock, RetargetSend, StopKill, StopWait
  <2>. QED BY <1>1, <2>1 DEF StreamInv
<1>8. CASE Job
  BY <1>1, <1>8 DEF Job, TakeCommand, StreamInv
<1>6. CASE CoreDies
  BY <1>1, <1>6 DEF CoreDies, Die, StreamInv
<1>7. CASE Handler
  <2>1. CASE Receive
    <3>1. events' \in Seq(Rec(written)) /\ Head(events) \in Rec(written)
      BY <1>1, <2>1, HeadTailProperties DEF Receive, StreamInv
    <3>2. received' \in Seq(0 .. written)
      BY <1>1, <2>1, <3>1, AppendProperties DEF Receive, StreamInv, Rec
    <3>3. hpc' # "done"
      BY <2>1 DEF Receive
    <3>. QED BY <1>1, <2>1, <3>1, <3>2, <3>3 DEF Receive, StreamInv
  <2>2. CASE EndOfEvents \/ UpdateWorkerStats \/ Failed \/ FetchChallenge \/ Restart
    BY <1>1, <2>2 DEF EndOfEvents, UpdateWorkerStats, Failed, FetchChallenge, Restart, StreamInv
  <2>3. CASE Submit
    <3>1. hpc' # "done"
      BY <2>3 DEF Submit, SubmitMine, ChooseTip, PackMine, SuggestFees, EstimateGas, ReadNonce,
                  SendTransaction, Fail
    <3>. QED BY <1>1, <2>3, <3>1 DEF Submit, StreamInv
  <2>. QED BY <1>7, <2>1, <2>2, <2>3 DEF Handler
<1>. QED BY <1>2, <1>3, <1>4, <1>5, <1>6, <1>7, <1>8 DEF Next

\* A transaction has numbers for its fields.
LEMMA TxsTyped ==
  ASSUME TypeOK
  PROVE  /\ DOMAIN txs = 1 .. Len(txs) /\ Len(txs) \in Nat
         /\ \A i \in DOMAIN txs : /\ txs[i] \in Sent
                                  /\ txs[i].nonce \in Nat /\ txs[i].at \in Nat
                                  /\ txs[i].cap \in Nat /\ txs[i].tip \in Nat
                                  /\ txs[i].knew \subseteq Nat
<1>1. DOMAIN txs = 1 .. Len(txs) /\ Len(txs) \in Nat
  BY LenProperties DEF TypeOK
<1>2. ASSUME NEW i \in DOMAIN txs PROVE txs[i] \in Sent
  BY <1>1, ElementOfSeq DEF TypeOK
<1>. QED BY <1>1, <1>2 DEF Sent

\* A block leaves the prices as fresh as the table says.
LEMMA PriceBlock ==
  ASSUME TypeOK, PriceInv, Block
  PROVE  PriceInv'
<1>1. /\ head \in Nat /\ base \in Nat \ 0..7 /\ head' = head + 1 /\ base' \in NextFees(base)
      /\ txs' = txs /\ draft' = draft /\ hpc' = hpc /\ draft \in Amounts
  BY DEF Block, MineBlock, TypeOK
<1>2. base' \in Nat /\ 8 * base' <= 9 * base
  BY <1>1, Grows
<1>3. ASSUME NEW at \in Nat, NEW d \in Int, at <= head, Fresh(head - at, d, base)
      PROVE  at <= head' /\ Fresh(head' - at, d, base')
  <2>1. head - at \in Nat /\ head' - at = (head - at) + 1 /\ base \in Nat
    BY <1>1, <1>3
  <2>2. Fresh((head - at) + 1, d, base')
    BY <1>2, <1>3, <2>1, FreshNext
  <2>. QED BY <1>1, <1>3, <2>1, <2>2
<1>4. ASSUME NEW i \in DOMAIN txs
      PROVE  txs[i].at <= head' /\ Fresh(head' - txs[i].at, txs[i].cap - txs[i].tip, base')
  <2>1. txs[i].at \in Nat /\ txs[i].cap - txs[i].tip \in Int
    BY TxsTyped
  <2>2. txs[i].at <= head /\ Fresh(head - txs[i].at, txs[i].cap - txs[i].tip, base)
    BY DEF PriceInv
  <2>. QED BY <1>3, <2>1, <2>2
<1>5. ASSUME hpc \in {"gas", "nonce", "send"}
      PROVE  draft.at <= head' /\ Fresh(head' - draft.at, draft.cap - draft.tip, base')
  <2>1. draft.at \in Nat /\ draft.cap - draft.tip \in Int
    BY <1>1 DEF Amounts
  <2>2. draft.at <= head /\ Fresh(head - draft.at, draft.cap - draft.tip, base)
    BY <1>5 DEF PriceInv
  <2>. QED BY <1>3, <2>1, <2>2
<1>. QED BY <1>1, <1>4, <1>5 DEF PriceInv

\* A block leaves no nonce waiting that was not.
LEMMA NonceBlock ==
  ASSUME TypeOK, NonceInv, NoncesInLine, Block
  PROVE  NonceInv' /\ NoncesInLine'
<1>1. /\ mined \in Nat /\ mined' \in Nat /\ mined <= mined'
      /\ txs' = txs /\ draft' = draft /\ hpc' = hpc /\ draft \in Amounts /\ draft.nonce \in Nat
  BY TxsTyped DEF Block, MineBlock, TypeOK, Amounts
<1>2. \A n \in Int : n < mined => n < mined'
  BY <1>1
<1>3. \A n \in Int : Reached(n) => Reached(n)'
  BY <1>1, <1>2 DEF Reached
<1>4. NonceInv'
  BY <1>1, <1>3, TxsTyped DEF NonceInv
<1>5. NoncesInLine'
  <2>1. ASSUME NEW i \in DOMAIN txs, NEW n \in 0 .. (txs[i].nonce - 1) PROVE Reached(n)'
    <3>1. Reached(n) /\ n \in Int
      BY DEF NoncesInLine, Reached
    <3>. QED BY <3>1, <1>3
  <2>. QED BY <2>1, <1>1 DEF NoncesInLine, Reached
<1>. QED BY <1>4, <1>5

\* The nonce that is read is free, and none below it is waited for.
LEMMA NonceRead ==
  ASSUME IInv, ReadNonce
  PROVE  NonceInv' /\ NoncesInLine'
<1>1. TypeOK /\ NonceInv /\ NoncesInLine /\ txs' = txs /\ mined' = mined
  BY DEF IInv, ReadNonce, chainVars
<1>2. ASSUME NEW v \in Views, hpc' = "send",
             draft' = [draft EXCEPT !.nonce = PendingNonce(v), !.knew = Known(v)]
      PROVE  NonceInv' /\ NoncesInLine'
  <2>1. draft'.nonce = PendingNonce(v) /\ draft'.knew = Known(v)
    BY <1>1, <1>2 DEF TypeOK, Amounts
  <2>2. /\ PendingNonce(v) \in v.mined .. (mined + Len(txs)) /\ PendingNonce(v) \in Nat
        /\ v.mined \in 0 .. mined /\ PendingNonce(v) \notin PoolNonces(v)
        /\ \A m \in v.mined .. (PendingNonce(v) - 1) : m \in PoolNonces(v)
    BY <1>1, PendingNonceFits
  <2>3. ASSUME NEW i \in Known(v) \cap DOMAIN txs PROVE txs[i].nonce # PendingNonce(v)
    <3>1. i \in v.pool => txs[i].nonce # PendingNonce(v)
      BY <2>2 DEF PoolNonces
    <3>2. txs[i].nonce \in Nat /\ v.mined \in Nat /\ v.mined <= PendingNonce(v)
      BY <1>1, <2>2, TxsTyped DEF TypeOK
    <3>3. i \in v.pool \/ txs[i].nonce < v.mined
      BY <2>3 DEF Known
    <3>. QED BY <2>2, <3>1, <3>2, <3>3
  <2>4. ASSUME NEW n \in 0 .. (PendingNonce(v) - 1) PROVE Reached(n)
    <3>1. n < mined \/ n \in v.mined .. (PendingNonce(v) - 1)
      BY <1>1, <2>2 DEF TypeOK
    <3>2. n \in PoolNonces(v) => \E j \in DOMAIN txs : txs[j].nonce = n
      BY DEF PoolNonces, Views
    <3>. QED BY <3>1, <3>2, <2>2 DEF Reached
  <2>5. PendingNonce(v) <= mined + Len(txs)
    BY <1>1, <2>2, TxsTyped DEF TypeOK
  <2>. QED BY <1>1, <2>1, <2>3, <2>4, <2>5 DEF NonceInv, NoncesInLine, Reached
<1>3. CASE Fail
  BY <1>1, <1>3 DEF NonceInv, NoncesInLine, Fail
<1>. QED BY <1>2, <1>3 DEF ReadNonce

\* A transaction that is sent keeps the prices fresh and the nonces in line.
LEMMA SentStep ==
  ASSUME IInv, SendTransaction
  PROVE  PriceInv' /\ NonceInv' /\ NoncesInLine'
<1>1. /\ TypeOK /\ PriceInv /\ NonceInv /\ NoncesInLine /\ hpc = "send"
      /\ mined' = mined /\ head' = head /\ base' = base /\ hpc' \in {"failed", "submitted"}
  BY DEF IInv, SendTransaction, Fail
<1>2. CASE txs' = txs
  BY <1>1, <1>2 DEF PriceInv, NonceInv, NoncesInLine, Reached
<1>3. CASE txs' = Append(txs, Transaction)
  <2>. DEFINE L == Len(txs)
  <2>1. /\ L \in Nat /\ DOMAIN txs = 1 .. L /\ DOMAIN txs' = 1 .. (L + 1) /\ Len(txs') = L + 1
        /\ (\A i \in 1 .. L : txs'[i] = txs[i]) /\ txs'[L + 1] = Transaction
    <3>1. txs \in Seq(Sent) /\ Transaction \in Sent
      BY <1>1 DEF TypeOK, Transaction, Amounts, Sent
    <3>. QED BY <1>3, <3>1, AppendProperties, LenProperties
  <2>2. \A i \in 1 .. (L + 1) : i \in 1 .. L \/ i = L + 1
    BY <2>1
  <2>3. /\ Transaction.nonce = draft.nonce /\ Transaction.at = draft.at /\ Transaction.cap = draft.cap
        /\ Transaction.tip = draft.tip /\ Transaction.knew = draft.knew
        /\ draft.nonce \in Nat /\ mined \in Nat
    BY <1>1 DEF Transaction, TypeOK, Amounts
  <2>4. PriceInv'
    <3>1. draft.at <= head /\ Fresh(head - draft.at, draft.cap - draft.tip, base)
      BY <1>1 DEF PriceInv
    <3>2. ASSUME NEW i \in 1 .. (L + 1)
          PROVE  txs'[i].at <= head /\ Fresh(head - txs'[i].at, txs'[i].cap - txs'[i].tip, base)
      <4>1. CASE i = L + 1
        BY <2>1, <2>3, <3>1, <4>1
      <4>2. CASE i \in 1 .. L
        <5>1. txs'[i] = txs[i]
          BY <2>1, <4>2
        <5>2. txs[i].at <= head /\ Fresh(head - txs[i].at, txs[i].cap - txs[i].tip, base)
          BY <1>1, <2>1, <4>2 DEF PriceInv
        <5>. QED BY <5>1, <5>2
      <4>. QED BY <2>2, <4>1, <4>2
    <3>. QED BY <1>1, <2>1, <3>2 DEF PriceInv
  <2>5. NonceInv'
    <3>1. ASSUME NEW i \in 1 .. (L + 1) PROVE txs'[i].nonce < mined + (L + 1)
      <4>1. CASE i = L + 1
        BY <1>1, <2>1, <2>3, <4>1 DEF NonceInv
      <4>2. CASE i \in 1 .. L
        <5>1. txs'[i].nonce = txs[i].nonce /\ txs[i].nonce \in Nat /\ txs[i].nonce < mined + L
          BY <1>1, <2>1, <4>2, TxsTyped DEF NonceInv
        <5>. QED BY <2>1, <2>3, <5>1
      <4>. QED BY <2>2, <4>1, <4>2
    <3>. QED BY <1>1, <2>1, <3>1 DEF NonceInv
  <2>6. \A n \in Int : Reached(n) => Reached(n)'
    <3>1. \A j \in DOMAIN txs : j \in DOMAIN txs' /\ txs'[j].nonce = txs[j].nonce
      BY <2>1
    <3>. QED BY <1>1, <3>1 DEF Reached
  <2>7. NoncesInLine'
    <3>1. ASSUME NEW i \in 1 .. (L + 1), NEW n \in 0 .. (txs'[i].nonce - 1) PROVE Reached(n)'
      <4>1. CASE i = L + 1
        <5>1. n \in 0 .. (draft.nonce - 1)
          BY <2>1, <2>3, <4>1
        <5>2. Reached(n)
          BY <1>1, <5>1 DEF NonceInv
        <5>. QED BY <2>6, <5>2
      <4>2. CASE i \in 1 .. L
        <5>1. n \in 0 .. (txs[i].nonce - 1) /\ i \in DOMAIN txs
          BY <2>1, <4>2
        <5>2. Reached(n)
          BY <1>1, <5>1 DEF NoncesInLine, Reached
        <5>. QED BY <2>6, <5>2
      <4>. QED BY <2>2, <4>1, <4>2
    <3>2. ASSUME NEW i \in 1 .. (L + 1), NEW j \in 1 .. (L + 1), i < j, txs'[i].nonce = txs'[j].nonce
          PROVE  i \notin txs'[j].knew
      <4>1. i \in 1 .. L
        BY <2>1, <3>2
      <4>2. CASE j \in 1 .. L
        BY <1>1, <2>1, <3>2, <4>1, <4>2 DEF NoncesInLine
      <4>3. CASE j = L + 1
        <5>1. txs[i].nonce = draft.nonce /\ txs'[j].knew = draft.knew /\ i \in DOMAIN txs
          BY <2>1, <2>3, <3>2, <4>1, <4>3
        <5>. QED BY <1>1, <5>1 DEF NonceInv
      <4>. QED BY <2>2, <4>2, <4>3
    <3>. QED BY <2>1, <3>1, <3>2 DEF NoncesInLine, Reached
  <2>. QED BY <2>4, <2>5, <2>7
<1>. QED BY <1>2, <1>3 DEF SendTransaction

\* A cap that has just been set is twice the base fee above its tip.
LEMMA FeesSuggested ==
  ASSUME TypeOK, SuggestFees, ~Fail
  PROVE  draft'.at = head /\ Fresh(0, draft'.cap - draft'.tip, base)
<1>1. PICK suggested \in NetworkTips :
        draft' = [draft EXCEPT !.tip = Max2(draft.tip, suggested),
                               !.cap = Cap(base, Max2(draft.tip, suggested)), !.at = head]
  BY DEF SuggestFees
<1>. DEFINE t == Max2(draft.tip, suggested)
<1>2. t \in Nat /\ base \in Nat /\ draft \in Amounts
  BY SubmitterAssumption DEF TypeOK, Amounts, Max2
<1>. HIDE DEF t
<1>3. draft'.at = head /\ draft'.tip = t /\ draft'.cap = 2 * base + t
  BY <1>1, <1>2 DEF Amounts, Cap, t
<1>. QED BY <1>2, <1>3 DEF Fresh

\* A step keeps what is known of prices, gas and nonces.
LEMMA ChainStep ==
  ASSUME IInv, Next
  PROVE  PriceInv' /\ NonceInv' /\ GasCovers' /\ NoncesInLine'
<1>. USE DEF pipeVars, chainVars, handlerVars
<1>1. TypeOK /\ PriceInv /\ NonceInv /\ GasCovers /\ NoncesInLine
  BY DEF IInv
<1>2. CASE Core \/ Job \/ Reader \/ Main \/ CoreDies
  <2>1. UNCHANGED <<chainVars, draft, hpc>>
    BY <1>2 DEF Core, Job, Reader, Main, CoreDies
  <2>. QED BY <1>1, <2>1 DEF PriceInv, NonceInv, GasCovers, NoncesInLine, Reached
<1>3. CASE Block
  <2>1. GasCovers'
    BY <1>1, <1>3 DEF Block, MineBlock, GasCovers
  <2>. QED BY <1>1, <1>3, <2>1, PriceBlock, NonceBlock
<1>4. CASE Receive \/ EndOfEvents \/ UpdateWorkerStats \/ Failed \/ FetchChallenge \/ Restart
  <2>1. /\ UNCHANGED <<chainVars, draft>>
        /\ hpc' \notin {"gas", "nonce", "send"}
    BY <1>4 DEF Receive, EndOfEvents, UpdateWorkerStats, Failed, FetchChallenge, Restart
  <2>. QED BY <1>1, <2>1 DEF PriceInv, NonceInv, GasCovers, NoncesInLine, Reached
<1>5. CASE Submit
  <2>1. CASE ChooseTip \/ PackMine
    <3>1. UNCHANGED chainVars /\ hpc' \notin {"gas", "nonce", "send"}
      BY <2>1 DEF ChooseTip, PackMine, Fail
    <3>. QED BY <1>1, <3>1 DEF PriceInv, NonceInv, GasCovers, NoncesInLine, Reached
  <2>2. CASE SuggestFees
    <3>1. UNCHANGED chainVars /\ hpc' \notin {"nonce", "send"}
      BY <2>2 DEF SuggestFees, Fail
    <3>2. NonceInv' /\ GasCovers' /\ NoncesInLine'
      BY <1>1, <3>1 DEF NonceInv, GasCovers, NoncesInLine, Reached
    <3>3. hpc' = "gas" => ~Fail
      BY DEF Fail
    <3>4. hpc' = "gas" => draft'.at <= head' /\ Fresh(head' - draft'.at, draft'.cap - draft'.tip, base')
      <4>1. SUFFICES ASSUME hpc' = "gas" PROVE draft'.at <= head /\ Fresh(head - draft'.at, draft'.cap - draft'.tip, base)
        BY <3>1
      <4>2. draft'.at = head /\ Fresh(0, draft'.cap - draft'.tip, base)
        BY <1>1, <2>2, <3>3, <4>1, FeesSuggested
      <4>3. head \in Nat /\ head - head = 0
        BY <1>1 DEF TypeOK
      <4>. QED BY <4>2, <4>3
    <3>5. PriceInv'
      BY <1>1, <3>1, <3>4 DEF PriceInv
    <3>. QED BY <3>2, <3>5
  <2>3. CASE EstimateGas
    <3>1. PICK est \in Nat : draft' = [draft EXCEPT !.estimate = est, !.gas = GasLimit(est)]
      BY <2>3, SubmitterAssumption DEF EstimateGas
    <3>2. /\ draft'.at = draft.at /\ draft'.cap = draft.cap /\ draft'.tip = draft.tip
          /\ draft'.estimate = est /\ draft'.gas = GasLimit(est)
      BY <1>1, <3>1 DEF TypeOK, Amounts
    <3>3. UNCHANGED chainVars /\ hpc = "gas" /\ hpc' = "nonce"
      BY <2>3 DEF EstimateGas
    <3>4. GasCovers'
      BY <3>2, GasBounds DEF GasCovers
    <3>5. PriceInv'
      BY <1>1, <3>2, <3>3 DEF PriceInv
    <3>. QED BY <1>1, <3>3, <3>4, <3>5 DEF NonceInv, NoncesInLine, Reached
  <2>4. CASE ReadNonce
    <3>1. UNCHANGED chainVars /\ hpc = "nonce"
      BY <2>4 DEF ReadNonce
    <3>2. CASE Fail
      BY <1>1, <3>1, <3>2, <2>4, NonceRead DEF Fail, PriceInv, GasCovers
    <3>3. ASSUME NEW v \in Views, draft' = [draft EXCEPT !.nonce = PendingNonce(v), !.knew = Known(v)]
          PROVE  PriceInv' /\ NonceInv' /\ GasCovers' /\ NoncesInLine'
      <4>1. /\ draft'.at = draft.at /\ draft'.cap = draft.cap /\ draft'.tip = draft.tip
            /\ draft'.estimate = draft.estimate /\ draft'.gas = draft.gas
        BY <1>1, <3>3 DEF TypeOK, Amounts
      <4>. QED BY <1>1, <2>4, <3>1, <4>1, NonceRead DEF PriceInv, GasCovers
    <3>. QED BY <2>4, <3>2, <3>3 DEF ReadNonce
  <2>5. CASE SendTransaction
    <3>1. GasCovers'
      BY <2>5 DEF SendTransaction, Fail, GasCovers
    <3>. QED BY <2>5, <3>1, SentStep
  <2>. QED BY <1>5, <2>1, <2>2, <2>3, <2>4, <2>5 DEF Submit, SubmitMine
<1>. QED BY <1>2, <1>3, <1>4, <1>5 DEF Next, Handler

\* A step keeps the reason of an idle core.
LEMMA IdleStep ==
  ASSUME IInv, Next
  PROVE  IdleForAReason'
<1>. USE DEF pipeVars, chainVars, handlerVars
<1>1. TypeOK /\ StreamInv /\ IdleForAReason
  BY DEF IInv
<1>2. CASE Core
  <2>1. PICK kind \in LineKinds :
          /\ pipe' = Append(pipe, Line(written + 1, kind)) /\ (kind = "found" => grinds)
          /\ grinds' = (grinds /\ kind # "found")
    BY <1>2 DEF Core, WriteLine
  <2>2. Line(written + 1, kind) \in Event /\ Line(written + 1, kind).kind = kind /\ pipe \in Seq(Event)
    BY <1>1, <1>2 DEF Core, WriteLine, TypeOK, Event, Line
  <2>3. OnItsWay(pipe') <=> OnItsWay(pipe) \/ kind = "found"
    BY <2>1, <2>2, WayAppend
  <2>4. UNCHANGED <<lost, held, events, orders, hpc>>
    BY <1>2 DEF Core, WriteLine
  <2>. QED BY <1>1, <2>1, <2>3, <2>4 DEF IdleForAReason
<1>3. CASE Block
  BY <1>1, <1>3 DEF Block, MineBlock, IdleForAReason
<1>4. CASE Reader
  <2>1. CASE Scan
    <3>1. CASE pipe # <<>>
      <4>1. OnItsWay(pipe) <=> Head(pipe).kind = "found" \/ OnItsWay(Tail(pipe))
        BY <1>1, <3>1, WayTail DEF TypeOK
      <4>2. held.kind # "found"
        BY <1>1, <2>1 DEF Scan, StreamInv, Nothing, Line
      <4>3. /\ pipe' = Tail(pipe) /\ UNCHANGED <<grinds, lost, events, orders, hpc>>
            /\ Head(pipe).kind = "found" => held' = Head(pipe)
        BY <1>4, <2>1, <3>1 DEF Reader, Scan
      <4>. QED BY <1>1, <4>1, <4>2, <4>3 DEF IdleForAReason
    <3>2. CASE pipe = <<>>
      BY <1>1, <1>4, <2>1, <3>2 DEF Reader, Scan, IdleForAReason
    <3>. QED BY <3>1, <3>2
  <2>2. CASE Deliver
    <3>1. OnItsWay(Append(events, held)) <=> OnItsWay(events) \/ held.kind = "found"
      BY <1>1, WayAppend DEF TypeOK
    <3>2. UNCHANGED <<grinds, pipe, orders, hpc>>
      BY <1>4, <2>2 DEF Reader, Deliver
    <3>3. CASE events' = Append(events, held) /\ lost' = lost
      BY <1>1, <3>1, <3>2, <3>3 DEF IdleForAReason
    <3>4. CASE events' = events /\ lost' = (lost \/ held.kind = "found")
      BY <1>1, <3>2, <3>4 DEF IdleForAReason
    <3>. QED BY <2>2, <3>3, <3>4 DEF Deliver
  <2>3. CASE CloseEvents
    BY <1>1, <1>4, <2>3 DEF Reader, CloseEvents, IdleForAReason
  <2>. QED BY <1>4, <2>1, <2>2, <2>3 DEF Reader, ReadEvents
<1>5. CASE Main
  <2>1. UNCHANGED <<grinds, pipe, held, events, hpc>> /\ (lost => lost') /\ (orders > 0 => orders' > 0)
    BY <1>1, <1>5 DEF Main, RetargetLock, RetargetSend, SendCommand, StopKill, StopWait, TypeOK
  <2>. QED BY <1>1, <2>1 DEF IdleForAReason
<1>8. CASE Job
  BY <1>8 DEF Job, TakeCommand, IdleForAReason
<1>6. CASE CoreDies
  BY <1>6 DEF CoreDies, Die, IdleForAReason
<1>7. CASE Handler
  <2>1. CASE Receive
    <3>1. events # <<>>
      BY <2>1 DEF Receive
    <3>2. OnItsWay(events) <=> Head(events).kind = "found" \/ OnItsWay(Tail(events))
      BY <1>1, <3>1, WayTail DEF TypeOK
    <3>3. /\ events' = Tail(events) /\ UNCHANGED <<grinds, lost, pipe, held, orders>> /\ hpc = "recv"
          /\ Head(events).kind = "found" => hpc' = "found"
      BY <2>1 DEF Receive
    <3>. QED BY <1>1, <3>2, <3>3 DEF IdleForAReason
  <2>2. CASE EndOfEvents \/ UpdateWorkerStats
    BY <1>1, <2>2 DEF EndOfEvents, UpdateWorkerStats, IdleForAReason
  <2>6. CASE FetchChallenge
    BY <2>6 DEF FetchChallenge, IdleForAReason
  <2>3. CASE Failed
    BY <2>3 DEF Failed, IdleForAReason
  <2>4. CASE Restart
    <3>1. hpc' = "failed" \/ orders' > 0
      BY <1>1, <2>4 DEF Restart, SendCommand, TypeOK
    <3>. QED BY <3>1 DEF IdleForAReason
  <2>5. CASE Submit
    <3>1. hpc' \notin {"recv", "stats", "done"}
      BY <2>5 DEF Submit, SubmitMine, ChooseTip, PackMine, SuggestFees, EstimateGas, ReadNonce,
                  SendTransaction, Fail
    <3>. QED BY <3>1 DEF IdleForAReason
  <2>. QED BY <1>7, <2>1, <2>2, <2>3, <2>4, <2>5, <2>6 DEF Handler
<1>. QED BY <1>2, <1>3, <1>4, <1>5, <1>6, <1>7, <1>8 DEF Next

\* A step that changes nothing keeps the invariant.
LEMMA StutterKeeps ==
  ASSUME IInv, UNCHANGED vars
  PROVE  IInv'
<1>. USE DEF vars, pipeVars, chainVars, handlerVars
<1>1. TypeOK' /\ StreamInv'
  BY DEF IInv, TypeOK, StreamInv
<1>2. PriceInv' /\ NonceInv' /\ GasCovers' /\ NoncesInLine' /\ IdleForAReason'
  BY DEF IInv, PriceInv, NonceInv, GasCovers, NoncesInLine, IdleForAReason, Reached
<1>. QED BY <1>1, <1>2 DEF IInv

\* The inductive invariant holds in every behaviour of a worker, its handler and its account.
THEOREM Invariant == Spec => []IInv
<1>1. IInv /\ [Next]_vars => IInv'
  <2>1. ASSUME IInv, Next PROVE IInv'
    BY <2>1, TypeStep, StreamStep, ChainStep, IdleStep DEF IInv
  <2>. QED BY <2>1, StutterKeeps
<1>. QED BY <1>1, InitIInv, PTL DEF Spec

\* Variables have their types, and pipe and channel stay within their capacities, whatever these are.
THEOREM TypesCorrect == Spec => []TypeOK
<1>1. IInv => TypeOK
  BY DEF IInv
<1>. QED BY <1>1, Invariant, PTL

\* A transaction of SubmitMine pays the base fee and its whole tip for five blocks after the header
\* it was priced by, for any fees and tips.
THEOREM TransactionsCanWait == Spec => []PricedForFiveBlocks
<1>1. IInv => PricedForFiveBlocks
  <2>1. ASSUME IInv, NEW i \in DOMAIN txs, head - txs[i].at <= 5
        PROVE  txs[i].cap >= base + txs[i].tip
    <3>1. TypeOK /\ PriceInv
      BY <2>1 DEF IInv
    <3>2. /\ txs[i].at \in Nat /\ txs[i].cap \in Nat /\ txs[i].tip \in Nat /\ head \in Nat /\ base \in Nat
          /\ txs[i].at <= head
      BY <3>1, TxsTyped DEF TypeOK, PriceInv
    <3>3. Fresh(head - txs[i].at, txs[i].cap - txs[i].tip, base)
      BY <3>1 DEF PriceInv
    <3>4. head - txs[i].at \in Nat /\ txs[i].cap - txs[i].tip \in Int
      BY <3>2
    <3>5. base <= txs[i].cap - txs[i].tip
      BY <2>1, <3>2, <3>3, <3>4, FreshPays
    <3>. QED BY <3>2, <3>5
  <2>. QED BY <2>1 DEF PricedForFiveBlocks
<1>. QED BY <1>1, Invariant, PTL

\* For any floor, ceiling and multiplier the gas limit lies where GasCovers says, and covers the
\* estimate when the multiplier is at least one.
THEOREM GasIsCovered == Spec => []GasCovers
<1>1. IInv => GasCovers
  BY DEF IInv
<1>. QED BY <1>1, Invariant, PTL

\* Two transactions of the account compete for a nonce only when the endpoint that gave the second
\* its nonce had not heard of the first, and none waits for a nonce nobody has: for any number of
\* solutions, failures, lost answers and retargets, and whatever the endpoints know.
THEOREM NoncesDoNotCompete == Spec => []NoncesInLine
<1>1. IInv => NoncesInLine
  BY DEF IInv
<1>. QED BY <1>1, Invariant, PTL

\* A core without a job has a solution or a new job on its way, unless since its last job a solution
\* was lost, or it refused that job or died.
THEOREM IdleOnlyForAReason == Spec => []IdleForAReason
<1>1. IInv => IdleForAReason
  BY DEF IInv
<1>. QED BY <1>1, Invariant, PTL

-----------------------------------------------------------------------------
\* The numbers of the pending lines are at most the number of lines written.
LEMMA PendingTyped ==
  ASSUME StreamInv, written \in Nat
  PROVE  /\ Pending \in Seq(0 .. written)
         /\ Ids(events) \in Seq(0 .. written) /\ Ids(pipe) \in Seq(0 .. written)
         /\ held.id \in 0 .. written /\ <<held.id>> \in Seq(0 .. written)
         /\ \A i \in DOMAIN Pending : Pending[i] <= written
<1>1. /\ Ids(events) \in Seq(0 .. written) /\ Ids(pipe) \in Seq(0 .. written)
      /\ held.id \in 0 .. written
  BY IdsSeq DEF StreamInv, Rec
<1>2. <<held.id>> \in Seq(0 .. written) /\ <<>> \in Seq(0 .. written)
  BY <1>1
<1>3. Pending \in Seq(0 .. written)
  BY <1>1, <1>2, ConcatProperties DEF Pending
<1>4. ASSUME NEW i \in DOMAIN Pending PROVE Pending[i] <= written
  <2>1. i \in 1 .. Len(Pending)
    BY <1>3, LenProperties
  <2>2. Pending[i] \in 0 .. written
    BY <1>3, <2>1, ElementOfSeq
  <2>. QED BY <2>2
<1>. QED BY <1>1, <1>2, <1>3, <1>4

\* The abstract state and its steps, as the worker sees them.
over == hpc = "done"
StreamNext == Stream!Put \/ Stream!Lose \/ Stream!Take \/ Stream!End
Same == Pending' = Pending /\ received' = received /\ over' = over

\* A line is written.
LEMMA PutStep ==
  ASSUME IInv, Core
  PROVE  StreamNext
<1>. USE DEF pipeVars, chainVars, handlerVars
<1>1. TypeOK /\ StreamInv /\ written \in Nat /\ written' = written + 1
  BY DEF IInv, TypeOK, Core, WriteLine
<1>2. PICK kind \in LineKinds : pipe' = Append(pipe, Line(written + 1, kind))
  BY DEF Core, WriteLine
<1>3. UNCHANGED <<events, reader, held, received, hpc>> /\ hpc # "done"
  BY <1>1 DEF Core, WriteLine, StreamInv
<1>4. Line(written + 1, kind) \in Rec(written + 1) /\ Line(written + 1, kind).id = written + 1
  BY <1>1 DEF Line, Rec
<1>. DEFINE A == Ids(events) \o (IF reader = "deliver" THEN <<held.id>> ELSE <<>>)
            S == 0 .. (written + 1)
<1>5. A \in Seq(S) /\ Ids(pipe) \in Seq(S) /\ pipe \in Seq(Rec(written + 1))
  <2>1. Seq(0 .. written) \subseteq Seq(S) /\ pipe \in Seq(Rec(written + 1))
    BY <1>1, RecGrows DEF StreamInv
  <2>2. Ids(events) \in Seq(S) /\ Ids(pipe) \in Seq(S) /\ <<held.id>> \in Seq(S) /\ <<>> \in Seq(S)
    BY <1>1, <2>1, PendingTyped
  <2>. QED BY <2>1, <2>2, ConcatProperties
<1>6. Ids(pipe') = Append(Ids(pipe), written + 1)
  <2>1. written + 1 \in Nat
    BY <1>1
  <2>2. \A w \in Nat : \A q, e : q \in Seq(Rec(w)) /\ e \in Rec(w) => Ids(Append(q, e)) = Append(Ids(q), e.id)
    BY IdsAppend DEF Rec
  <2>3. Ids(Append(pipe, Line(written + 1, kind))) = Append(Ids(pipe), Line(written + 1, kind).id)
    BY <1>4, <1>5, <2>1, <2>2
  <2>. QED BY <1>2, <1>4, <2>3
<1>7. Pending' = Append(Pending, written + 1)
  <2>1. written + 1 \in S
    BY <1>1
  <2>2. Pending' = A \o Append(Ids(pipe), written + 1)
    BY <1>3, <1>6 DEF Pending
  <2>3. Pending = A \o Ids(pipe)
    BY DEF Pending
  <2>. HIDE DEF A, S
  <2>. QED BY <1>5, <2>1, <2>2, <2>3, ConcatAppend
<1>8. written + 1 \in UNION {1 .. b.lines : b \in Bounds}
  <2>1. PICK b \in Bounds : written + 1 <= b.lines
    BY <1>1 DEF Core, Within
  <2>2. written + 1 \in 1 .. b.lines
    BY <1>1, <2>1, BoundsAssumption
  <2>. QED BY <2>2
<1>9. \A i \in DOMAIN Pending : written + 1 > Pending[i]
  <2>1. ASSUME NEW i \in DOMAIN Pending PROVE written + 1 > Pending[i]
    <3>1. i \in 1 .. Len(Pending) /\ Pending \in Seq(0 .. written)
      BY <1>1, PendingTyped, LenProperties
    <3>2. Pending[i] \in 0 .. written
      BY <3>1, ElementOfSeq
    <3>. QED BY <1>1, <3>2
  <2>. QED BY <2>1
<1>10. \A i \in DOMAIN received : written + 1 > received[i]
  <2>1. ASSUME NEW i \in DOMAIN received PROVE written + 1 > received[i]
    <3>1. i \in 1 .. Len(received) /\ received \in Seq(0 .. written)
      BY <1>1, LenProperties DEF StreamInv
    <3>2. received[i] \in 0 .. written
      BY <3>1, ElementOfSeq
    <3>. QED BY <1>1, <3>2
  <2>. QED BY <2>1
<1>. QED BY <1>3, <1>7, <1>8, <1>9, <1>10 DEF StreamNext, Stream!Put

\* An entry of the pending lines is dropped.
LEMMA LoseAt ==
  ASSUME NEW S, NEW a \in Seq(S), NEW b \in Seq(S), b # <<>>,
         Pending = a \o b, Pending' = a \o Tail(b), received' = received, over' = over
  PROVE  StreamNext
<1>1. LET i == Len(a) + 1 IN
        i \in DOMAIN Pending
        /\ Pending' = SubSeq(Pending, 1, i - 1) \o SubSeq(Pending, i + 1, Len(Pending))
  BY LoseFirst
<1>. QED BY <1>1 DEF StreamNext, Stream!Lose, over

\* The reader moves a line on, or drops it.
LEMMA ReaderStep ==
  ASSUME IInv, Reader
  PROVE  StreamNext \/ Same
<1>. USE DEF chainVars, handlerVars
<1>1. TypeOK /\ StreamInv /\ written \in Nat
  BY DEF IInv, TypeOK
<1>2. received' = received /\ hpc' = hpc /\ over' = over
  BY DEF Reader, over
<1>. DEFINE S == 0 .. written  A == Ids(events)  C == Ids(pipe)
<1>3. A \in Seq(S) /\ C \in Seq(S) /\ held.id \in S /\ <<held.id>> \in Seq(S) /\ <<>> \in Seq(S)
  BY <1>1, PendingTyped
<1>4. CASE Scan
  <2>1. reader = "scan" /\ events' = events
    BY <1>4 DEF Scan
  <2>2. Pending = A \o C
    BY <1>3, <2>1, ConcatEmptySeq DEF Pending
  <2>3. CASE pipe # <<>>
    <3>1. pipe' = Tail(pipe) /\ Tail(C) = Ids(Tail(pipe)) /\ C # <<>> /\ Head(C) = Head(pipe).id
      BY <1>1, <1>4, <2>3, IdsTail DEF Scan, StreamInv, Rec
    <3>2. CASE reader' = "deliver" /\ held' = Head(pipe)
      <4>1. Pending' = (A \o <<Head(C)>>) \o Tail(C)
        BY <2>1, <3>1, <3>2 DEF Pending
      <4>2. Head(C) \in S /\ Tail(C) \in Seq(S) /\ <<Head(C)>> \in Seq(S)
        <5>. HIDE DEF C, S
        <5>1. Head(C) \in S /\ Tail(C) \in Seq(S)
          BY <1>3, <3>1, HeadTailProperties
        <5>. QED BY <5>1
      <4>3. C = <<Head(C)>> \o Tail(C)
        <5>. HIDE DEF C, S
        <5>1. Len(C) \in Nat \ {0} /\ SubSeq(C, 1, Len(C)) = C /\ Tail(C) = SubSeq(C, 2, Len(C)) /\ Head(C) = C[1]
          BY <1>3, <3>1, EmptySeq, SubSeqFull, TailIsSubSeq
        <5>2. SubSeq(C, 1, Len(C)) = <<C[1]>> \o SubSeq(C, 1 + 1, Len(C))
          BY <1>3, <5>1, SubSeqRecursiveFirst
        <5>. QED BY <5>1, <5>2
      <4>4. Pending' = Pending
        <5>. HIDE DEF A, C, S
        <5>1. (A \o <<Head(C)>>) \o Tail(C) = A \o (<<Head(C)>> \o Tail(C))
          BY <1>3, <4>2, ConcatAssociative
        <5>. QED BY <2>2, <4>1, <4>3, <5>1, Zenon
      <4>. QED BY <1>2, <4>4 DEF Same
    <3>3. CASE reader' = reader
      <4>1. Tail(C) \in Seq(S)
        BY <1>3, <3>1, HeadTailProperties
      <4>2. Pending' = A \o Tail(C)
        <5>1. Pending' = A \o Ids(Tail(pipe))
          <6>1. reader' = "scan" /\ events' = events /\ pipe' = Tail(pipe)
            BY <2>1, <3>1, <3>3
          <6>2. Pending' = (A \o <<>>) \o Ids(Tail(pipe))
            BY <6>1 DEF Pending
          <6>. QED BY <1>3, <6>2, ConcatEmptySeq
        <5>. QED BY <3>1, <5>1
      <4>. HIDE DEF A, C, S
      <4>. QED BY <1>2, <1>3, <2>2, <3>1, <4>2, LoseAt
    <3>. QED BY <1>4, <2>3, <3>2, <3>3 DEF Scan
  <2>4. CASE pipe = <<>>
    <3>1. pipe' = pipe /\ reader' = "end"
      BY <1>4, <2>4 DEF Scan
    <3>2. Pending' = Pending
      BY <2>1, <3>1 DEF Pending
    <3>. QED BY <1>2, <3>2 DEF Same
  <2>. QED BY <2>3, <2>4
<1>5. CASE Deliver
  <2>1. reader = "deliver" /\ reader' = "scan" /\ pipe' = pipe
    BY <1>5 DEF Deliver
  <2>2. Pending = (A \o <<held.id>>) \o C
    BY <2>1 DEF Pending
  <2>3. CASE events' = Append(events, held)
    <3>1. Ids(events') = A \o <<held.id>>
      <4>1. Ids(events') = Append(A, held.id)
        BY <1>1, <2>3, IdsAppend, Zenon DEF StreamInv, Rec
      <4>2. Append(A, held.id) = A \o <<held.id>>
        BY <1>3, AppendIsConcat, Zenon
      <4>. QED BY <4>1, <4>2, Zenon
    <3>2. A \o <<held.id>> \in Seq(S)
      BY <1>3, ConcatProperties
    <3>3. Pending' = ((A \o <<held.id>>) \o <<>>) \o C
      BY <2>1, <3>1 DEF Pending
    <3>4. (A \o <<held.id>>) \o <<>> = A \o <<held.id>>
      BY <3>2, ConcatEmptySeq
    <3>. QED BY <1>2, <2>2, <3>3, <3>4 DEF Same
  <2>4. CASE events' = events
    <3>. DEFINE B == <<held.id>> \o C
    <3>1. B \in Seq(S) /\ B # <<>> /\ Tail(B) = <<>> \o C
      <4>1. <<held.id>> # <<>> /\ Tail(<<held.id>>) = <<>>
        OBVIOUS
      <4>. QED BY <1>3, <4>1, ConcatHeadTail, ConcatProperties
    <3>2. Pending = A \o B
      BY <1>3, <2>2, ConcatAssociative
    <3>3. Tail(B) = C
      BY <1>3, <3>1, ConcatEmptySeq
    <3>4. Pending' = A \o Tail(B)
      BY <1>3, <2>1, <2>4, <3>3, ConcatEmptySeq DEF Pending
    <3>. HIDE DEF A, B, C, S
    <3>. QED BY <1>2, <1>3, <3>1, <3>2, <3>4, LoseAt
  <2>. QED BY <1>5, <2>3, <2>4 DEF Deliver
<1>6. CASE CloseEvents
  <2>1. UNCHANGED <<pipe, events, held>> /\ reader = "end" /\ reader' = "done"
    BY <1>6 DEF CloseEvents
  <2>2. Pending' = Pending
    BY <2>1 DEF Pending
  <2>. QED BY <1>2, <2>2 DEF Same
<1>. QED BY <1>4, <1>5, <1>6 DEF Reader, ReadEvents

\* The handler takes the oldest line, or sees the end when there is none left.
LEMMA HandlerStep ==
  ASSUME IInv, Handler
  PROVE  StreamNext \/ Same
<1>. USE DEF pipeVars
<1>1. TypeOK /\ StreamInv /\ written \in Nat
  BY DEF IInv, TypeOK
<1>2. CASE Receive
  <2>. DEFINE S == 0 .. written  A == Ids(events)  C == Ids(pipe)
              M == IF reader = "deliver" THEN <<held.id>> ELSE <<>>
  <2>1. /\ UNCHANGED <<pipe, reader, held>> /\ events' = Tail(events) /\ events # <<>>
        /\ received' = Append(received, Head(events).id) /\ hpc = "recv" /\ hpc' # "done"
    BY <1>2 DEF Receive
  <2>2. A \in Seq(S) /\ C \in Seq(S) /\ M \in Seq(S)
    <3>1. A \in Seq(S) /\ C \in Seq(S) /\ <<held.id>> \in Seq(S)
      BY <1>1, PendingTyped
    <3>2. <<>> \in Seq(S)
      BY EmptySeq
    <3>. QED BY <3>1, <3>2
  <2>3. A # <<>> /\ Head(A) = Head(events).id /\ Ids(Tail(events)) = Tail(A)
    BY <1>1, <2>1, IdsTail DEF StreamInv, Rec
  <2>4. Pending = (A \o M) \o C /\ Pending' = (Tail(A) \o M) \o C
    BY <2>1, <2>3 DEF Pending
  <2>. HIDE DEF A, C, M, S
  <2>5. (A \o M) \in Seq(S) /\ A \o M # <<>> /\ Head(A \o M) = Head(A) /\ Tail(A \o M) = Tail(A) \o M
    BY <2>2, <2>3, ConcatHeadTail, ConcatProperties
  <2>6. Pending # <<>> /\ Head(Pending) = Head(A) /\ Tail(Pending) = (Tail(A) \o M) \o C
    <3>. DEFINE B == A \o M
    <3>1. B \in Seq(S) /\ B # <<>>
      BY <2>5
    <3>2. Head(B) = Head(A) /\ Tail(B) = Tail(A) \o M /\ Pending = B \o C
      BY <2>4, <2>5
    <3>. HIDE DEF B
    <3>3. B \o C # <<>> /\ Head(B \o C) = Head(B) /\ Tail(B \o C) = Tail(B) \o C
      BY <2>2, <3>1, ConcatHeadTail
    <3>. QED BY <3>2, <3>3
  <2>. QED BY <2>1, <2>3, <2>4, <2>6 DEF StreamNext, Stream!Take
<1>3. CASE EndOfEvents
  <2>1. hpc = "recv" /\ hpc' = "done" /\ events = <<>> /\ closed /\ UNCHANGED <<pipeVars, received>>
    BY <1>3 DEF EndOfEvents
  <2>2. reader = "done" /\ pipe = <<>>
    BY <1>1, <2>1 DEF StreamInv
  <2>3. Ids(<<>>) = <<>>
    BY EmptySeq DEF Ids
  <2>4. Pending = <<>>
    <3>1. Pending = (<<>> \o <<>>) \o <<>>
      BY <2>1, <2>2, <2>3 DEF Pending
    <3>2. <<>> \in Seq(Nat)
      BY EmptySeq
    <3>. QED BY <3>1, <3>2, ConcatEmptySeq
  <2>5. Pending' = Pending
    BY <2>1 DEF Pending
  <2>. QED BY <2>1, <2>4, <2>5 DEF StreamNext, Stream!End
<1>4. CASE UpdateWorkerStats \/ Failed \/ FetchChallenge \/ Restart
  <2>1. UNCHANGED <<pipe, events, reader, held, received>> /\ hpc # "done" /\ hpc' # "done"
    BY <1>4 DEF UpdateWorkerStats, Failed, FetchChallenge, Restart
  <2>2. Pending' = Pending
    BY <2>1 DEF Pending
  <2>. QED BY <2>1, <2>2 DEF Same, over
<1>5. CASE Submit
  <2>1. UNCHANGED <<pipe, events, reader, held, received>> /\ hpc # "done" /\ hpc' # "done"
    BY <1>5 DEF Submit, SubmitMine, ChooseTip, PackMine, SuggestFees, EstimateGas, ReadNonce,
                SendTransaction, Fail
  <2>2. Pending' = Pending
    BY <2>1 DEF Pending
  <2>. QED BY <2>1, <2>2 DEF Same, over
<1>. QED BY <1>2, <1>3, <1>4, <1>5 DEF Handler

\* Blocks, jobs, Stop and the death of the core leave the stream alone.
LEMMA OtherStep ==
  ASSUME IInv, Job \/ Block \/ Main \/ CoreDies \/ UNCHANGED vars
  PROVE  Same
<1>1. UNCHANGED <<pipe, events, reader, held, received, hpc>>
  BY DEF Job, TakeCommand, Block, MineBlock, Main, RetargetLock, RetargetSend, StopKill, StopWait, CoreDies,
       Die, pipeVars, chainVars, handlerVars, vars
<1>2. Pending' = Pending
  BY <1>1 DEF Pending
<1>. QED BY <1>1, <1>2 DEF Same, over

\* Worker implements EventStream, for any capacities of pipe and channel: the handler receives lines
\* in the order they were written, each at most once, and nothing after the end.
THEOREM WorkerIsAStream == Spec => IsEventStream
<1>1. Init => Stream!Init
  <2>1. ASSUME Init PROVE Pending = <<>>
    <3>1. events = <<>> /\ pipe = <<>> /\ reader = "scan"
      BY <2>1 DEF Init, PipeInit
    <3>2. Ids(<<>>) = <<>>
      BY EmptySeq DEF Ids
    <3>3. Pending = (<<>> \o <<>>) \o <<>>
      BY <3>1, <3>2 DEF Pending
    <3>4. <<>> \in Seq(Nat)
      BY EmptySeq
    <3>. QED BY <3>3, <3>4, ConcatEmptySeq
  <2>. QED BY <2>1 DEF Init, SubmitterInit, Stream!Init
<1>2. IInv /\ [Next]_vars => StreamNext \/ Same
  BY PutStep, ReaderStep, HandlerStep, OtherStep DEF Next
<1>3. StreamNext \/ Same =>
        [Stream!Put \/ Stream!Lose \/ Stream!Take \/ Stream!End]_<<Pending, received, hpc = "done">>
  BY DEF StreamNext, Same, over
<1>. QED BY <1>1, <1>2, <1>3, Invariant, PTL DEF Spec, IsEventStream, Stream!Spec
-----------------------------------------------------------------------------
(* Stop waits for the reader, and the reader for nobody. *)

\* What readEvents has left when the core is gone: a line to scan and one to deliver for each that is
\* in the pipe, the end of the pipe, the close.
ReaderLeft ==
  2 * Len(pipe)
    + (CASE reader = "deliver" -> 3 [] reader = "scan" -> 2 [] reader = "end" -> 1 [] OTHER -> 0)

\* While Stop waits, with workersMu, readEvents can go on, whatever the handler waits for and however
\* full the channel is, or it is done and Stop can go on.
StopNeverStuck ==
  locker = "wait" => \/ reader \in {"done", "end", "deliver"}
                     \/ reader = "scan" /\ (pipe # <<>> \/ child = "dead")

\* While Stop waits, every step of readEvents brings its end closer, and no other step delays it: the
\* core writes no more, and the handler's side of the channel does not matter.
StopCloser ==
  locker = "wait" => UNCHANGED <<pipe, reader>> \/ ReaderLeft' < ReaderLeft

\* The length of the pipe is a natural number, and a line less after its head is taken.
LEMMA PipeShrinks ==
  ASSUME TypeOK
  PROVE  Len(pipe) \in Nat /\ (pipe # <<>> => Len(Tail(pipe)) = Len(pipe) - 1)
<1>1. pipe \in Seq(Event)
  BY DEF TypeOK
<1>. QED BY <1>1, LenProperties, HeadTailProperties

\* Each step of the reader counts.
LEMMA ReaderCloser ==
  ASSUME TypeOK, ReadEvents
  PROVE  ReaderLeft' < ReaderLeft
<1>. DEFINE N == Len(pipe)
            R == CASE reader = "deliver" -> 3 [] reader = "scan" -> 2 [] reader = "end" -> 1
                   [] OTHER -> 0
<1>1. N \in Nat
  BY PipeShrinks
<1>. SUFFICES 2 * N' + R' < 2 * N + R
  BY Zenon DEF ReaderLeft
<1>2. CASE Scan
  <2>1. CASE pipe # <<>>
    <3>1. N' = N - 1
      <4>1. pipe' = Tail(pipe) /\ Len(Tail(pipe)) = Len(pipe) - 1
        BY <1>2, <2>1, PipeShrinks, Zenon DEF Scan
      <4>2. N' = Len(Tail(pipe))
        BY <4>1, Zenon
      <4>. QED BY <4>1, <4>2, Zenon
    <3>2. R = 2 /\ R' \in {2, 3}
      BY <1>2, <2>1 DEF Scan
    <3>3. 2 * N' + R' < 2 * N + R
      <4>. HIDE DEF N, R
      <4>1. CASE R' = 2
        BY <1>1, <3>1, <3>2, <4>1
      <4>2. CASE R' = 3
        BY <1>1, <3>1, <3>2, <4>2
      <4>. QED BY <3>2, <4>1, <4>2
    <3>. HIDE DEF N, R
    <3>. QED BY <3>3
  <2>2. CASE pipe = <<>>
    <3>1. N' = N /\ R = 2 /\ R' = 1
      BY <1>2, <2>2 DEF Scan
    <3>2. 2 * N' + R' < 2 * N + R
      <4>. HIDE DEF N, R
      <4>. QED BY <1>1, <3>1
    <3>. HIDE DEF N, R
    <3>. QED BY <3>2
  <2>. QED BY <2>1, <2>2
<1>3. CASE Deliver \/ CloseEvents
  <2>1. N' = N /\ ((R = 3 /\ R' = 2) \/ (R = 1 /\ R' = 0))
    BY <1>3 DEF Deliver, CloseEvents
  <2>2. 2 * N' + R' < 2 * N + R
    <3>. HIDE DEF N, R
    <3>. QED BY <1>1, <2>1
  <2>. HIDE DEF N, R
  <2>. QED BY <2>2
<1>. QED BY <1>2, <1>3 DEF ReadEvents

\* Stop, which holds workersMu, waits for a goroutine that needs neither that lock, nor the handler, nor
\* room in the channel, and that ends after finitely many steps.
THEOREM StopWaitsForNobodyElse == Spec => []StopNeverStuck /\ [][StopCloser]_vars
<1>. DEFINE Stopped == locker \in {"wait", "done"} => child = "dead"
<1>1. Init => Stopped
  BY DEF Init, PipeInit
<1>2. IInv /\ Stopped /\ [Next]_vars => Stopped'
  BY DEF Next, Core, WriteLine, Block, MineBlock, Reader, ReadEvents, Scan, Deliver, CloseEvents, Main,
       RetargetLock, RetargetSend, StopKill, StopWait, Job, TakeCommand, CoreDies, Die, Handler, Receive,
       EndOfEvents, UpdateWorkerStats, Submit, Failed, FetchChallenge, Restart, vars, pipeVars
<1>3. IInv /\ Stopped => StopNeverStuck
  BY DEF IInv, TypeOK, StopNeverStuck
<1>4. IInv /\ Stopped /\ [Next]_vars => [StopCloser]_vars
  <2>. SUFFICES ASSUME IInv, locker = "wait", child = "dead", [Next]_vars
                PROVE  UNCHANGED <<pipe, reader>> \/ ReaderLeft' < ReaderLeft
    BY DEF StopCloser
  <2>1. CASE Reader
    BY <2>1, ReaderCloser DEF Reader, IInv
  <2>2. CASE ~Reader
    BY <2>2 DEF Next, Core, WriteLine, Block, MineBlock, Main, RetargetLock, RetargetSend, StopKill,
         StopWait, Job, TakeCommand, CoreDies, Die, Handler, Receive, EndOfEvents, UpdateWorkerStats,
         Submit, Failed, FetchChallenge, Restart, vars, pipeVars
  <2>. QED BY <2>1, <2>2
<1>. QED BY <1>1, <1>2, <1>3, <1>4, Invariant, PTL DEF Spec
=============================================================================
