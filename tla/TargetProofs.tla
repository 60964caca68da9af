---------------------------- MODULE TargetProofs ----------------------------
(***************************************************************************)
(* The three comparisons of a hash with a target agree, for every digest   *)
(* and every base: the byte order of the core, the word order of the       *)
(* kernel and the order of integers of the orchestrator and the contract.  *)
(***************************************************************************)
EXTENDS Target, TLAPS

\* One more digit: the number before it decides, and the digit when those are equal.
LEMMA Digit ==
  ASSUME NEW B \in Nat, NEW u \in Nat, NEW v \in Nat, NEW a \in 0..(B - 1), NEW b \in 0..(B - 1)
  PROVE  /\ u * B + a \in Nat
         /\ u * B + a < v * B + b <=> u < v \/ (u = v /\ a < b)
         /\ u * B + a = v * B + b <=> u = v /\ a = b
  <1>1. u * B \in Nat /\ v * B \in Nat /\ a \in Nat /\ b \in Nat /\ a < B /\ b < B
    BY SMT
  <1>2. ASSUME NEW x \in Nat, NEW y \in Nat, x < y PROVE x * B + B <= y * B
    <2>1. PICK d \in Nat : y = x + 1 + d
      <3>1. y - x - 1 \in Nat /\ y = x + 1 + (y - x - 1)
        BY <1>2, SMT
      <3> QED BY <3>1
    <2>2. y * B = x * B + B + d * B
      BY <2>1, SMT
    <2>3. d * B \in Nat /\ x * B \in Nat
      BY <2>1, SMT
    <2> QED BY <2>2, <2>3, SMT
  <1>3. CASE u < v
    BY <1>1, <1>2, <1>3, SMT
  <1>4. CASE v < u
    BY <1>1, <1>2, <1>4, SMT
  <1>5. CASE u = v
    BY <1>1, <1>5, SMT
  <1> QED BY <1>3, <1>4, <1>5, SMT

\* The number that the digits make up is below the power that has one digit more.
LEMMA DigitBound ==
  ASSUME NEW B \in Nat, NEW M \in Nat, NEW u \in 0..(M - 1), NEW a \in 0..(B - 1)
  PROVE  u * B + a \in 0..(M * B - 1)
  <1>1. a \in 0..(B - 1) /\ 0 \in 0..(B - 1)
    BY SMT
  <1>2. u * B + a < M * B + 0
    BY <1>1, Digit, SMT
  <1>3. u * B + a \in Nat /\ M * B \in Nat
    BY <1>1, Digit, SMT
  <1> QED BY <1>2, <1>3, SMT

-----------------------------------------------------------------------------
(* Bytes and words. *)

\* The first m bytes from k on: the first that differs is smaller in r; none differs.
BytesBelow(r, t, k, m) ==
  \E i \in 0..(m - 1) : r[k + i] < t[k + i] /\ \A j \in 0..(i - 1) : r[k + j] = t[k + j]
BytesEqual(r, t, k, m) == \A j \in 0..(m - 1) : r[k + j] = t[k + j]

\* Places of the first bytes of words.
Start == {0, 8, 16, 24}

\* One more byte, in both orders: what agrees on m bytes agrees on m + 1.
LEMMA WordStep ==
  ASSUME NEW r \in Digest, NEW t \in Digest, NEW k \in Start, NEW m \in 0..7,
         NEW u \in Nat, NEW v \in Nat,
         u < v <=> BytesBelow(r, t, k, m), u = v <=> BytesEqual(r, t, k, m)
  PROVE  /\ u * Base + r[k + m] \in Nat /\ v * Base + t[k + m] \in Nat
         /\ u * Base + r[k + m] < v * Base + t[k + m] <=> BytesBelow(r, t, k, m + 1)
         /\ u * Base + r[k + m] = v * Base + t[k + m] <=> BytesEqual(r, t, k, m + 1)
  <1>1. r[k + m] \in 0..(Base - 1) /\ t[k + m] \in 0..(Base - 1)
    <2>1. k + m \in 0..31
      BY SMT DEF Start
    <2> QED BY <2>1 DEF Digest, Byte
  <1>2. Base \in Nat
    BY BaseAssumption
  <1>3. /\ u * Base + r[k + m] \in Nat /\ v * Base + t[k + m] \in Nat
        /\ u * Base + r[k + m] < v * Base + t[k + m] <=> u < v \/ (u = v /\ r[k + m] < t[k + m])
        /\ u * Base + r[k + m] = v * Base + t[k + m] <=> u = v /\ r[k + m] = t[k + m]
    BY <1>1, <1>2, Digit
  <1>4. /\ BytesBelow(r, t, k, m + 1)
             <=> BytesBelow(r, t, k, m) \/ (BytesEqual(r, t, k, m) /\ r[k + m] < t[k + m])
        /\ BytesEqual(r, t, k, m + 1) <=> BytesEqual(r, t, k, m) /\ r[k + m] = t[k + m]
    <2>1. 0..(m + 1 - 1) = 0..(m - 1) \cup {m}
      BY SMT
    <2> QED BY <2>1 DEF BytesBelow, BytesEqual
  <1>5. u * Base + r[k + m] < v * Base + t[k + m] <=> BytesBelow(r, t, k, m + 1)
    BY <1>3, <1>4
  <1>6. u * Base + r[k + m] = v * Base + t[k + m] <=> BytesEqual(r, t, k, m + 1)
    BY <1>3, <1>4
  <1> QED BY <1>3, <1>5, <1>6

\* A word orders its eight bytes, and fits into the word size.
LEMMA WordOrder ==
  ASSUME NEW r \in Digest, NEW t \in Digest, NEW k \in Start
  PROVE  /\ WordAt(r, k) < WordAt(t, k) <=> BytesBelow(r, t, k, 8)
         /\ WordAt(r, k) = WordAt(t, k) <=> BytesEqual(r, t, k, 8)
  <1> DEFINE P1(d) == d[k]
             P2(d) == P1(d) * Base + d[k + 1]
             P3(d) == P2(d) * Base + d[k + 2]
             P4(d) == P3(d) * Base + d[k + 3]
             P5(d) == P4(d) * Base + d[k + 4]
             P6(d) == P5(d) * Base + d[k + 5]
             P7(d) == P6(d) * Base + d[k + 6]
             P8(d) == P7(d) * Base + d[k + 7]
             Agree(u, v, m) == /\ u \in Nat /\ v \in Nat
                               /\ u < v <=> BytesBelow(r, t, k, m)
                               /\ u = v <=> BytesEqual(r, t, k, m)
  <1>1. Agree(P1(r), P1(t), 1)
    <2>1. k \in 0..31 /\ k + 0 = k
      BY SMT DEF Start
    <2>2. r[k] \in Nat /\ t[k] \in Nat
      <3>1. r[k] \in 0..(Base - 1) /\ t[k] \in 0..(Base - 1)
        BY <2>1 DEF Digest, Byte
      <3> QED BY <3>1, BaseAssumption, SMT
    <2>3. 0..(1 - 1) = {0} /\ 0..(0 - 1) = {}
      BY SMT
    <2> QED BY <2>1, <2>2, <2>3 DEF BytesBelow, BytesEqual
  <1>2. ASSUME NEW m \in 1..7, NEW u, NEW v, Agree(u, v, m)
        PROVE  Agree(u * Base + r[k + m], v * Base + t[k + m], m + 1)
    <2>1. m \in 0..7
      BY SMT
    <2>2. /\ u \in Nat /\ v \in Nat
          /\ u < v <=> BytesBelow(r, t, k, m)
          /\ u = v <=> BytesEqual(r, t, k, m)
      BY <1>2, Zenon
    <2>3. /\ u * Base + r[k + m] \in Nat /\ v * Base + t[k + m] \in Nat
          /\ u * Base + r[k + m] < v * Base + t[k + m] <=> BytesBelow(r, t, k, m + 1)
          /\ u * Base + r[k + m] = v * Base + t[k + m] <=> BytesEqual(r, t, k, m + 1)
      BY <2>1, <2>2, WordStep, ZenonT(40)
    <2> QED BY <2>3, Zenon
  <1> HIDE DEF Agree
  <1>3. Agree(P2(r), P2(t), 1 + 1)
    <2> HIDE DEF P1
    <2> QED BY <1>1, <1>2, 1 \in 1..7
  <1>4. Agree(P3(r), P3(t), 2 + 1)
    <2> HIDE DEF P2
    <2> QED BY <1>2, <1>3, 2 \in 1..7, 1 + 1 = 2
  <1>5. Agree(P4(r), P4(t), 3 + 1)
    <2> HIDE DEF P3
    <2> QED BY <1>2, <1>4, 3 \in 1..7, 2 + 1 = 3
  <1>6. Agree(P5(r), P5(t), 4 + 1)
    <2> HIDE DEF P4
    <2> QED BY <1>2, <1>5, 4 \in 1..7, 3 + 1 = 4
  <1>7. Agree(P6(r), P6(t), 5 + 1)
    <2> HIDE DEF P5
    <2> QED BY <1>2, <1>6, 5 \in 1..7, 4 + 1 = 5
  <1>8. Agree(P7(r), P7(t), 6 + 1)
    <2> HIDE DEF P6
    <2> QED BY <1>2, <1>7, 6 \in 1..7, 5 + 1 = 6
  <1>9. Agree(P8(r), P8(t), 7 + 1)
    <2> HIDE DEF P7
    <2> QED BY <1>2, <1>8, 7 \in 1..7, 6 + 1 = 7
  <1>10. P8(r) = WordAt(r, k) /\ P8(t) = WordAt(t, k)
    BY Zenon DEF WordAt
  <1> HIDE DEF P8
  <1> QED BY <1>9, <1>10, 7 + 1 = 8 DEF Agree
\* A word is below the word size.
LEMMA WordBound ==
  ASSUME NEW d \in Digest, NEW k \in Start
  PROVE  WordSize \in Nat /\ WordAt(d, k) \in 0..(WordSize - 1)
  <1> DEFINE M2 == Base * Base
             M3 == M2 * Base
             M4 == M3 * Base
             M5 == M4 * Base
             M6 == M5 * Base
             M7 == M6 * Base
             M8 == M7 * Base
             In(u, M) == M \in Nat /\ u \in 0..(M - 1)
             P2 == d[k] * Base + d[k + 1]
             P3 == P2 * Base + d[k + 2]
             P4 == P3 * Base + d[k + 3]
             P5 == P4 * Base + d[k + 4]
             P6 == P5 * Base + d[k + 5]
             P7 == P6 * Base + d[k + 6]
             P8 == P7 * Base + d[k + 7]
  <1>1. ASSUME NEW m \in 0..7 PROVE d[k + m] \in 0..(Base - 1)
    <2>1. k + m \in 0..31
      BY SMT DEF Start
    <2> QED BY <2>1 DEF Digest, Byte
  <1>2. In(d[k], Base)
    <2>1. k + 0 = k
      BY SMT DEF Start
    <2> QED BY <1>1, <2>1, BaseAssumption
  <1>3. ASSUME NEW m \in 1..7, NEW u, NEW M, In(u, M) PROVE In(u * Base + d[k + m], M * Base)
    <2>1. d[k + m] \in 0..(Base - 1) /\ Base \in Nat
      BY <1>1, BaseAssumption
    <2>2. M * Base \in Nat
      BY <1>3, <2>1, SMT
    <2> QED BY <1>3, <2>1, <2>2, DigitBound
  <1> HIDE DEF In
  <1>4. In(P2, M2)
    BY <1>2, <1>3, 1 \in 1..7
  <1>5. In(P3, M3)
    <2> HIDE DEF P2, M2
    <2> QED BY <1>3, <1>4, 2 \in 1..7
  <1>6. In(P4, M4)
    <2> HIDE DEF P3, M3
    <2> QED BY <1>3, <1>5, 3 \in 1..7
  <1>7. In(P5, M5)
    <2> HIDE DEF P4, M4
    <2> QED BY <1>3, <1>6, 4 \in 1..7
  <1>8. In(P6, M6)
    <2> HIDE DEF P5, M5
    <2> QED BY <1>3, <1>7, 5 \in 1..7
  <1>9. In(P7, M7)
    <2> HIDE DEF P6, M6
    <2> QED BY <1>3, <1>8, 6 \in 1..7
  <1>10. In(P8, M8)
    <2> HIDE DEF P7, M7
    <2> QED BY <1>3, <1>9, 7 \in 1..7
  <1>11. P8 = WordAt(d, k) /\ M8 = WordSize
    BY Zenon DEF WordAt, WordSize
  <1> HIDE DEF P8, M8
  <1> QED BY <1>10, <1>11 DEF In

\* The words of two digests are the blocks of eight bytes.
LEMMA Words ==
  ASSUME NEW r \in Digest, NEW t \in Digest, NEW q \in 0..3
  PROVE  /\ Word(r, q) \in 0..(WordSize - 1)
         /\ Word(r, q) < Word(t, q) <=>
              \E p \in 0..7 : /\ r[8 * q + p] < t[8 * q + p]
                              /\ \A j \in 0..(p - 1) : r[8 * q + j] = t[8 * q + j]
         /\ Word(r, q) = Word(t, q) <=> \A p \in 0..7 : r[8 * q + p] = t[8 * q + p]
  <1>1. 8 * q \in Start
    BY SMT DEF Start
  <1>2. 8 - 1 = 7
    OBVIOUS
  <1> QED BY <1>1, <1>2, WordOrder, WordBound DEF Word, BytesBelow, BytesEqual

\* Every byte is in one word, at one place of it.
LEMMA Places ==
  /\ \A i \in 0..31 : \E q \in 0..3, p \in 0..7 : i = 8 * q + p
  /\ \A q \in 0..3, p \in 0..7 : 8 * q + p \in 0..31
  BY SMT

\* The kernel, which compares words, and the core, which compares bytes, agree on what is
\* below the target: the core never takes a find of the kernel for a false one because of
\* the way it compares (gpu.rs, is_below_target_be).
THEOREM WordsAgreeWithBytes ==
  ASSUME NEW r \in Digest, NEW t \in Digest
  PROVE  WordsBelow(r, t) <=> IsBelowTargetBe(r, t)
  <1>1. ASSUME WordsBelow(r, t) PROVE IsBelowTargetBe(r, t)
    <2>1. PICK q \in 0..3 : /\ Word(r, q) < Word(t, q)
                            /\ \A j \in 0..(q - 1) : Word(r, j) = Word(t, j)
      BY <1>1 DEF WordsBelow
    <2>2. PICK p \in 0..7 : /\ r[8 * q + p] < t[8 * q + p]
                            /\ \A j \in 0..(p - 1) : r[8 * q + j] = t[8 * q + j]
      BY <2>1, Words
    <2>3. ASSUME NEW i \in 0..(8 * q + p - 1) PROVE r[i] = t[i]
      <3>1. i \in 0..31
        BY SMT
      <3>2. PICK a \in 0..3, b \in 0..7 : i = 8 * a + b
        BY <3>1, Places
      <3>3. CASE a = q
        <4>1. b \in 0..(p - 1)
          BY <3>2, <3>3, SMT
        <4> QED BY <2>2, <3>2, <3>3, <4>1
      <3>4. CASE a # q
        <4>1. a \in 0..(q - 1)
          BY <3>2, <3>4, SMT
        <4>2. Word(r, a) = Word(t, a)
          BY <2>1, <4>1
        <4> QED BY <3>2, <4>2, Words
      <3> QED BY <3>3, <3>4
    <2>4. 8 * q + p \in 0..31
      BY Places
    <2> QED BY <2>2, <2>3, <2>4 DEF IsBelowTargetBe
  <1>2. ASSUME IsBelowTargetBe(r, t) PROVE WordsBelow(r, t)
    <2>1. PICK i \in 0..31 : r[i] < t[i] /\ \A j \in 0..(i - 1) : r[j] = t[j]
      BY <1>2 DEF IsBelowTargetBe
    <2>2. PICK q \in 0..3, p \in 0..7 : i = 8 * q + p
      BY Places
    <2>3. Word(r, q) < Word(t, q)
      <3>1. \A j \in 0..(p - 1) : 8 * q + j \in 0..(i - 1)
        BY <2>2, SMT
      <3> QED BY <2>1, <2>2, <3>1, Words
    <2>4. ASSUME NEW j \in 0..(q - 1) PROVE Word(r, j) = Word(t, j)
      <3>1. j \in 0..3 /\ \A b \in 0..7 : 8 * j + b \in 0..(i - 1)
        BY <2>2, SMT
      <3> QED BY <2>1, <3>1, Words
    <2> QED BY <2>3, <2>4 DEF WordsBelow
  <1> QED BY <1>1, <1>2

\* The orchestrator and the contract, which compare integers, agree with both
\* (engine.go, verifyLocal): a nonce that a core finds is below the target for everyone.
THEOREM ValueAgreesWithBytes ==
  ASSUME NEW r \in Digest, NEW t \in Digest
  PROVE  Value(r) < Value(t) <=> IsBelowTargetBe(r, t)
  <1> DEFINE M == WordSize
             A1(d) == Word(d, 0) * M + Word(d, 1)
             A2(d) == A1(d) * M + Word(d, 2)
             A3(d) == A2(d) * M + Word(d, 3)
             W(i) == Word(r, i) < Word(t, i)
             E(i) == Word(r, i) = Word(t, i)
  <1>1. M \in Nat
    <2>1. 0 \in Start
      BY DEF Start
    <2> QED BY <2>1, WordBound
  <1>2. ASSUME NEW i \in 0..3
        PROVE  Word(r, i) \in 0..(M - 1) /\ Word(t, i) \in 0..(M - 1)
    BY Words
  <1>3. Word(r, 0) \in Nat /\ Word(t, 0) \in Nat
    <2>1. Word(r, 0) \in 0..(M - 1) /\ Word(t, 0) \in 0..(M - 1)
      BY <1>2
    <2> HIDE DEF M
    <2> QED BY <1>1, <2>1
  <1> HIDE DEF M
  <1>4. ASSUME NEW u \in Nat, NEW v \in Nat, NEW i \in 0..3
        PROVE  /\ u * M + Word(r, i) \in Nat /\ v * M + Word(t, i) \in Nat
               /\ u * M + Word(r, i) < v * M + Word(t, i) <=> u < v \/ (u = v /\ W(i))
               /\ u * M + Word(r, i) = v * M + Word(t, i) <=> u = v /\ E(i)
    <2> DEFINE a == Word(r, i)
               b == Word(t, i)
    <2>1. a \in 0..(M - 1) /\ b \in 0..(M - 1)
      BY <1>2
    <2> HIDE DEF a, b
    <2>2. /\ u * M + a \in Nat
          /\ u * M + a < v * M + b <=> u < v \/ (u = v /\ a < b)
          /\ u * M + a = v * M + b <=> u = v /\ a = b
      BY <1>1, <2>1, Digit
    <2>3. v * M + b \in Nat
      BY <1>1, <2>1, Digit
    <2> QED BY <2>2, <2>3 DEF a, b
  <1>5. /\ A1(r) \in Nat /\ A1(t) \in Nat
        /\ A1(r) < A1(t) <=> W(0) \/ (E(0) /\ W(1))
        /\ A1(r) = A1(t) <=> E(0) /\ E(1)
    <2> DEFINE u == Word(r, 0)
               v == Word(t, 0)
    <2>1. u \in Nat /\ v \in Nat
      BY <1>3
    <2>2. W(0) <=> u < v
      OBVIOUS
    <2>3. E(0) <=> u = v
      OBVIOUS
    <2> HIDE DEF u, v, W, E
    <2>4. /\ u * M + Word(r, 1) \in Nat /\ v * M + Word(t, 1) \in Nat
          /\ u * M + Word(r, 1) < v * M + Word(t, 1) <=> u < v \/ (u = v /\ W(1))
          /\ u * M + Word(r, 1) = v * M + Word(t, 1) <=> u = v /\ E(1)
      BY <1>4, <2>1, 1 \in 0..3
    <2>5. A1(r) = u * M + Word(r, 1) /\ A1(t) = v * M + Word(t, 1)
      BY Zenon DEF u, v
    <2> HIDE DEF A1
    <2> QED BY <2>2, <2>3, <2>4, <2>5
  <1>6. /\ A2(r) \in Nat /\ A2(t) \in Nat
        /\ A2(r) < A2(t) <=> A1(r) < A1(t) \/ (A1(r) = A1(t) /\ W(2))
        /\ A2(r) = A2(t) <=> A1(r) = A1(t) /\ E(2)
    <2> HIDE DEF A1, W, E
    <2> QED BY <1>5, <1>4, 2 \in 0..3
  <1>7. A3(r) < A3(t) <=> A2(r) < A2(t) \/ (A2(r) = A2(t) /\ W(3))
    <2> HIDE DEF A2, W, E
    <2> QED BY <1>6, <1>4, 3 \in 0..3
  <1>8. A3(r) = Value(r) /\ A3(t) = Value(t)
    BY Zenon DEF Value, M
  <1> HIDE DEF A3, A2, A1
  <1>9. WordsBelow(r, t) <=>
          W(0) \/ (E(0) /\ W(1)) \/ (E(0) /\ E(1) /\ W(2)) \/ (E(0) /\ E(1) /\ E(2) /\ W(3))
    <2>1. /\ 0..3 = {0, 1, 2, 3} /\ 0..(0 - 1) = {} /\ 0..(1 - 1) = {0}
          /\ 0..(2 - 1) = {0, 1} /\ 0..(3 - 1) = {0, 1, 2}
      BY SMT
    <2> QED BY <2>1 DEF WordsBelow
  <1> HIDE DEF W, E
  <1>10. Value(r) < Value(t) <=> WordsBelow(r, t)
    BY <1>5, <1>6, <1>7, <1>8, <1>9
  <1> QED BY <1>10, WordsAgreeWithBytes
=============================================================================
