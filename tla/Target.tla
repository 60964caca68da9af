------------------------------- MODULE Target -------------------------------
(***************************************************************************)
(* Hash below target, as the program decides it three times: byte by byte  *)
(* in the core (keccak.rs), by 64-bit words in the kernel (keccak256.cl),  *)
(* as big integers in the orchestrator (verifyLocal).  A digest has 32     *)
(* bytes; Base is the number of values of a byte, 256 in the code.         *)
(***************************************************************************)
EXTENDS Integers

CONSTANT Base   \* 256

ASSUME BaseAssumption == Base \in Nat /\ Base >= 2

Byte == 0..(Base - 1)
Digest == [0..31 -> Byte]
WordSize == Base * Base * Base * Base * Base * Base * Base * Base

\* mutant: equal is below as well
IsBelowOrEqual(r, t) == \A i \in 0..31 : r[i] > t[i] => \E j \in 0..(i - 1) : r[j] < t[j]

\* is_below_target_be: the first byte that differs decides; equal is not below.
IsBelowTargetBe(r, t) == \E i \in 0..31 : r[i] < t[i] /\ \A j \in 0..(i - 1) : r[j] = t[j]

\* Eight bytes d[k], ..., d[k+7] as a 64-bit word, the most significant one first:
\* u64::from_be_bytes on the host, bswap64 of a lane of the state in the kernel.
WordAt(d, k) ==
  ((((((d[k] * Base + d[k + 1]) * Base + d[k + 2]) * Base + d[k + 3]) * Base
     + d[k + 4]) * Base + d[k + 5]) * Base + d[k + 6]) * Base + d[k + 7]
Word(d, i) == WordAt(d, 8 * i)

\* mutant: the lanes of the state are compared as they are, least significant byte first
WordsBelowNoSwap(r, t) ==
  \E i \in 0..3 : /\ Word([j \in 0..31 |-> r[8 * (j \div 8) + 7 - (j % 8)]], i) < Word(t, i)
                  /\ \A j \in 0..(i - 1) : Word(r, j) = Word(t, j)

\* The kernel's lt: the first of the four words that differs decides.
WordsBelow(r, t) ==
  \E i \in 0..3 : Word(r, i) < Word(t, i) /\ \A j \in 0..(i - 1) : Word(r, j) = Word(t, j)

\* The digest as a big-endian integer, as the contract and verifyLocal read it
\* (big.Int.SetBytes).
Value(d) ==
  ((Word(d, 0) * WordSize + Word(d, 1)) * WordSize + Word(d, 2)) * WordSize + Word(d, 3)
=============================================================================
