----------------------------- MODULE MCGrindRun -----------------------------
(***************************************************************************)
(* Four CPU tasks on three pool threads, or a GPU whose batches are two    *)
(* work groups.  Two neighbours win, in the first batch of one task and    *)
(* the third of another, and in the second batch of the GPU; a third       *)
(* counter wins later.  The counters are short, so that tasks reach the    *)
(* wrap.  A byte has four values; digests differ from the target in        *)
(* several bytes, of one word or of two.                                   *)
(***************************************************************************)
EXTENDS GrindRun

\* The digest with value b at the places of f, and 1 elsewhere.
Bytes(f, b) == [i \in 0..31 |-> IF i \in f THEN b ELSE 1]

\* Winners are smaller at the first place that differs, losers are not, whatever follows.
RaceDifficulty == [i \in 0..31 |-> IF i = 3 THEN 2 ELSE 1]
RaceKeccak ==
  [c \in 0..15 |->
     CASE c = 6  -> [Bytes({3}, 1) EXCEPT ![6] = 3]
       [] c = 7  -> [Bytes({3}, 2) EXCEPT ![9] = 0, ![12] = 3]
       [] c = 11 -> [Bytes({3}, 2) EXCEPT ![31] = 0]
       [] c = 5  -> RaceDifficulty
       [] c = 2  -> [Bytes({3}, 2) EXCEPT ![4] = 2, ![6] = 0]
       [] c = 1  -> [Bytes({3}, 2) EXCEPT ![16] = 2, ![23] = 0]
       [] OTHER  -> Bytes({3}, 3)]
=============================================================================
