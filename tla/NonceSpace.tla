----------------------------- MODULE NonceSpace -----------------------------
(***************************************************************************)
(* What a CPU run and a GPU run have in common: a job whose nonces differ  *)
(* in a 64-bit counter, the counters that win, and the flag that stops the *)
(* run.  Keccak is a function from the counter to a digest; challenge and  *)
(* prefix are fixed for a run.                                             *)
(***************************************************************************)
EXTENDS Target

CONSTANTS
  Space,        \* number of counter values, 2^64
  Keccak,       \* keccak256(challenge || prefix || counter), for each counter
  Difficulty,   \* the target
  None          \* no nonce

Counter == 0..(Space - 1)

ASSUME SpaceAssumption == Space \in Nat \ {0} /\ None \notin Counter
ASSUME JobAssumption == Keccak \in [Counter -> Digest] /\ Difficulty \in Digest

VARIABLE stop   \* ActiveRun.stop

WrapMissing(n) == n   \* mutant: the counters do not wrap
Wrap(n) == n % Space

\* Counters whose nonce the core accepts.
Winning == {c \in Counter : IsBelowTargetBe(Keccak[c], Difficulty)}
=============================================================================
