------------------------------ MODULE MCEngine ------------------------------
(***************************************************************************)
(* Instances of Engine.  All have short channels and pipes, so that they   *)
(* fill, and two or three blocks, so that the epoch changes once or twice. *)
(***************************************************************************)
EXTENDS Engine

\* What an ABI library may do with a nil number.
AnyPack == {"panic", "error", "zero"}
\* Targets below which some of the hashes lie, and some do not.
TwoTargets == {1, 2}
TwoHashes == {0, 1}
=============================================================================
