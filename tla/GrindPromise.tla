---------------------------- MODULE GrindPromise ----------------------------
(***************************************************************************)
(* What the run thread of the core may rely on when it calls run_cpu or    *)
(* run_gpu, whichever it is: hash counts never fall, from one progress     *)
(* update to the next and to the result; the result is a nonce that wins,  *)
(* or nothing if the run was stopped; only a GPU run may fail.             *)
(***************************************************************************)
EXTENDS NonceSpace

VARIABLES
  mode,    \* "cpu" or "gpu"
  told,    \* hashes of the last progress update
  answer   \* what the call returns

vars == <<mode, stop, told, answer>>

Running == [kind |-> "running", nonce |-> None, hashes |-> 0]
Failed == [kind |-> "failed", nonce |-> None, hashes |-> 0]

Init ==
  /\ mode \in {"cpu", "gpu"} /\ stop = FALSE
  /\ told = 0 /\ answer = Running

Raise ==
  /\ stop' = TRUE
  /\ UNCHANGED <<mode, told, answer>>

Tell ==
  /\ answer = Running /\ told' >= told
  /\ UNCHANGED <<mode, stop, answer>>

Returns(kind, nonce) ==
  /\ answer = Running
  /\ answer' = [kind |-> kind, nonce |-> nonce, hashes |-> answer'.hashes]
  /\ answer'.hashes >= told
  /\ UNCHANGED <<mode, stop, told>>
Find == \E c \in Winning : Returns("found", c)
GiveUp == stop /\ Returns("stopped", None)

Fail ==
  /\ answer = Running /\ mode = "gpu" /\ answer' = Failed
  /\ UNCHANGED <<mode, stop, told>>

Next == Raise \/ Tell \/ Find \/ GiveUp \/ Fail
Spec == Init /\ [][Next]_vars
=============================================================================
