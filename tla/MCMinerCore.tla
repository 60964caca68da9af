---------------------------- MODULE MCMinerCore ----------------------------
(***************************************************************************)
(* An instance of MinerCore with every kind of command.                    *)
(***************************************************************************)
EXTENDS MinerCore

Start(m, b) == [cmd |-> "start", mode |-> m, ok |-> b]
AllCommands ==
  {Start("cpu", TRUE), Start("gpu", TRUE), Start("cpu", FALSE)}
    \cup {[cmd |-> "retarget", ok |-> TRUE]}
    \cup {[cmd |-> c] : c \in {"stop", "probe", "bad", "garbled"}}
=============================================================================
