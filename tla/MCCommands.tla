----------------------------- MODULE MCCommands -----------------------------
EXTENDS Commands, TLC

\* One configuration per way to be refused, defaulted or taken as it is.
Config(miner, mode, accounts, endpoints, submit, poll) ==
  [miner |-> miner, mode |-> mode, accounts |-> accounts, endpoints |-> endpoints,
   submit |-> submit, poll |-> poll]
RawFiles ==
  {Config("", "", 0, 1, 0, 0), Config("cpu", "multi", 2, 2, 1, 9000),
   Config("gpu", "multi", -1, 1, 0, 0), Config("auto", "single", 0, 1, 0, -1),
   Config("cpu", "other", 1, 1, 0, 0), Config("other", "single", 1, 0, 0, 0)}

Symmetry == Permutations(Procs) \cup Permutations(Secrets)
=============================================================================
