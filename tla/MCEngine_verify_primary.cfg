SPECIFICATION Spec
CONSTANTS
  NumAccounts = 2
  CfgMode = "cpu"
  HasGPU = FALSE
  VerifyBeforeSubmit = TRUE
  EventCap = 2
  StdinCap = 2
  MaxBlocks = 2
  MaxLag = 0
  MaxEpoch = 2
  MaxProgress = 1
  Difficulties = {1}
  Hashes = {0}
  Nonces = {1, 2}
  CollidingNonces = FALSE
  RpcFails = FALSE
  CoreFails = FALSE
  PackNil = {"zero"}
INVARIANTS ValidSolutionPasses
