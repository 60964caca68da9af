SPECIFICATION Spec
CONSTANTS
  NumAccounts = 2
  CfgMode = "cpu"
  HasGPU = FALSE
  VerifyBeforeSubmit = FALSE
  EventCap = 1
  StdinCap = 1
  MaxBlocks = 2
  MaxLag = 0
  MaxEpoch = 2
  MaxProgress = 1
  Difficulties = {1}
  Hashes = {0}
  Nonces = {1}
  CollidingNonces = TRUE
  RpcFails = FALSE
  CoreFails = TRUE
  PackNil = {"panic", "zero"}
INVARIANTS OwnChallenge SubmittedOnce SignedWithLiveKey JobsAreCurrent
