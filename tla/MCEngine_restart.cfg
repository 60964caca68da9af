SPECIFICATION LiveSpec
CONSTANTS
  NumAccounts = 1
  CfgMode = "cpu"
  HasGPU = FALSE
  VerifyBeforeSubmit = FALSE
  EventCap = 4
  StdinCap = 2
  MaxBlocks = 2
  MaxLag = 0
  MaxEpoch = 2
  MaxProgress = 1
  Difficulties <- TwoTargets
  Hashes <- TwoHashes
  Nonces = {1, 2}
  CollidingNonces = FALSE
  RpcFails = FALSE
  CoreFails = FALSE
  PackNil = {"zero"}
PROPERTIES FoundRestartsWorker
