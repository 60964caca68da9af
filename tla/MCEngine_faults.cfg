SPECIFICATION LiveSpec
CONSTANTS
  NumAccounts = 1
  CfgMode = "auto"
  HasGPU = TRUE
  VerifyBeforeSubmit = TRUE
  EventCap = 1
  StdinCap = 1
  MaxBlocks = 2
  MaxLag = 1
  MaxEpoch = 2
  MaxProgress = 1
  Difficulties = {1}
  Hashes = {0}
  Nonces = {1}
  CollidingNonces = TRUE
  RpcFails = TRUE
  CoreFails = TRUE
  PackNil <- AnyPack
INVARIANTS TypeOK
PROPERTIES ShutdownCompletes
