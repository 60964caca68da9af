SPECIFICATION LiveSpec
CONSTANTS
  N = 3
  Callers <- PoolCallers
  SubmitOnly = FALSE
  WrongChain <- PoolWrongChain
  Faults = {"down"}
  AppErrors = FALSE
  MaxChanges = 3
  MayClose = TRUE
INVARIANTS TypeOK FailsOver UsesRightChain NilOnlyAfterClose
PROPERTIES Served
