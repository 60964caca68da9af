SPECIFICATION LiveSpec
CONSTANTS
  N = 2
  Callers = {1}
  SubmitOnly = FALSE
  WrongChain = {}
  Faults = {"hang"}
  AppErrors = FALSE
  MaxChanges = 1
  MayClose = FALSE
PROPERTIES Served
