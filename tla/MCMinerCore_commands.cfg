SPECIFICATION LiveSpec
CONSTANTS
  MaxRuns = 2
  MaxReports = 2
  ProgCap = 1
  GpuAvailable = TRUE
  Commands <- AllCommands
INVARIANTS TypeOK NothingLost OneRunAtATime
PROPERTIES ImplementsProtocol StopCompletes EofExits
