SPECIFICATION RunLiveSpec
CONSTANTS
  Tasks = 4
  Pool = 3
  Space = 16
  Stride = 4
  Batch = 3
  GpuBatch = 3
  Local = 2
  Base = 4
  Keccak <- RaceKeccak
  Difficulty <- RaceDifficulty
  None = None
INVARIANTS RunTypeOK ReturnsForCause HashesExact NoneSkipped NoFalsePositive CountWithinBatch
PROPERTIES SlotWrittenOnce KeepsPromise RunReturns FindsWinner
