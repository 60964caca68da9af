SPECIFICATION Spec
CONSTANTS
  Procs = {p1, p2}
  Secrets = {s1, s2}
  None = none
  MaxReaders = 1
  RawConfigs <- RawFiles
SYMMETRY Symmetry
INVARIANTS
  TypeOK
  KeyRecoverable
  WipedLast
  EngineIsEquipped
