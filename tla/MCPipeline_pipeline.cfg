SPECIFICATION Spec
CHECK_DEADLOCK FALSE
CONSTANTS
  EventCap = 1
  PipeCap = 1
  Tip = 1
  BumpedTip = 4
  NetworkTips = {3}
  Estimates = {3, 9}
  MinGas = 2
  MaxGas = 6
  MultNum = 3
  MultDen = 2
  FirstFees = {8}
  Bounds <- FewOfEach
INVARIANTS
  TypeOK
  PricedForFiveBlocks
  GasCovers
  NoncesInLine
  IdleForAReason
PROPERTIES
  StopReturns
  HandlerEnds
  IsEventStream
