SPECIFICATION Spec
CONSTANTS
  Gs = {g1, g2, g3}
  Others = {o1, o2}
  Ps = {p1, p2}
  RunqLen = 2
  Nil = Nil
  DataqSizes = {0, 2}
  MaxOps = 4
CHECK_DEADLOCK FALSE
INVARIANTS
  TypeOK
  FifoDelivery
  WaitersHaveReason
  ReadyFindsWaiting
  OneRunQueue
  StackChansFlagged
  RecvHadMoment
  NobodyStranded
