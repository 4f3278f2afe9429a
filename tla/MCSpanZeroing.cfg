SPECIFICATION FairSpec
CONSTANTS
  Threads = {t1, t2}
  ArenaPages = 3
  NumArenas = 2
  MaxSpans = 3
INVARIANTS
  TypeOK
  NeedZeroSound
  NoFalseAlarm
PROPERTIES
  ZeroedBaseMonotone
  AllocNeedsZeroReturns
