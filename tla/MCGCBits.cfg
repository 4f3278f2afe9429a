SPECIFICATION FairSpec
CONSTANTS
  Threads = {t1, t2}
  Arenas = {a1, a2, a3}
  Nil = Nil
  BitsLen = 24
  NElems = {64, 129}
  MaxCalls = 4
INVARIANTS
  TypeOK
  NoOverlap
  FreshNeverFull
  OnePlace
  OvershootBounded
PROPERTIES
  ImplementsService
  EveryCallReturns
