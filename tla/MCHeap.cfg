CONSTANTS
  m1 = m1
  m2 = m2
  m3 = m3
  p1 = p1
  p2 = p2
  NoP = NoP
  NoOne = NoOne
  Threads <- MCThreads
  Ps <- MCPs
  POf <- MCPOf
  Requests <- MCRequests
  Others <- MCOthers
  Hints <- MCHints
  Levels <- MCLevels
  ChunkWords = 6
  MaxBlock = 4
  MspanWords = 1
  SpansPerFix = 3
  CacheLen = 4
  FirstSpans = 2
  MaxRegions = 5
  MaxCalls = 3
  Limit = 16
  ArenaUnits = 2
  Low = 5
  Asks = {1, 3}
  HeapArenaWords = 4
  FirstArenas = 1
SPECIFICATION Spec
SYMMETRY MCSymmetry
CHECK_DEADLOCK FALSE
INVARIANTS
  MetadataDisjoint
  ChunksLinked
  SpanOnePlace
  ArenasBacked
  ArenasPlaced
