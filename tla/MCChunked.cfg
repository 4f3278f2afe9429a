SPECIFICATION FairSpec
CONSTANTS
  Payloads <- MCPayloads
  RawStreams <- MCRawStreams
  MaxWrites = 2
  ReadSizes = {1, 3}
  BufSize = 6
  MaxHexDigits = 2
INVARIANTS
  TypeOK
  DecodesStream
  BodyIntact
PROPERTIES
  ChunksArrive
  CleanBodyEnds
