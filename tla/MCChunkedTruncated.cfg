SPECIFICATION FairSpec
CONSTANTS
  Payloads <- MCPayloads
  RawStreams <- MCRawStreams
  MaxWrites = 1
  ReadSizes = {1, 3}
  BufSize = 6
  MaxHexDigits = 2
PROPERTY
  TruncationReported
