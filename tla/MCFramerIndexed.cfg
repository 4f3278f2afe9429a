SPECIFICATION Spec
CONSTANTS
  Octet = 64
  LengthOctets = 1
  NoPad = NoPad
  InitialWindow = 4
  Calls = {}
  RawFrames = {}
  Writers <- MCWriters
  Options <- MetaOptions
  MaxWrites = 4
  MaxUnread = 1
  maxReadSize = 12
  MaxFragment = 8
  Static <- MCStatic
  LiteralOctet = 0
  NeverOctet = 16
  IndexOctet = 20
  SizeUpdate = 24
  initialHeaderTableSize = 3
  NameAt <- MCNameAt
  Lower <- MCLower
  NotASCII = NotASCII
  SortedKeys <- MCSortedKeys
  WireNames <- MCWireNames
  PseudoNames <- MCPseudoNames
  BadValues = {9}
  TETrailers = 3
  Overhead = 1
  DefaultList = 40
INVARIANT
  BlocksUnderstood
CHECK_DEADLOCK FALSE
