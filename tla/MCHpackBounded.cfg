SPECIFICATION Spec
CONSTANTS
  Names = {":method", "etag"}
  Values = {"get", "long"}
  Length <- MCLength
  Overhead = 1
  Static <- MCStatic
  InitialSize = 4
  Sizes = {0, 2}
  Unset = 9
  Allowed = 4
  Sent <- MCSent
  NoField = NoField
  NoName = NoName
  MaxFields = 4
  MaxResizes = 2
INVARIANT
  TablesBounded
CHECK_DEADLOCK FALSE
