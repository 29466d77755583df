SPECIFICATION ReconnectSpec
CONSTANTS
  Socks = {s1, s2, s3}
  MaxSeq = 4
  MaxUser = 0
  None = None
PROPERTIES
  ReconnectSucceeds
CHECK_DEADLOCK FALSE
