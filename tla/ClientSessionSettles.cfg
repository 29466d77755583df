SPECIFICATION FairSpec
CONSTANTS
  Socks = {s1, s2}
  MaxSeq = 5
  MaxUser = 1
  None = None
PROPERTIES
  LifecycleSettles
\* The bounds on sockets and sequence numbers stop a behaviour.
CHECK_DEADLOCK FALSE
