SPECIFICATION Spec
CONSTANTS
  Socks = {s1, s2, s3}
  MaxSeq = 6
  MaxUser = 2
  None = None
INVARIANTS
  TypeOK
  WaitersAccountedFor
  SessionOnItsSocket
PROPERTY
  KeepsPromise
SYMMETRY Symmetry
\* The bound on sequence numbers stops a behaviour.
CHECK_DEADLOCK FALSE
