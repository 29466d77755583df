SPECIFICATION FairSpec
CONSTANTS
  Pdus <- MCPdus
  Events <- MCEvents
  Junk <- MCJunk
  MaxPduBytes = 4
  MaxSends = 2
PROPERTIES
  DeliversPdus
  Drained
\* The bound on what is sent stops a behaviour.
CHECK_DEADLOCK FALSE
