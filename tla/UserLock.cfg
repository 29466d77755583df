SPECIFICATION FairSpec
CONSTANTS
  MaxInflight = 3
  MaxSlots = 5
INVARIANTS
  TypeOK
  InflightExact
  WaitersHaveARunner
  OvertakenOnlyPastTimeout
  BusyFlagSound
  ReadTimeoutFollowsPing
PROPERTY NoCallWaitsForever
CHECK_DEADLOCK FALSE
