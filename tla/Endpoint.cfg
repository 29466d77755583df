SPECIFICATION FairSpec
CONSTANTS
  Ops = {o1, o2, o3}
  MaxAttempt = 2
INVARIANTS
  TypeOK
  OnlineIffSession
  ConnectingMeansTrying
  AwaitedPromiseLives
  RetryFindsSessionDown
  NoTimerAfterClose
PROPERTIES
  RecoversWhenCalm
\* A closed endpoint stops.
CHECK_DEADLOCK FALSE
