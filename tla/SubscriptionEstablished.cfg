\* No notifications: they change nothing but the buffer.  Ids enough for the
\* duplicates one session can come to (see OneRoutePerRecord).
CONSTANTS v1 = v1
CONSTANTS Versions = {v1}  Ids = {1, 2, 3, 4, 5}  MaxGen = 1  MaxQueue = 1  MaxLoops = 1  MaxNoti = 0  MaxLost = 1
SPECIFICATION FairSpec
CHECK_DEADLOCK FALSE
PROPERTY Established
