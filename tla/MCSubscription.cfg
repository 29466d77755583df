\* Two versions, ids and records are what a change, a reuse and a stale record
\* need.  The bounds on records and on the queue end the behaviours.
CONSTANTS v1 = v1  v2 = v2  i1 = i1  i2 = i2
CONSTANTS Versions = {v1, v2}  Ids = {i1, i2}  MaxGen = 2  MaxQueue = 1  MaxLoops = 1  MaxNoti = 1  MaxLost = 1
SPECIFICATION Spec
SYMMETRY Symmetry
CONSTRAINT OneException
CHECK_DEADLOCK FALSE
INVARIANTS TypeOK RecordRouted EverySubscriptionRouted EstablishedForOwner
PROPERTY DecodedByOwnMap
