CONSTANTS
  NoType = NoType
  Everything = Everything
  Types <- MCTypes
  RelIds <- MCRelIds
  TypeOf <- MCTypeOf
  Carried <- MCCarried
  MemoryAreas <- MCAreas
  PageSize = 2
  NoLimit = 1000
  Blocks <- MCBlocks
  Scopes <- MCScopes
  Limits = {2, 7, 1000}
  Paths <- MCPaths
  CacheMax = 3
  Requests = {r1, r2}
  Ids = {i1, i2, i3, i4}
  NoId = NoId
  Endpoint = Endpoint
  MaxFaults = 2
SPECIFICATION MCSpec
CHECK_DEADLOCK FALSE
INVARIANTS
  FetchedIsClosure
  ExportIsExact
  WalkIsFlat
  SessionsOwnClients
  OthersDoNoHarm
SYMMETRY MCSymmetry
