CONSTANTS
  symA = symA
  symB = symB
  symC = symC
  x1 = x1
  x2 = x2
  y1 = y1
  dbx = dbx
  dby = dby
  Nodes = {n1, n2}
  Symbols <- MCSymbols
  Cells <- MCCells
  RootOf <- MCRootOf
  Protected = {symC}
  Requests <- MCRequests
  MaxDownloads = 1
  NoNode = NoNode
  NoCell = NoCell
  Everything = Everything
  MaxItems = 1
  PlcLimits = {1}
  ReadBatch = 1
  WriteBatch = 1
  MaxLosses = 0
SPECIFICATION MCSpec
INVARIANT ExploredIsFound
CHECK_DEADLOCK FALSE
SYMMETRY MCSymmetry
