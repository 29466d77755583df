CONSTANTS
  symA = symA
  symB = symB
  symC = symC
  x1 = x1
  x2 = x2
  y1 = y1
  dbx = dbx
  dby = dby
  Nodes = {n1, n2}
  Symbols <- MCSymbols
  Cells <- MCCells
  RootOf <- MCRootOf
  Protected = {symC}
  Requests <- MCRequests
  MaxDownloads = 1
  NoNode = NoNode
  NoCell = NoCell
  Everything = Everything
  MaxItems = 5
  PlcLimits = {1, 2, 3}
  ReadBatch = 3
  WriteBatch = 2
  MaxLosses = 2
SPECIFICATION MCSpec
CHECK_DEADLOCK FALSE
INVARIANTS
  OwnSymbol
  HealsAtOnce
  EachItemServed
SYMMETRY MCSymmetry
