SPECIFICATION Spec
CONSTANTS
  t1 = t1
  t2 = t2
  t3 = t3
  d1 = d1
  d2 = d2
  l1 = l1
  ann = ann
  bo = bo
  cy = cy
  None = None
  People <- MCPeople
  Requests = {1, 2, 3}
  Terms = {t1, t2, t3}
  Dimensions = {d1, d2}
  Lines = {l1}
  StartFootprint = {t1}
  MayRetire = {t3}
  DimensionOf <- MCDimensionOf
  Dims <- MCDims
  Records <- MCRecords
  StartRecords <- MCStartRecords
  MayMove <- MCMoving
  Changes <- MCChanges
SYMMETRY Alike
\* Requests are bounded.
CHECK_DEADLOCK FALSE
INVARIANTS
  HistoryRebuildsScope
PROPERTIES
  EachIsFourEyes
  DecidedOnTodaysCounts
