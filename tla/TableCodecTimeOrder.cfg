\* TIME(1) values cast from strings, compared and encoded: the packed
\* fraction bits come first, so 00:00:01.5 sorts after 00:00:02.
CONSTANTS
  Types <- MainTypes
  PkIndices <- MainPk
  IndexCols <- MainIndexCols
  IndexTy = "Composite"
  Rows <- MainRows
  Projections <- MainProjections
  ScanValues <- MainScanValues
  MaxRows = 4
  TableHash <- MCTableHash
  TableName = "t1"
SPECIFICATION MCSpec
INVARIANT TimeKeyOrder
