\* A row with a NULL in a column the projection leaves out, before a
\* projected column.
CONSTANTS
  Types <- SparseTypes
  PkIndices <- MainPk
  IndexCols <- NullIndexCols
  IndexTy = "Normal"
  Rows <- SparseRows
  Projections <- SparseProjections
  ScanValues <- NullScanValues
  MaxRows = 2
  TableHash <- MCTableHash
  TableName = "t1"
SPECIFICATION MCSpec
INVARIANT ProjectedRead
