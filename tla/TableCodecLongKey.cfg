\* A VARCHAR primary key of one byte and one of eight bytes.
CONSTANTS
  Types <- LongTypes
  PkIndices <- MainPk
  IndexCols <- NullIndexCols
  IndexTy = "Normal"
  Rows <- LongRows
  Projections <- SparseProjections
  ScanValues <- NullScanValues
  MaxRows = 2
  TableHash <- MCTableHash
  TableName = "t1"
SPECIFICATION MCSpec
INVARIANT KeyOrder
