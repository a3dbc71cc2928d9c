\* A Normal index on a nullable TINYINT column holding NULL and -1: the
\* NULL entry's key is the pk alone, which sorts among the non-null keys.
CONSTANTS
  Types <- NullTypes
  PkIndices <- MainPk
  IndexCols <- NullIndexCols
  IndexTy = "Normal"
  Rows <- NullRows
  Projections <- SparseProjections
  ScanValues <- NullScanValues
  MaxRows = 2
  TableHash <- MCTableHash
  TableName = "t1"
SPECIFICATION MCSpec
INVARIANTS IndexScanExact KeyOrder
