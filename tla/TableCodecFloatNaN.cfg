\* FLOAT and DOUBLE keys with NaNs among them: a positive NaN fails
\* f.0 >= 0.0 and is complemented, sorting among the positive subnormals.
CONSTANTS
  Types <- MainTypes
  PkIndices <- MainPk
  IndexCols <- MainIndexCols
  IndexTy = "Composite"
  Rows <- MainRows
  Projections <- MainProjections
  ScanValues <- MainScanValues
  MaxRows = 4
  TableHash <- MCTableHash
  TableName = "t1"
  FloatKeys <- FloatKeysNaN
SPECIFICATION MCSpec
INVARIANT FloatKeyOrder
