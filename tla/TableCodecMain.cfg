\* Inserts before and after CREATE INDEX on a table with a signed key, a
\* string and a nullable column, read back at four projections.
CONSTANTS
  Types <- MainTypes
  PkIndices <- MainPk
  IndexCols <- MainIndexCols
  IndexTy = "Composite"
  Rows <- MainRows
  Projections <- MainProjections
  ScanValues <- MainScanValues
  MaxRows = 4
  TableHash <- MCTableHash
  TableName = "t1"
SPECIFICATION MCSpec
INVARIANTS TypeOK KeyOrder ProjectedRead IndexScanExact DecimalKeyOrder FloatKeyOrder CastExact KeySpaceIsolation TimeCastRoundTrip
