\* Conjunctions of up to three leaves on the two columns of the indexes of
\* a scan: comparisons with NULL, the least TINYINT and 2, IS [NOT] NULL.
CONSTANTS
  Null = Null
  Vals <- MainVals
  Lits <- NullLits
  CmpOps = {"Gt", "Lt", "GtEq", "LtEq", "Eq", "Spaceship", "NotEq"}
  MaxLeaves = 3
  IsNullOps = TRUE
  Connectives = {"And"}
  Build = "release"
  MaxDepth = 8
INIT Init
NEXT Next
\* A filter has finitely many leaves: once MaxLeaves is reached the filter is complete.
CHECK_DEADLOCK FALSE
INVARIANT IntoScanSound
