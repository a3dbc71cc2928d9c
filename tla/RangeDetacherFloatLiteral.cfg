\* One comparison of c1 (an INTEGER column) with the Float64 literal 1.5.
CONSTANTS
  Null = Null
  Vals = {0, 1, 2, 3, 4}
  Lits = {}
  FloatLits <- HalfFloatLits
  ColType = "Integer"
  C2Vals = {Null}
  CmpOps = {"Gt", "Lt", "GtEq", "LtEq", "Eq"}
  MaxLeaves = 1
  IsNullOps = FALSE
  Connectives = {"And"}
  Wrappers = {"TypeCast"}
  Build = "release"
  MaxDepth = 8
INIT Init
NEXT Next
\* A filter has finitely many leaves: once MaxLeaves is reached the filter is complete.
CHECK_DEADLOCK FALSE
INVARIANTS DetachSound
