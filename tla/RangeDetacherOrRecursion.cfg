\* OR of three comparisons on c1.
CONSTANTS
  Null = Null
  Vals = {0, 1, 2, 3, 4}
  Lits = {1, 2}
  FloatLits = {}
  ColType = "Integer"
  C2Vals = {Null}
  CmpOps = {"Gt", "Lt", "GtEq", "LtEq", "Eq"}
  MaxLeaves = 3
  IsNullOps = FALSE
  Connectives = {"Or"}
  Wrappers = {"TypeCast"}
  Build = "release"
  MaxDepth = 8
INIT Init
NEXT Next
\* A filter has finitely many leaves: once MaxLeaves is reached the filter is complete.
CHECK_DEADLOCK FALSE
INVARIANTS NoOverflow
