\* Every filter of two leaves, AND or OR, on the two columns of a composite
\* index: comparisons with the least TINYINT and with 2, in either order.
CONSTANTS
  Null = Null
  Vals <- MainVals
  Lits <- MainLits
  CmpOps = {"Gt", "Lt", "GtEq", "LtEq", "Eq", "Spaceship", "NotEq"}
  MaxLeaves = 2
  IsNullOps = FALSE
  Connectives = {"And", "Or"}
  Build = "release"
  MaxDepth = 8
INIT Init
NEXT Next
\* A filter has finitely many leaves: once MaxLeaves is reached the filter is complete.
CHECK_DEADLOCK FALSE
INVARIANT CompositeSound
