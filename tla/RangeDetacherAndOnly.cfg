\* Conjunctions of up to five leaves over c1, c2, IS NULL and IS NOT NULL,
\* with integer literals and the integral Float64 literals -1.0, 0.0, 1.0, 3.0.
CONSTANTS
  Null = Null
  Vals = {0, 1, 2, 3, 4}
  Lits = {Null, 1, 2, 3}
  FloatLits <- IntegralFloatLits
  ColType = "Integer"
  C2Vals = {Null, 1}
  CmpOps = {"Gt", "Lt", "GtEq", "LtEq", "Eq", "Spaceship", "NotEq"}
  MaxLeaves = 5
  IsNullOps = TRUE
  Connectives = {"And"}
  Wrappers = {"TypeCast"}
  Build = "release"
  MaxDepth = 8
INIT Init
NEXT Next
\* A filter has finitely many leaves: once MaxLeaves is reached the filter is complete.
CHECK_DEADLOCK FALSE
INVARIANT DetachSound
