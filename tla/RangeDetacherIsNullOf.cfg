\* (c1 op lit) IS NULL: detach passes through to the comparison and
\* ignores the IS NULL around it (range_detacher.rs:247).
CONSTANTS
  Null = Null
  Vals = {0, 1, 2, 3, 4}
  Lits = {Null, 1}
  FloatLits = {}
  ColType = "Integer"
  C2Vals = {Null, 1}
  CmpOps = {"Gt"}
  MaxLeaves = 1
  IsNullOps = TRUE
  Connectives = {"And"}
  Wrappers = {"IsNull"}
  Build = "release"
  MaxDepth = 8
INIT Init
NEXT Next
CHECK_DEADLOCK FALSE
INVARIANT DetachSound
