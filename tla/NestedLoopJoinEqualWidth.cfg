\* Every join type over inputs of up to two rows, a left input of at least one
\* row, child errors and failing conditions, inputs one column wide each.
CONSTANTS
  Null = Null
  LW = 1
  RW = 1
  MaxRows = 2
  MinLeft = 1
  Items = {"row", "err"}
  Outcomes = {"match", "nomatch", "error"}
  JoinTypes = {"Inner", "LeftOuter", "LeftSemi", "LeftAnti", "RightOuter", "Full", "Cross"}
SPECIFICATION Spec
\* The coroutine completes: done, error and panic are final.
CHECK_DEADLOCK FALSE
INVARIANTS TypeOK NoPanic PushdownPreserves
PROPERTY JoinRefinement
