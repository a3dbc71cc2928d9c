\* A Full join of a one-column left input with a two-column right input.
CONSTANTS
  Null = Null
  LW = 1
  RW = 2
  MaxRows = 1
  MinLeft = 1
  Items = {"row"}
  Outcomes = {"match", "nomatch"}
  JoinTypes = {"Full"}
SPECIFICATION Spec
\* The coroutine completes: done, error and panic are final.
CHECK_DEADLOCK FALSE
PROPERTY JoinRefinement
