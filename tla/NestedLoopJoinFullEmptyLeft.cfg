\* A Full join whose left input may be empty.
CONSTANTS
  Null = Null
  LW = 1
  RW = 1
  MaxRows = 1
  MinLeft = 0
  Items = {"row"}
  Outcomes = {"match", "nomatch"}
  JoinTypes = {"Full"}
SPECIFICATION Spec
\* The coroutine completes: done, error and panic are final.
CHECK_DEADLOCK FALSE
INVARIANT NoPanic
