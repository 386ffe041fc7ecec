SPECIFICATION Spec
CONSTANTS
  Places = {"work", "review", "done"}
  Initial = "work"
  Busy = {"work", "review"}
  Timed = {"work"}
  Moves <- WorkMoves
  IsChild = FALSE
  MaxEvents = 2
  MaxTasks = 6
  None = None
INVARIANTS
  TypeOK
  NothingLeaks
  RunsForCurrentState
  OneOfEach
CHECK_DEADLOCK FALSE
