SPECIFICATION SafeSpec
CONSTANTS
  c0 = c0
  c1 = c1
  None = None
  States <- HallStates
  InitialState = "open"
  EndStates = {"end"}
  Composites = {"hall"}
  Substates <- HallSubstates
  InitialSubstate <- HallInitial
  History = {}
  TopTransitions <- HallTransitions
  SubTransitions <- LocalInner
  CommonTransitions <- HallCommon
  Contexts = {c0, c1}
  Events = {"fork", "join", "poke", "quit"}
  Scripted = {}
  InitialContext = c0
  ChildDefs = {"child", "done"}
  BornComplete = {"done"}
  IsChild = FALSE
  MaxHops = 2
  MaxVersion = 3
  MaxForks = 2
  MaxKids = 3
  MaxAttempts = 1
  MaxCrashes = 0
INVARIANTS
  JoinClearsGeneration
CHECK_DEADLOCK FALSE
