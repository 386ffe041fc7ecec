SPECIFICATION SafeSpec
CONSTANTS
  c0 = c0
  c1 = c1
  None = None
  States <- ForkStates
  InitialState = "open"
  EndStates = {"end"}
  Composites = {}
  Substates <- NoSubstates
  InitialSubstate <- NoSubstates
  History = {}
  TopTransitions <- ForkTransitions
  SubTransitions <- NoSubstates
  CommonTransitions <- ForkCommon
  Contexts = {c0, c1}
  Events = {"fork", "join", "cancel", "close", "again"}
  Scripted = {}
  InitialContext = c0
  ChildDefs = {"child", "done"}
  BornComplete = {"done"}
  IsChild = FALSE
  MaxHops = 2
  MaxVersion = 3
  MaxForks = 2
  MaxKids = 3
  MaxAttempts = 1
  MaxCrashes = 1
INVARIANTS
  CohortIntact
  NoPhantomEvent
PROPERTIES
  ImplementsForkJoin
  JourneyOnlyGrows
CHECK_DEADLOCK FALSE
