SPECIFICATION QuietSpec
CONSTANTS
  c0 = c0
  c1 = c1
  None = None
  States <- HallStates
  InitialState = "open"
  EndStates = {"end"}
  Composites = {"hall"}
  Substates <- HallSubstates
  InitialSubstate <- HallInitial
  History = {}
  TopTransitions <- HallTransitions
  SubTransitions <- HallInner
  CommonTransitions <- HallCommon
  Contexts = {c0, c1}
  Events = {"fork", "join", "poke", "pause", "quit"}
  Scripted = {}
  InitialContext = c0
  ChildDefs = {"child"}
  BornComplete = {}
  IsChild = FALSE
  MaxHops = 2
  MaxVersion = 4
  MaxForks = 1
  MaxKids = 2
  MaxAttempts = 2
  MaxCrashes = 0
PROPERTIES
  AutoJoinFires
CHECK_DEADLOCK FALSE
