SPECIFICATION Spec
CONSTANTS
  c0 = c0
  c1 = c1
  None = None
  States <- DeskStates
  InitialState = "desk"
  EndStates = {"end"}
  Composites = {"desk"}
  Substates <- DeskSubstates
  InitialSubstate <- DeskInitial
  History = {"desk"}
  TopTransitions <- DeskTransitions
  SubTransitions <- DeskInner
  CommonTransitions <- DeskCommon
  Contexts = {c0, c1}
  Events = {"next", "back", "note", "skip", "pause", "lost",
            "resume", "restart", "quit", "bounce", "return",
            "split", "merge"}
  Scripted = {"check", "paused"}
  InitialContext = c0
  ChildDefs = {"child"}
  BornComplete = {}
  IsChild = FALSE
  MaxHops = 3
  MaxVersion = 4
  MaxForks = 1
  MaxKids = 1
  MaxAttempts = 0
  MaxCrashes = 1
INVARIANTS
  TypeOK
  Settled
  JourneyConnected
  HistoryIsLastLeft
  OffersWhatMatches
  GraphShowsEveryMove
PROPERTIES
  ChainBounded
  EventsReturn
CHECK_DEADLOCK FALSE
