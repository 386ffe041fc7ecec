SPECIFICATION Spec
CONSTANTS
  Jobs = {c1}
  Engines = {b1, b2}
  Calls = {c1}
  TimerEvents = {}
  DoActs = {}
  Workers = {w1}
  QueueSize = 1
  Idle = Idle
  None = None
INVARIANT
  BootedEngineKeepsItsHandle
CHECK_DEADLOCK FALSE
