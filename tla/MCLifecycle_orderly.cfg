SPECIFICATION OrderlySpec
CONSTANTS
  Jobs = {c1, t1, d1}
  Engines = {b1, b2}
  Calls = {c1}
  TimerEvents = {t1}
  DoActs = {d1}
  Workers = {w1}
  QueueSize = 1
  Idle = Idle
  None = None
INVARIANTS
  TypeOK
  PoolCounterIsExact
  CallsKeepHandle
PROPERTIES
  CleanShutdownIsQuiet
  WorkEnds
  ShutdownEnds
CHECK_DEADLOCK FALSE
