SPECIFICATION SafeSpec
CONSTANTS
  a1 = a1
  a2 = a2
  a3 = a3
  s1 = s1
  d1 = d1
  t1 = t1
  j1 = j1
  i1 = i1
  None = None
  Instances = {i1}
  SyncCalls = {s1}
  AsyncCalls = {d1}
  TimerCalls = {t1}
  AutoJoins = {j1}
  Actors = {a1, a2, a3}
  MailboxBuffer = 1
INVARIANTS
  TypeOK
  SerialPerInstance
  NoCommandStranded
  PendingIsExact
  InflightIsExact
PROPERTIES
  DrainedMeansQuiet
  ImplementsQueues
CHECK_DEADLOCK FALSE
