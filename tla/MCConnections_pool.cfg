SPECIFICATION FairSpec
CONSTANTS
  Actors = {a1, a2, a3}
  Nested = {a1}
  Sync = {a1, a2}
  Readers = {r1}
  MaxOpenConns = 2
  Width = 2
INVARIANTS
  TypeOK
  NeverStuck
  NothingOutlivesEvent
PROPERTIES
  EventsEnd
