\* Two calls of one agent, one after the other or at once.
SPECIFICATION FairSpec
CONSTANTS
  c1 = c1
  c2 = c2
  Calls <- MCCalls
  Kinds <- MCKinds
  MaxEvents <- MCMaxEvents
  Capacity = 2
  Backlog = 1
CHECK_DEADLOCK FALSE
INVARIANTS
  ResponseLatest
  StreamIntact
PROPERTIES
  CallOver
  StreamEnds
