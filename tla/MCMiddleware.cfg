\* Events of two loops through a chain into one session.
SPECIFICATION MCSpec
CONSTANTS
  l1 = l1
  l2 = l2
  c1 = c1
  m = m
  d = d
  Nothing = Nothing
  Loops <- MCLoops
  Clients <- MCClients
  Event <- MCEvent
  Storable <- MCStorable
  Layers <- MCLayers
  MaxEvents = 2
  MaxMailbox = 2
  MaxLog = 2
INVARIANTS
  ContextFollows
PROPERTIES
  LogSpec
  FailureHeard
CHECK_DEADLOCK FALSE
