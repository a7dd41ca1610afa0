\* Does a call get its own response while another one is at work?
SPECIFICATION Spec
CONSTANTS
  c1 = c1
  c2 = c2
  Calls <- MCCalls
  Kinds <- MCKinds
  MaxEvents <- MCMaxEvents
  Capacity = 2
  Backlog = 1
CHECK_DEADLOCK FALSE
INVARIANTS
  ResponseOwn
