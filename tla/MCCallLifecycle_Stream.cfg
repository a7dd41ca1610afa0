\* Does the stream of a failed call end?
SPECIFICATION FairSpec
CONSTANTS
  c1 = c1
  c2 = c2
  Calls <- MCOneCall
  Kinds <- MCOneKind
  MaxEvents <- MCMaxEvents
  Capacity = 2
  Backlog = 1
CHECK_DEADLOCK FALSE
PROPERTIES
  StreamEndsAlways
