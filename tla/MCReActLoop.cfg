\* One call of two turns with two tools a turn, cancelled anywhere, any event
\* but the text blocked by a middleware, and the session cleared in mid-call.
SPECIFICATION Spec
CONSTANTS
  Nothing = Nothing
  Width = 2
  MaxIterations = 2
  MaxCalls = 1
  MaxClears = 1
  MidCallClear = TRUE
  Blockable <- MCBlockable
  HasSystem = TRUE
CHECK_DEADLOCK FALSE
INVARIANTS
  RequestWellFormed
  Reassembled
  HistoryOrdered
  NoCancelledResult
  EventsBracketed
  EndAnnounced
