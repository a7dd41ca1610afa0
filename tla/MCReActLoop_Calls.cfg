\* Two calls of two turns on one session, reset before or between them; the
\* provider may stay silent for ever.
SPECIFICATION FairSpec
CONSTANTS
  Nothing = Nothing
  Width = 1
  MaxIterations = 2
  MaxCalls = 2
  MaxClears = 1
  MidCallClear = FALSE
  Blockable <- MCNone
  HasSystem = TRUE
CHECK_DEADLOCK FALSE
INVARIANTS
  SystemPromptFirst
PROPERTIES
  CallEnds
  CancelEnds
