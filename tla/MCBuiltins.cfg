\* Two calls of the built-in tools on one file, on each platform.
SPECIFICATION MCSpec
CONSTANTS
  f1 = f1
  f2 = f2
  s1 = s1
  s2 = s2
  a = a
  b = b
  x = x
  NL = NL
  CR = CR
  NoAnchor = NoAnchor
  Nothing = Nothing
  Spaces <- MCSpaces
  Hash <- MCHash
  Prefixed <- MCPrefixed
  Char = {a, b, x, NL, CR}
  Calls <- MCCalls
  Texts <- MCTexts
  Plans <- MCPlans
  Commands <- MCCommands
  Modes = {"plain", "unix", "windows"}
  MaxChunks = 2
INVARIANTS
  EditMeaning
  ReportComplete
  Released
  GrantsBalanced
PROPERTIES
  EditAtomic
  CommandReturns
CHECK_DEADLOCK FALSE
