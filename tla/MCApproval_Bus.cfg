\* Is an approval announced on the bus of its own turn?
SPECIFICATION Spec
CONSTANTS
  k1 = k1
  k2 = k2
  k3 = k3
  t1 = t1
  t2 = t2
  NoBus = NoBus
  inner = inner
  outer = outer
  new = new
  far = far
  edit = edit
  shell = shell
  lost = lost
  write = write
  home = home
  box = box
  git = git
  rm = rm
  curl = curl
  Ids <- MCIds
  Turns <- MCTurns
  TurnOf <- MCTurnOf
  Settings <- MCSettings
  Under <- MCUnder
  Spelled <- MCSpelled
  Dangerous = {rm}
  MaxArgs = 1
  MaxTimeout = 1
  None = None
  MaxAnswers <- MCMaxAnswers
CHECK_DEADLOCK FALSE
INVARIANTS
  OwnBus
