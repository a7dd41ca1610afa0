\* One worker, tools that may never return: does a cancelled call leave its join?
SPECIFICATION FairSpec
CONSTANTS
  c1 = c1
  c2 = c2
  w1 = w1
  w2 = w2
  NoCmd = NoCmd
  Calls <- MCCalls
  Workers <- MCOneWorker
  Width = 2
  Capacity = 1
  MaxCommands = 4
PROPERTIES
  CancelEndsJoin
