\* Two calls with up to three tools between them, two workers, a bus of one
\* slot; tools may panic, or never return.
SPECIFICATION MCSpec
CONSTANTS
  c1 = c1
  c2 = c2
  w1 = w1
  w2 = w2
  NoCmd = NoCmd
  Calls <- MCCalls
  Workers <- MCWorkers
  Width = 2
  Capacity = 1
  MaxCommands = 3
INVARIANTS
  Conservation
  ShutdownFailsNoCall
PROPERTIES
  EntersOnceUncancelled
  ServiceSpec
  ServiceFair
  CancelFreesWorker
