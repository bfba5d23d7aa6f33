\* When both addresses are leaked and the other interpreter is gone, nothing is left to do.
SPECIFICATION Spec
CONSTANTS
  Interpreters = {main, worker}
  Promises = {p1, p2}
  MayExit = {worker}
  Parties <- MCParties
  p1 = p1
  p2 = p2
  main = main
  worker = worker
  MaxThreads = 2
  MaxDepth = 2
  None = None
CHECK_DEADLOCK FALSE
INVARIANTS ReferencesSound HandlerRunsOnce ResultComplete
PROPERTIES HandlerRuns
