SPECIFICATION Spec
CONSTANTS
  MaxThreads = 2
  Priorities <- MCPriorities
  PriorityMinimum <- MCPriorityMinimum
  ScriptOps = {"exitapp", "priority"}
  Arrivals = {"event", "hotif", "callback", "exit"}
  HasOnExit = TRUE
  MaxQueue = 1
  MaxFast = 0
  MaxPaused = 3
INVARIANTS TypeOK SlotsInBounds OneExitThread OnExitUninterrupted
PROPERTIES PriorityRespected ImplementsThreadStack
