SPECIFICATION Spec
CONSTANTS
  MaxThreads = 2
  Priorities <- MCPriorities
  PriorityMinimum <- MCPriorityMinimum
  ScriptOps = {"sleep", "pauseunder", "returnexpr"}
  Arrivals = {"event"}
  HasOnExit = FALSE
  MaxQueue = 1
  MaxFast = 0
  MaxPaused = 3
INVARIANTS PausedCountExact
