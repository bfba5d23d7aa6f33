SPECIFICATION Spec
CONSTANTS
  MaxThreads = 1
  Priorities = {0}
  PriorityMinimum <- MCPriorityMinimum
  ScriptOps = {"sleep", "send", "pause", "pauseunder", "returnexpr"}
  Arrivals = {"event", "timer", "fast", "traypause"}
  HasOnExit = FALSE
  MaxQueue = 1
  MaxFast = 1
  MaxPaused = 3
INVARIANTS PausedNotForgotten
