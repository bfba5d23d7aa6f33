SPECIFICATION Spec
CONSTANTS
  MaxThreads = 2
  Priorities = {0}
  PriorityMinimum <- MCPriorityMinimum
  ScriptOps = {"critical", "notimers", "interrupt"}
  Arrivals = {"event", "timer", "monitor"}
  HasOnExit = FALSE
  MaxQueue = 1
  MaxFast = 0
  MaxPaused = 3
INVARIANTS CriticalNeverTimesOut CriticalUndisturbed NoTimersRespected
