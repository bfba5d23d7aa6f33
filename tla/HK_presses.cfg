SPECIFICATION Spec
CONSTANTS
  k1 = k1
  k2 = k2
  v1 = v1
  v2 = v2
  v3 = v3
  None = None
  HotkeyIDs = {k1, k2}
  Variants = {v1, v2, v3}
  VariantsOf <- MCVariantsOf
  Criteria <- MCCriteria
  Hooked = {k1}
  SuspendExempt = {v2}
  MaxThreadsTotal = 2
  Limits = {1, 2}
  MaxQueue = 2
INVARIANTS BufferedPressHasThread
PROPERTIES LimitRespected TurnedOffStaysSilent
