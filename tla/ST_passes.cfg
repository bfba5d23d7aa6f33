SPECIFICATION Spec
CONSTANTS
  Callbacks = {c1, c2, c3}
  Timers = {t1, t2, t3}
  Null = Null
  MaxPasses = 3
  MaxLayers = 1
SYMMETRY Symmetry
INVARIANTS ListWellFormed CountsExact MainTimerWhenNeeded PassesSound
