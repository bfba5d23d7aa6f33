SPECIFICATION Spec
CONSTANTS
  Hooks = {keybd, mouse}
  Threads = {t1, t2}
  MaxMessages = 2
  None = None
CONSTRAINT InTime
INVARIANTS InstalledSoundly InEffectInTime IdleWhenSynced
PROPERTIES CallReturnsInTime
