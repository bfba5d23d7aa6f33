SPECIFICATION Spec
CONSTANTS
  b = b
  ctrl = ctrl
  caps = caps
  None = None
  MaxChanges = 2
  Keys = {b,caps,ctrl}
  Modifiers = {ctrl}
  Toggles = {caps}
  Repeating = {b}
  Hotkeys <- MCHotkeys
  Selections <- MCSelections
INVARIANTS UpMatchesDown NothingLeftBehind FiredOnce
PROPERTIES UsedPrefixSilent CounterpartFires
