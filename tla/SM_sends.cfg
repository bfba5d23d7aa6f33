SPECIFICATION SendSpec
CONSTANTS
  win = win
  rctrl = rctrl
  Modifiers = {win, rctrl}
  Keyboard = {win}
  WinAlt = {win}
  Suffixes = {win}
INVARIANTS AsTheUserHolds AskedKept
