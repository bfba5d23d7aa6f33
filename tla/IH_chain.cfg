\* Leaked objects use up the addresses, and the script may then have nothing to do.
SPECIFICATION Spec
CONSTANTS
  i1 = i1
  i2 = i2
  Inputs = {i1, i2}
  Null = Null
  WithOnEnd = {i1}
  MaxRefs = 3
  MaxQueue = 3
  MaxThreads = 2
CHECK_DEADLOCK FALSE
CONSTRAINT EndedOnce
INVARIANTS ChainSound WalkComplete
PROPERTIES EndedInputLeaves
