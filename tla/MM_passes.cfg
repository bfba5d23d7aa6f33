SPECIFICATION Spec
CONSTANTS
  m1 = m1
  m2 = m2
  f1 = f1
  f2 = f2
  f3 = f3
  NoKey = NoKey
  Lists <- MCLists
  MaxThreads = 2
  MinCount = 0
INVARIANTS PositionsCorrect InstancesCounted RunningIsTrue SameItemsVisited
PROPERTIES OnlyItemsFromTheStart
