SPECIFICATION Spec
CONSTANTS
  PageUnits = 2
  GrowPages = 2
  MaxAlloc = 5
  Sizes <- MCSizes
  VaEnd = 10
  Others = 1
  Further = 1
  Null = Null
CHECK_DEADLOCK FALSE
INVARIANTS BlocksTile LiveDisjoint
