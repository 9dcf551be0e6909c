SPECIFICATION Spec
CONSTANTS
  PageUnits = 2
  GrowPages = 2
  MaxAlloc = 5
  Sizes <- MCSizes
  VaEnd = 14
  Others = 0
  Further = 2
  Null = Null
CHECK_DEADLOCK FALSE
INVARIANTS NewPagesFollow
