SPECIFICATION Spec
CONSTANTS
  b = b
  a1 = a1
  a2 = a2
  a3 = a3
  CpuList <- MCCpuList
  Bsp = b
  Dead = {}
  Slow = {a1}
  Tries = 3
CHECK_DEADLOCK FALSE
INVARIANTS SetupCompleteIsTrue
