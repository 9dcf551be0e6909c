SPECIFICATION Spec
CONSTANTS
  b = b
  a1 = a1
  a2 = a2
  a3 = a3
  CpuList <- MCCpuList
  Bsp = b
  Dead = {a2}
  Slow = {a1, a3}
  Tries = 3
CHECK_DEADLOCK FALSE
INVARIANTS OwnCpuData OneSetupAtATime NoApLosesItsCode
PROPERTIES AllCpusStart StuckOnlyInSetupWait
