SPECIFICATION Spec
CONSTANTS
  Cpus = {"c1", "c2"}
  Characters = {"nl", " ", "a", "b", "c", "d", "e"}
  Boot = "c1"
  Messages <- MCMessages
  W = 2
  H = 2
  Budget = 2
  Faulty = {"c2"}
CHECK_DEADLOCK FALSE
INVARIANTS MutualExclusion MessagesAreWhole ShowsTheEndOfTheText
PROPERTIES LockComesFree SilentAfterFault
