SPECIFICATION Spec
CONSTANTS
  Words = 4
  WordBits = 3
  Usable <- MCUsable
  Loaded <- MCLoaded
CHECK_DEADLOCK FALSE
INVARIANTS TypeOK ScanStaysInside NoDoubleHandout
PROPERTIES StaleOnlyByLoweringRelease ImplementsPagePool
