SPECIFICATION Spec
CONSTANTS
  Words = 4
  WordBits = 3
  Usable <- MCUsable
  Loaded <- MCLoaded
CHECK_DEADLOCK FALSE
PROPERTIES RefusedOnlyWhenFull
