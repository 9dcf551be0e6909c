SPECIFICATION VmSpec
CONSTANTS
  Words = 4
  WordBits = 2
  Usable <- MCUsable
  Loaded <- MCLoaded
  VaPages = 5
  ImageMap <- MCImageMap
  TablePages = 1
  MaxRequest = 2
  Absent = Absent
CHECK_DEADLOCK FALSE
INVARIANTS NeverRemapped LiveTranslationsCoherent HoldersAreMappings
PROPERTIES NoResurrection CallReturns
