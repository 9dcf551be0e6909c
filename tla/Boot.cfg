SPECIFICATION BootSpec
CONSTANTS
  Machines <- MCMachines
  MinPage = 6
  TableRoot = 12
  TablePages = 2
  DataPages = 1
  PageBytes = 4
  TopSize = 255
  MapSlots = 4
  WordBits = 2
  PageWords = 5
  HeaderWords = 1
  HeaderBytes = 3
  CpuBytes = 2
  IoApicBytes = 3
  OverrideBytes = 2
  NmiBytes = 1
CHECK_DEADLOCK FALSE
INVARIANTS MapDescribesMemory KernelGetsItsImage ExitsUnlessMapMoved
  AllocatorStart BootMemoryDisjoint CpusListed
