SPECIFICATION Spec
CONSTANTS
  LastBus = 3
  Devices = 2
  Functions = 2
  Slots = 4
  Places = 4
  Byte = 2
  DiskSectors = 3
  SectorBytes = 2
  MaxCalls = 2
  Counted = 4
  Behind = 2
  Exceptions = {2, 13, 14, 17}
  Lines = {0, 7, 10, 15}
  ApicVectors = {208, 212}
  Values = {0, 1}
  MaxDepth = 2
  Numbers = 256
  DigitLimit = 3
  NumbersOf <- MCNumbersOf
  PointerDigits = 2
  Formats <- MCFormats
CHECK_DEADLOCK FALSE
INVARIANTS PciListExact DrivesListed ResultIsTrue SlotsAreOwn LinesReopen
  WritesWhatItAnnounced NumbersReadBack
PROPERTIES FramesAreTrue ScanEnds TransferReturns
