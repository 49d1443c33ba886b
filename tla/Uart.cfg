SPECIFICATION FairSpec
CONSTANTS
  FifoSize = 3
  Trigger = 2
  Sizes = {2, 4}
  MaxByte = 5
INVARIANTS Inv
PROPERTIES ImplementsSerialPipe EveryByteRead
