SPECIFICATION FairSpec
CONSTANTS
  ReceiveBuffer = 2
  SendBuffer = 4
  Swarm = 1
  MoveAttempts = 2
  Rooms = {3}
  Overhead = 1
  WriteSizes = {3}
  ReadSizes = {1, 2}
  MaxBytes = 3
  MoveCap = 1
  EchoCap = 1
  MayClose = FALSE
INVARIANTS TypeOK NoOverrun StreamIntegrity FragmentsTile WindowSafety
PROPERTIES ImplementsByteStream WritesAnswered ReadsAnswered
CHECK_DEADLOCK FALSE
