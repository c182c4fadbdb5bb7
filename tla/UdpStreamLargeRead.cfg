SPECIFICATION FairSpec
CONSTANTS
  ReceiveBuffer = 1
  SendBuffer = 4
  Swarm = 1
  MoveAttempts = 2
  Rooms = {2}
  Overhead = 1
  WriteSizes = {2}
  ReadSizes = {2}
  MaxBytes = 2
  MoveCap = 1
  EchoCap = 1
  MayClose = FALSE
PROPERTY ReadsAnswered
CHECK_DEADLOCK FALSE
