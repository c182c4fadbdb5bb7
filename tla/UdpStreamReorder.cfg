SPECIFICATION Spec
CONSTANTS
  ReceiveBuffer = 2
  SendBuffer = 4
  Swarm = 2
  MoveAttempts = 1
  Rooms = {2}
  Overhead = 1
  WriteSizes = {1}
  ReadSizes = {1}
  MaxBytes = 2
  MoveCap = 1
  EchoCap = 2
  MayClose = TRUE
INVARIANTS NothingForgotten ConfirmedIsReceived IndInv
PROPERTIES Monotone
CHECK_DEADLOCK FALSE
