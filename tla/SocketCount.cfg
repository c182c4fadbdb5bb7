SPECIFICATION Spec
CONSTANTS
  SendBuffer = 5
  ReceiveBuffer = 4
  WriteShapes <- Short
  ReadShapes <- Large
  MaxBytes = 3
INVARIANT CountExact
CHECK_DEADLOCK FALSE
