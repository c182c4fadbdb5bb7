SPECIFICATION Spec
CONSTANTS
  SendBuffer = 3
  ReceiveBuffer = 2
  WriteShapes <- Short
  ReadShapes <- Large
  MaxBytes = 5
INVARIANT WriteSurvives
CHECK_DEADLOCK FALSE
