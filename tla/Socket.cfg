SPECIFICATION FairSpec
CONSTANTS
  SendBuffer = 3
  ReceiveBuffer = 3
  WriteShapes <- Short
  ReadShapes <- Large
  MaxBytes = 5
INVARIANTS TypeOK SingleCountSound SomeMoved RefusalsKnown
PROPERTIES AllRead WriteReturns
CHECK_DEADLOCK FALSE
