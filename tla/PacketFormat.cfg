SPECIFICATION Spec
CONSTANTS
  Size = 10
  Stale = {0, 1}
  Data = {0, 2}
  MaxChunk = 2
  MaxEach = 2
INVARIANTS TypeOK FormatKept FaultsKnown
CHECK_DEADLOCK FALSE
