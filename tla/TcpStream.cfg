SPECIFICATION FairSpec
CONSTANTS
  Word = 2
  Dialer = Dialer
  Listener = Listener
  End = {Dialer, Listener}
  SendBuffer = 3
  ReceiveBuffer = 2
  WriteSizes = {1, 3}
  ReadSizes = {2}
  Long = 4
  Short = 1
  MaxWrite <- LongWay
  MaxRead <- LongBack
INVARIANTS TypeOK StreamIntact ReadableSound
PROPERTIES OpsInterrupted StreamServed
CHECK_DEADLOCK FALSE
