SPECIFICATION Spec
CONSTANTS
  Initiator = Initiator
  Acceptor = Acceptor
  NoPin = NoPin
  AnyPeer = FALSE
  Listening = FALSE
  Streaming = {}
  Shutters = {Acceptor}
  Closers = {}
  Unreachable = {Initiator, Acceptor}
  MaxCalls = 1
  NetCap = 1
INVARIANT ConnectAnswered
CHECK_DEADLOCK FALSE
