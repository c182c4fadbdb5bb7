SPECIFICATION FairSpec
CONSTANTS
  Initiator = Initiator
  Acceptor = Acceptor
  NoPin = NoPin
  AnyPeer = FALSE
  Listening = TRUE
  Streaming = {}
  Shutters = {Initiator}
  Closers = {Acceptor}
  Unreachable = {Initiator}
  MaxCalls = 1
  NetCap = 1
PROPERTIES HandlersSettled ComesToRest
CHECK_DEADLOCK FALSE
