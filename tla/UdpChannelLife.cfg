SPECIFICATION Spec
CONSTANTS
  Initiator = Initiator
  Acceptor = Acceptor
  NoPin = NoPin
  AnyPeer = TRUE
  Listening = FALSE
  Streaming = {Initiator}
  Shutters = {Initiator, Acceptor}
  Closers = {}
  Unreachable = {Initiator, Acceptor}
  MaxCalls = 1
  NetCap = 1
INVARIANTS TypeOK HandlersHeld LinkAgreement ShutdownAgreement OpsAborted
PROPERTY Forward
CHECK_DEADLOCK FALSE
