SPECIFICATION Spec
CONSTANTS
  Wire <- HandshakeWire
  MaxMessages = 2
INVARIANTS
  NegotiatedProtocol
CHECK_DEADLOCK FALSE
