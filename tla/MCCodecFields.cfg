SPECIFICATION Spec
CONSTANTS
  Wire <- OptionalWire
  MaxMessages = 2
INVARIANTS
  FirstDefinesAll
CHECK_DEADLOCK FALSE
