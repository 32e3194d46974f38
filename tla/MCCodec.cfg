SPECIFICATION Spec
CONSTANTS
  Wire <- MCWire
  MaxMessages = 3
INVARIANTS
  TypeOK
  EveryMessageOnTimeline
  FieldsBesideMessage
  DecodedIsLogged
  StatsMatchTrace
  ProtocolIsFirst
  ColumnsOfFirst
CHECK_DEADLOCK FALSE
