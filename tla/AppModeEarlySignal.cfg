SPECIFICATION FairSpec
PROPERTIES
  ShutdownStops
CHECK_DEADLOCK FALSE
