SPECIFICATION Spec
CONSTANTS
  c1 = c1
  c2 = c2
  Conversions <- One
  Jobs <- TraceJobs
  Packets <- RawIpPackets
  MaxPackets = 1
PROPERTIES
  InputSurvives
CHECK_DEADLOCK FALSE
