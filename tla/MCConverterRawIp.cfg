SPECIFICATION Spec
CONSTANTS
  c1 = c1
  c2 = c2
  Conversions <- One
  Jobs <- RawIpJobs
  Packets <- RawIpPackets
  MaxPackets = 2
INVARIANTS
  LeftOutNotMisread
CHECK_DEADLOCK FALSE
