SPECIFICATION Spec
CONSTANTS
  c1 = c1
  c2 = c2
  Conversions <- Two
  Jobs <- MCJobs
  Packets <- MCPackets
  MaxPackets = 2
INVARIANTS
  TypeOK
  SuccessLeavesTrace
  ReportMatchesTrace
  FramedTrafficAgrees
PROPERTIES
  NoLossWithoutOverwrite
CHECK_DEADLOCK FALSE
