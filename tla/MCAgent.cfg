SPECIFICATION AgentFairSpec
CONSTANTS
  Times <- MCTimes
  MaxPackets = 3
  MaxLag = 1
  Settings <- MCSettings
  MaxSettings = 1
  NoOffset = NoOffset
INVARIANTS
  AgentTypeOK
  StatusLinearizable
  SpacingExact
  ReleasedWhenDue
PROPERTIES
  ErrorStaysVisible
  LeavesOnlyWhenAsked
  ShutdownOfRunning
  ReplayEnds
CHECK_DEADLOCK FALSE
