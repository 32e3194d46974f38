SPECIFICATION Spec
CONSTANTS
  ev1 = ev1
  secc1 = secc1
  secc2 = secc2
  NoEndpoint = NoEndpoint
  EVs <- OneEV
  SECCs <- TwoSECCs
  Flows <- ThreeWays
  Joins <- AnyCell
  Parts = 2
  MaxMessages = 2
  MaxSdp = 2
INVARIANTS
  TypeOK
  FlowsApart
  UpToDate
  IndexIsOrder
  RoleIsRight
CHECK_DEADLOCK FALSE
