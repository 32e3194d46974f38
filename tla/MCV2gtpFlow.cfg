SPECIFICATION FairSpec
CONSTANTS
  Messages <- MCMessages
  Joins <- MCJoins
  MaxMessages = 3
  MaxLosses = 1
INVARIANTS
  FlowTypeOK
  Delivery
PROPERTIES
  RefinesChannel
  CapturedIsDelivered
CHECK_DEADLOCK FALSE
