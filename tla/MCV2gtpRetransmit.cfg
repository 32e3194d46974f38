SPECIFICATION RetransmitSpec
CONSTANTS
  Messages <- MCMessages
  Joins <- NoJoin
  MaxMessages = 2
  MaxLosses = 0
INVARIANTS
  Delivery
CHECK_DEADLOCK FALSE
