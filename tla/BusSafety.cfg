SPECIFICATION BusFairSpec
CONSTANTS
  Topic = {"inbound", "outbound"}
  Publisher = {p1, p2}
  Msg = {m1, m2, m3}
  QueueSize = 2
  Nothing = Nothing
INVARIANTS
  FifoDelivery
  StopDrains
PROPERTIES
  StopReturns
  AcceptedIsHandled
CHECK_DEADLOCK FALSE
