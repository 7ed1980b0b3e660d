SPECIFICATION FairSpec
CONSTANTS
  m1 = m1
  m2 = m2
  m3 = m3
  c1 = c1
  c2 = c2
  Worker = {w1, w2}
  Msg = {m1, m2}
  Chat = {c1, c2}
  ChatOf <- MCChatOf
  MaxWorkers = 1
  MaxIterations = 1
  NoMsg = NoMsg
  NoWorker = NoWorker
PROPERTIES
  HandleReturns
CHECK_DEADLOCK FALSE
