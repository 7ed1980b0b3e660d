SPECIFICATION Spec
CONSTANTS
  m1 = m1
  m2 = m2
  m3 = m3
  c1 = c1
  c2 = c2
  Worker = {w1, w2, w3}
  Msg = {m1, m2, m3}
  Chat = {c1, c2}
  ChatOf <- MCChatOf
  MaxWorkers = 2
  MaxIterations = 2
  NoMsg = NoMsg
  NoWorker = NoWorker
INVARIANTS
  SessionMutex
  LoopInv
  DrainedIsQuiet
  AnsweredOnce
PROPERTIES
  ImplementsExecutor
CHECK_DEADLOCK FALSE
