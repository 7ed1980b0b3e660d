SPECIFICATION RuntimeFairSpec
CONSTANTS
  c1 = c1
  Worker = {disp, w1}
  Msg = {m1, f1}
  Chat = {c1}
  ChatOf <- MCChatOf
  FormMsg = {f1}
  Command = {}
  MaxWorkers = 2
  MaxIterations = 1
  NoMsg = NoMsg
  NoWorker = NoWorker
  Dispatcher = disp
  Source = src
  QueueSize = 1
  Nothing = Nothing
PROPERTIES
  EveryMessageAnswered
  ShutdownEnds
CHECK_DEADLOCK FALSE
