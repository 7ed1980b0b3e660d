SPECIFICATION ConvSpec
CONSTANTS
  Chat = {c1}
  Handler = {h1}
  Dispatcher = disp
  Kinds = {"user", "recurring"}
  MaxConv = 3
  MaxClock = 6
  MaxLife = 2
  None = None
INVARIANTS
  CronRunIsolated
SYMMETRY ConvSymmetry
CHECK_DEADLOCK FALSE
