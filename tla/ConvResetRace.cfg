SPECIFICATION ConvSpec
CONSTANTS
  Chat = {c1}
  Handler = {h1}
  Dispatcher = disp
  Kinds = {"user", "new"}
  MaxConv = 3
  MaxClock = 6
  MaxLife = 1
  None = None
INVARIANTS
  ResetTakesEffect
SYMMETRY ConvSymmetry
CHECK_DEADLOCK FALSE
