SPECIFICATION MCSpec
CONSTANTS
  Chat = {c1, c2}
  Handler = {h1}
  Dispatcher = disp
  Kinds = {"user", "reply", "aside", "new", "once", "recurring"}
  MaxConv = 3
  MaxClock = 4
  MaxLife = 2
  None = None
  a = a
  b = b
  c = c
  x = x
  y = y
  Caller = {p1, p2}
  Route <- MCRoute
  Plugin = {a, b}
  Chain <- MCChain
  Overrides <- MCOverrides
  Pinned <- MCPinned
  Bare = {}
  RetryAfter = {0, 2}
  DefaultCD = 1
  MaxTime = 2
  Unset = Unset
INVARIANTS
  OneChatPerConversation
  NoSplit
  NamedRouteIsKept
PROPERTIES
  CooldownHonoured
SYMMETRY ConvSymmetry
CHECK_DEADLOCK FALSE
