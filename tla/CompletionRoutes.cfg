SPECIFICATION CompletionSpec
CONSTANTS
  a = a
  b = b
  c = c
  x = x
  y = y
  Caller = {p1}
  Route <- MCRoute
  Plugin = {a, b}
  Chain <- MCChain
  Overrides <- MCOverrides
  Pinned <- MCPinned
  Bare = {}
  RetryAfter = {0, 2}
  DefaultCD = 1
  MaxTime = 2
  Unset = Unset
INVARIANTS
  EveryRouteTried
CHECK_DEADLOCK FALSE
