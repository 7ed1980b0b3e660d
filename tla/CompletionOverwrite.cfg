SPECIFICATION CompletionSpec
CONSTANTS
  a = a
  b = b
  c = c
  x = x
  y = y
  Caller = {p1, p2}
  Route <- MCRoute
  Plugin = {a, b}
  Chain <- MCChain
  Overrides <- NoOverrides
  Pinned <- MCPinned
  Bare = {}
  RetryAfter = {0, 2}
  DefaultCD = 1
  MaxTime = 5
  Unset = Unset
PROPERTIES
  RetryAfterHonoured
CHECK_DEADLOCK FALSE
