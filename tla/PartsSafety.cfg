SPECIFICATION MCSpec
CONSTANTS
  k1 = k1
  k2 = k2
  w1 = w1
  w2 = w2
  s1 = s1
  github = github
  weather = weather
  notes = notes
  None = None
  Absent = Absent
  MaxMsg = 6
  MaxQueue = 2
  MaxIterations = 2
  MaxCalls = 2
  Cost <- MCCost
  SummaryCost = 1
  Budget = 5
  Threshold = 3
  Preserve = 1
  MaxLife = 2
  Group = TRUE
  HasFile = {}
  Kid = {k1, k2}
  Webhook = {w1, w2}
  Sender = {s1}
  Good = {w1}
  WithFiles = {w1}
  Latency = 1
  CacheFor = 1
  Skew = 2
  Lifetime = 3
  MaxParts = 2
  MaxTime = 3
  MaxFaults = 1
  Name = {github, weather, notes}
  Owned = {notes}
  MaxVersion = 2
  MaxErrors = 2
  MaxChanges = 1
  Builtins <- MCBuiltins
  Configs <- MCConfigs
INVARIANTS
  NothingForgotten
  PromptIsSuffix
  KeysFollowPublisher
  TokenOutlivesParts
  SyncKeepsToCopies
  OrderOfKinds
  StopsMatchStarts
PROPERTIES
  SummaryAdvances
CHECK_DEADLOCK FALSE
