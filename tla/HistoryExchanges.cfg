SPECIFICATION HistorySpec
CONSTANTS
  MaxMsg = 7
  MaxQueue = 2
  MaxIterations = 2
  MaxCalls = 2
  Cost <- MCCost
  SummaryCost = 1
  Budget = 5
  Threshold = 3
  Preserve = 1
  MaxLife = 1
  Group = FALSE
  HasFile = {1}
INVARIANT ExchangesWhole
CHECK_DEADLOCK FALSE
