SPECIFICATION SchedulerFairSpec
CONSTANTS
  o1 = o1
  r1 = r1
  r2 = r2
  r3 = r3
  r4 = r4
  Day <- MCDay
  HoursPerDay = 2
  MinutesPerHour = 2
  DomWild <- MCDomWild
  DowWild <- MCDowWild
  Transition = 0
  Before = 0
  After = 0
  Once = {o1}
  Recurring = {r1}
  Expr <- MCExpr
  StartTimes <- MCStartTimes
  Span = 2
  MaxLife = 2
  None = None
INVARIANTS
  FiresAsAsked
  RunsTellTruth
  NextIsLeast
PROPERTIES
  SchedulerStops
CHECK_DEADLOCK FALSE
