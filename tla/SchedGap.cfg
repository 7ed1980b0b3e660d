SPECIFICATION SchedulerSpec
CONSTANTS
  o1 = o1
  r1 = r1
  r2 = r2
  r3 = r3
  r4 = r4
  Day <- MCDay
  HoursPerDay = 2
  MinutesPerHour = 2
  DomWild <- MCDomWild
  DowWild <- MCDowWild
  Transition = 10
  Before <- WestBefore
  After <- WestAfter
  Once = {o1}
  Recurring = {r4}
  Expr <- MCExpr
  StartTimes <- GapStartTimes
  Span = 2
  MaxLife = 1
  None = None
PROPERTIES
  NextIsLater
CHECK_DEADLOCK FALSE
