---------------------------- MODULE MCScheduler ----------------------------
(* Small instances of Scheduler for TLC.  The calendar has months of two   *)
(* and one days, the second with a leap day, weeks of three days and days  *)
(* of two hours of two minutes.                                            *)
EXTENDS Scheduler

CONSTANTS o1, r1, r2, r3, r4

Leap(y) == y = 1

\* Days of the year y, as <<month, dom>>.
DaysOf(y) == <<<<1, 1>>, <<1, 2>>, <<2, 1>>>> \o (IF Leap(y) THEN <<<<2, 2>>>> ELSE <<>>)

Years == [y \in 1..6 |-> [i \in DOMAIN DaysOf(y) |-> <<y>> \o DaysOf(y)[i]]]

AllDays == Years[1] \o Years[2] \o Years[3] \o Years[4] \o Years[5] \o Years[6]

MCDay == [i \in DOMAIN AllDays |->
  [year |-> AllDays[i][1], month |-> AllDays[i][2], dom |-> AllDays[i][3], dow |-> i % 3]]

\* r1 every hour; r2 the leap day, or never again; r3 a day of the month or of
\* the week; r4 every day.
MCExpr == [e \in {r1, r2, r3, r4} |->
  CASE e = r1 -> [minute |-> {1}, hour |-> {0, 1}, dom |-> {1, 2}, month |-> {1, 2}, dow |-> {0, 1, 2}]
    [] e = r2 -> [minute |-> {0}, hour |-> {1}, dom |-> {2}, month |-> {2}, dow |-> {0, 1, 2}]
    [] e = r3 -> [minute |-> {0, 1}, hour |-> {0}, dom |-> {1}, month |-> {1}, dow |-> {2}]
    [] e = r4 -> [minute |-> {0}, hour |-> {1}, dom |-> {1, 2}, month |-> {1, 2}, dow |-> {0, 1, 2}]]

MCDomWild == {1, 2}
MCDowWild == {0, 1, 2}
MCStartTimes == {1}

\* A location west of Greenwich whose clocks are put forward by an hour, in the
\* middle of the second day, and a start shortly before that.
WestBefore == -4
WestAfter == -2
GapStartTimes == {7}
=============================================================================
