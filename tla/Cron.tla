-------------------------------- MODULE Cron --------------------------------
(***************************************************************************)
(* When a cron expression matches next: NextAfter of pkg/cron/cron.go on a *)
(* calendar of any shape.  Instants and wall-clock times are counted in    *)
(* minutes.  An expression is a record of the sets of values its five      *)
(* fields expand to (parseField).                                          *)
(*                                                                         *)
(* The location's offset from UTC changes at most once, as a daylight-     *)
(* saving change does; Date is what Go's time.Date does with a wall-clock  *)
(* time: it looks the offset up as if the time were UTC, and once more at  *)
(* the instant this gives.                                                 *)
(***************************************************************************)
EXTENDS Integers, Sequences, FiniteSetsExt

CONSTANTS
  Day,              \* the days of the calendar: [year, month, dom, dow]
  HoursPerDay,
  MinutesPerHour,
  DomWild,          \* all days of a month: the field is a wildcard
  DowWild,          \* all days of a week
  Transition,       \* the instant at which the offset changes
  Before,           \* offset from UTC before it
  After             \* and from then on

ASSUME CronAssumption ==
  /\ Day \in Seq([year : Int, month : Int, dom : DomWild, dow : DowWild])
  /\ HoursPerDay \in Nat \ {0}
  /\ MinutesPerHour \in Nat \ {0}
  /\ {Transition, Before, After} \subseteq Int

\* time.Time{}, which lies before every instant.
Zero == -1

DayLength == HoursPerDay * MinutesPerHour
WallTime == 0 .. Len(Day) * DayLength - 1

DayAt(w) == Day[w \div DayLength + 1]
HourAt(w) == (w \div MinutesPerHour) % HoursPerDay
MinuteAt(w) == w % MinutesPerHour

Offset(i) == IF i < Transition THEN Before ELSE After
Wall(i) == i + Offset(i)
Date(w) == w - Offset(w - Offset(w))

-----------------------------------------------------------------------------
(* NextAfter.                                                              *)

\* Mutant: day of month and day of week must both match.
DayMatchesBoth(c, d) == d.dom \in c.dom /\ d.dow \in c.dow

\* Two restricted day fields are alternatives.
DayMatches(c, d) ==
  LET domWild == c.dom = DomWild
      dowWild == c.dow = DowWild
  IN \/ domWild /\ dowWild
     \/ domWild /\ d.dow \in c.dow
     \/ dowWild /\ d.dom \in c.dom
     \/ ~domWild /\ ~dowWild /\ (d.dom \in c.dom \/ d.dow \in c.dow)

\* The nested loops over the fields visit wall-clock times in order and skip
\* those before cur, field by field; a time that the location does not have on
\* this day is skipped, too.
Candidate(c, cur, w) ==
  /\ w >= cur
  /\ DayAt(w).year =< DayAt(cur).year + 4
  /\ DayAt(w).month \in c.month
  /\ DayMatches(c, DayAt(w))
  /\ HourAt(w) \in c.hour
  /\ MinuteAt(w) \in c.minute
  /\ Wall(Date(w)) \div DayLength = w \div DayLength

NextAfter(c, t) ==
  LET cur == Wall(t + 1)
      found == {w \in WallTime : Candidate(c, cur, w)}
  IN IF found = {} THEN Zero ELSE Date(Min(found))

-----------------------------------------------------------------------------
(* The reference: the instants whose wall-clock time the expression names. *)

Names(c, w) ==
  LET d == DayAt(w)
  IN /\ MinuteAt(w) \in c.minute /\ HourAt(w) \in c.hour /\ d.month \in c.month
     /\ IF c.dom # DomWild /\ c.dow # DowWild
          THEN {d.dom} \cap c.dom # {} \/ {d.dow} \cap c.dow # {}
          ELSE d.dom \in c.dom /\ d.dow \in c.dow

Matches(c) == {i \in {w - Before : w \in WallTime} \cup {w - After : w \in WallTime} :
                 Wall(i) \in WallTime /\ Names(c, Wall(i))}
=============================================================================
