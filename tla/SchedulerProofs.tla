--------------------------- MODULE SchedulerProofs ---------------------------
(***************************************************************************)
(* Proofs about Scheduler and Cron, for any calendar, any set of entries   *)
(* and expressions and any number of restarts.                             *)
(***************************************************************************)
EXTENDS Scheduler, WellFoundedInduction, TLAPS

Firing == {"complete", "clear", "advance", "insert", "publish", "succeed"}

\* What the locals of tick and fireEntry are worth.  An entry is listed once, and
\* not any more when it is being fired.
TickInv ==
  /\ pc \in Firing =>
       cur \in Entry /\ status[cur] # "none" /\ \A x \in listed : x.entry # cur
  /\ pc \in {"complete", "clear"} => cur \in Once
  /\ pc = "advance" => cur \in Recurring
  /\ pc \in {"publish", "succeed"} => runs[cur] # <<>>
  /\ pc = "succeed" => LastRun(cur).sent
  /\ \A x \in listed : status[x.entry] # "none"
  /\ \A x, y \in listed : x.entry = y.entry => x = y

\* A one-shot entry that has a run has no next run, and is not about to get one.
OnceInv ==
  \A e \in Once :
    /\ Len(runs[e]) =< 1
    /\ cur = e /\ pc = "insert" => nextRun[e] = None
    /\ runs[e] # <<>> =>
         /\ nextRun[e] = None
         /\ status[e] # "none"
         /\ \A x \in listed : x.entry # e
         /\ ~(cur = e /\ pc \in {"complete", "clear", "insert"})

\* A tool that is to write has changed the status before, and will not bring a
\* one-shot entry back.
ToolInv ==
  /\ tool.pc # "idle" => tool.entry \in Entry /\ tool.goal \in {"active", "deleted"}
  /\ tool.pc = "compute" => tool.entry \in Recurring /\ tool.goal = "active"
  /\ tool.pc # "idle" /\ tool.entry \in Once => tool.next = None
  /\ tool.pc # "idle" /\ tool.goal = "deleted" => status[tool.entry] \notin {"none", "active"}

HaltedInv == \A e \in halted : status[e] \notin {"none", "active"}

SchedulerInv ==
  /\ SchedulerTypeOK
  /\ TickInv
  /\ OnceInv
  /\ ToolInv
  /\ HaltedInv
  /\ RunsTellTruth

-----------------------------------------------------------------------------
(* The calendar.                                                           *)

\* A set of natural numbers that is not empty has a least one.
LEMMA LeastExists ==
  ASSUME NEW S \in SUBSET Nat, S # {}
  PROVE  Min(S) \in S /\ \A y \in S : Min(S) =< y
<1>1. PICK x \in S : \A y \in S : ~(<<y, x>> \in OpToRel(<, Nat))
  BY NatLessThanWellFounded, WFMin
<1>2. \A y \in S : ~(y < x)
  BY <1>1 DEF OpToRel
<1>3. \A y \in S : x =< y
  BY <1>2
<1> QED
  BY <1>3 DEF Min

\* Wall-clock times are natural numbers, offsets and days are in range.
LEMMA CalendarTyped ==
  /\ DayLength \in Nat \ {0} /\ Len(Day) \in Nat
  /\ WallTime \subseteq Nat
  /\ \A i \in Int : Offset(i) \in Int /\ Wall(i) \in Int /\ Date(i) \in Int
<1>1. HoursPerDay \in Nat \ {0} /\ MinutesPerHour \in Nat \ {0} /\ Len(Day) \in Nat
  BY CronAssumption
<1>2. DayLength \in Nat \ {0}
  BY <1>1 DEF DayLength
<1>3. WallTime \subseteq Nat
  <2>1. Len(Day) * DayLength - 1 \in Int
    BY <1>1, <1>2
  <2> QED
    BY <2>1 DEF WallTime
<1>4. \A i \in Int : Offset(i) \in Int
  BY CronAssumption DEF Offset
<1>5. \A i \in Int : Wall(i) \in Int
  BY <1>4 DEF Wall
<1>6. ASSUME NEW i \in Int PROVE Date(i) \in Int
  <2>1. i - Offset(i) \in Int
    BY <1>4
  <2>2. Offset(i - Offset(i)) \in Int
    BY <1>4, <2>1
  <2> QED
    BY <2>2 DEF Date
<1> QED
  BY <1>1, <1>2, <1>3, <1>4, <1>5, <1>6

\* A wall-clock time is on a day of the calendar.
LEMMA DayTyped ==
  ASSUME NEW w \in WallTime
  PROVE  DayAt(w) \in [year : Int, month : Int, dom : DomWild, dow : DowWild]
<1> DEFINE q == w \div DayLength
<1>1. DayLength \in Nat \ {0} /\ Len(Day) \in Nat /\ w \in Nat /\ w < Len(Day) * DayLength
  BY CalendarTyped DEF WallTime
<1>2. q \in Nat /\ q * DayLength =< w
  BY <1>1
<1>3. q < Len(Day)
  <2>1. ASSUME q >= Len(Day) PROVE FALSE
    <3>1. q * DayLength >= Len(Day) * DayLength
      BY <1>1, <1>2, <2>1
    <3> QED
      BY <1>1, <1>2, <3>1
  <2> QED
    BY <1>1, <1>2, <2>1
<1> DEFINE row == [year : Int, month : Int, dom : DomWild, dow : DowWild]
<1>4. Day \in Seq(row)
  BY CronAssumption
<1> HIDE DEF row
<1>5. Day[q + 1] \in row
  BY <1>1, <1>2, <1>3, <1>4
<1> QED
  BY <1>5 DEF DayAt, row

\* What NextAfter finds is a candidate and the first one.
LEMMA FirstCandidate ==
  ASSUME NEW c, NEW t \in Int
  PROVE  LET found == {w \in WallTime : Candidate(c, Wall(t + 1), w)}
         IN \/ found = {} /\ NextAfter(c, t) = Zero
            \/ found # {} /\ \E w \in found : NextAfter(c, t) = Date(w) /\ \A x \in found : w =< x
<1> DEFINE found == {w \in WallTime : Candidate(c, Wall(t + 1), w)}
<1>1. NextAfter(c, t) = IF found = {} THEN Zero ELSE Date(Min(found))
  BY DEF NextAfter
<1>2. found \in SUBSET Nat
  BY CalendarTyped
<1> HIDE DEF found
<1>3. CASE found = {}
  BY <1>1, <1>3 DEF found
<1>4. CASE found # {}
  BY <1>1, <1>2, <1>4, LeastExists DEF found
<1> QED
  BY <1>3, <1>4

\* The next run is an instant, or the zero time.
LEMMA NextTyped ==
  ASSUME NEW e \in DOMAIN Expr, NEW t \in Time
  PROVE  NextRun[e][t] = NextAfter(Expr[e], t) /\ NextRun[e][t] \in Int
<1>1. t \in Int
  BY CalendarTyped DEF Time
<1>2. NextAfter(Expr[e], t) \in Int
  <2> DEFINE found == {w \in WallTime : Candidate(Expr[e], Wall(t + 1), w)}
  <2>1. NextAfter(Expr[e], t) = Zero \/ \E w \in found : NextAfter(Expr[e], t) = Date(w)
    BY <1>1, FirstCandidate
  <2>2. \A w \in found : Date(w) \in Int
    BY CalendarTyped
  <2> HIDE DEF found
  <2> QED
    BY <2>1, <2>2 DEF Zero
<1> QED
  BY <1>2 DEF NextRun

\* The clock stays where the calendar is.
LEMMA ClockTyped ==
  ASSUME SchedulerTypeOK
  PROVE  /\ {epoch, now, tickTime} \subseteq Int
         /\ \A t \in epoch..(epoch + Span) : t \in Time /\ t \in Int
         /\ {now, tickTime} \subseteq epoch..(epoch + Span)
<1>1. epoch \in Int /\ Span \in Nat
  BY SchedulerAssumption DEF SchedulerTypeOK
<1>2. \A t \in epoch..(epoch + Span) : t \in Time
  BY SchedulerAssumption DEF SchedulerTypeOK
<1> QED
  BY <1>1, <1>2 DEF SchedulerTypeOK

-----------------------------------------------------------------------------
(* NextAfter and its reference, where the offset does not change.          *)

\* Instants and wall-clock times differ by the offset.
LEMMA Steady ==
  ASSUME Before = After
  PROVE  Before \in Int /\ \A i \in Int : Wall(i) = i + Before /\ Date(i) = i - Before
BY CronAssumption DEF Wall, Date, Offset

\* The fields are searched one after another, and compared all at once in the
\* reference.
LEMMA DaysAgree ==
  ASSUME NEW c, NEW d \in [year : Int, month : Int, dom : DomWild, dow : DowWild]
  PROVE  DayMatches(c, d) <=>
           IF c.dom # DomWild /\ c.dow # DowWild
             THEN {d.dom} \cap c.dom # {} \/ {d.dow} \cap c.dow # {}
             ELSE d.dom \in c.dom /\ d.dow \in c.dow
<1>1. d.dom \in DomWild /\ d.dow \in DowWild
  OBVIOUS
<1> QED
  BY <1>1 DEF DayMatches

\* What the search accepts is what the expression names.
LEMMA CandidateIsNamed ==
  ASSUME Before = After, NEW c, NEW cur_, NEW w \in WallTime
  PROVE  Candidate(c, cur_, w) <=>
           w >= cur_ /\ DayAt(w).year =< DayAt(cur_).year + 4 /\ Names(c, w)
<1>1. Wall(Date(w)) = w
  BY Steady, CalendarTyped
<1>2. DayMatches(c, DayAt(w)) <=>
        IF c.dom # DomWild /\ c.dow # DowWild
          THEN {DayAt(w).dom} \cap c.dom # {} \/ {DayAt(w).dow} \cap c.dow # {}
          ELSE DayAt(w).dom \in c.dom /\ DayAt(w).dow \in c.dow
  BY DayTyped, DaysAgree
<1> QED
  BY <1>1, <1>2 DEF Candidate, Names

\* The instants the reference takes the first of.
Later(c, t) == {i \in Matches(c) : i > t /\ DayAt(Wall(i)).year =< DayAt(Wall(t + 1)).year + 4}

\* The first candidate is the first of these instants.
LEMMA NextIsFirst ==
  ASSUME Before = After, NEW c, NEW t \in Time
  PROVE  NextAfter(c, t) = IF Later(c, t) = {} THEN Zero ELSE Min(Later(c, t))
<1> DEFINE found == {w \in WallTime : Candidate(c, Wall(t + 1), w)}
           later == Later(c, t)
<1>1. t \in Int /\ Before \in Int /\ Wall(t + 1) = t + 1 + Before
  BY CalendarTyped, Steady DEF Time
<1>2. ASSUME NEW w \in found PROVE w \in Nat /\ Date(w) = w - Before /\ Date(w) \in later
  <2>1. w \in Nat /\ w \in WallTime /\ Candidate(c, Wall(t + 1), w)
    BY CalendarTyped
  <2>2. w >= t + 1 + Before /\ DayAt(w).year =< DayAt(Wall(t + 1)).year + 4 /\ Names(c, w)
    BY <1>1, <2>1, CandidateIsNamed
  <2>3. Date(w) = w - Before /\ Date(w) \in Int /\ Wall(Date(w)) = w /\ Date(w) > t
    BY <1>1, <2>1, <2>2, Steady
  <2>4. Date(w) \in Matches(c)
    BY <2>1, <2>2, <2>3 DEF Matches
  <2> QED
    BY <2>1, <2>2, <2>3, <2>4 DEF Later
<1>3. ASSUME NEW i \in later PROVE i \in Int /\ i + Before \in found
  <2>1. i \in Int
    BY <1>1, CalendarTyped, CronAssumption DEF Later, Matches
  <2>2. Wall(i) = i + Before /\ Wall(i) \in WallTime /\ Names(c, Wall(i)) /\ i > t
    BY <2>1, Steady DEF Later, Matches
  <2>3. DayAt(Wall(i)).year =< DayAt(Wall(t + 1)).year + 4
    BY DEF Later
  <2>4. Wall(i) >= Wall(t + 1)
    BY <1>1, <2>1, <2>2
  <2> QED
    BY <2>1, <2>2, <2>3, <2>4, CandidateIsNamed
<1>4. \/ found = {} /\ NextAfter(c, t) = Zero
      \/ found # {} /\ \E w \in found : NextAfter(c, t) = Date(w) /\ \A x \in found : w =< x
  BY <1>1, FirstCandidate
<1> HIDE DEF found, later
<1>5. CASE found = {} /\ NextAfter(c, t) = Zero
  <2>1. later = {}
    BY <1>3, <1>5
  <2> QED
    BY <1>5, <2>1 DEF later
<1>6. ASSUME NEW w \in found, NextAfter(c, t) = Date(w), \A x \in found : w =< x
      PROVE  NextAfter(c, t) = IF later = {} THEN Zero ELSE Min(later)
  <2>1. Date(w) \in later /\ Date(w) = w - Before /\ w \in Nat
    BY <1>2
  <2>2. \A i \in later : i \in Int /\ Date(w) =< i
    <3>1. ASSUME NEW i \in later PROVE i \in Int /\ w =< i + Before
      BY <1>3, <1>6
    <3> QED
      BY <1>1, <2>1, <3>1
  <2>3. Min(later) \in later /\ \A i \in later : Min(later) =< i
    BY <2>1, <2>2 DEF Min
  <2>4. Min(later) = Date(w)
    BY <2>1, <2>2, <2>3
  <2> QED
    BY <1>6, <2>1, <2>4
<1> QED
  BY <1>4, <1>5, <1>6 DEF later

\* On every calendar without daylight saving and for every expression, the
\* field-by-field search of NextAfter finds the first matching instant strictly
\* after the given one, within four years (cron.go:202).
THEOREM NextAfterIsLeast ==
  ASSUME Before = After PROVE SchedulerSpec => []NextIsLeast
<1>1. NextRun = Least
  <2>1. \A e \in DOMAIN Expr : \A t \in Time :
          NextAfter(Expr[e], t) = IF Later(Expr[e], t) = {} THEN Zero ELSE Min(Later(Expr[e], t))
    BY NextIsFirst
  <2> QED
    BY <2>1 DEF NextRun, Least, Later
<1>2. NextIsLeast
  BY <1>1 DEF NextIsLeast
<1> QED
  BY <1>2, PTL

-----------------------------------------------------------------------------
(* The scheduler: its steps.                                               *)

\* At the start there are no entries.
LEMMA SchedulerStart == SchedulerInit => SchedulerInv
<1> SUFFICES ASSUME SchedulerInit PROVE SchedulerInv
  OBVIOUS
<1> USE DEF SchedulerInit
<1>1. epoch \in Int /\ Span \in Nat
  BY SchedulerAssumption
<1>2. SchedulerTypeOK
  <2>1. now \in epoch..(epoch + Span) /\ tickTime \in epoch..now
    BY <1>1
  <2>2. tool \in [pc : {"idle", "compute", "write"}, entry : Entry \cup {None},
                 goal : {"none", "active", "deleted"}, next : Int \cup {None}]
    BY DEF ToolIdle
  <2>3. runs \in [Entry -> Seq(RunType)]
    OBVIOUS
  <2> QED
    BY <2>1, <2>2, <2>3 DEF SchedulerTypeOK
<1>3. TickInv /\ OnceInv /\ ToolInv /\ HaltedInv /\ RunsTellTruth
  BY DEF TickInv, Firing, OnceInv, ToolInv, ToolIdle, HaltedInv, RunsTellTruth, Entry
<1> QED
  BY <1>2, <1>3 DEF SchedulerInv

\* A tick lists what is due: no one-shot entry that had its run.
LEMMA StartTickStep ==
  ASSUME SchedulerInv, StartTick
  PROVE  SchedulerInv'
<1> USE DEF SchedulerInv
<1>1. PICK t \in tickTime..now :
        /\ tickTime' = t
        /\ listed' = {x \in ListActiveCronEntries : Due(x, t)}
  BY DEF StartTick
<1>2. /\ pc' = "pick"
      /\ UNCHANGED <<epoch, now, life, status, nextRun, runs, cur, cancelled, tool, halted>>
  BY DEF StartTick, clock, store
<1>3. ASSUME NEW x \in listed'
      PROVE  /\ x.entry \in Entry /\ status[x.entry] = "active" /\ nextRun[x.entry] # None
             /\ x = [entry |-> x.entry, due |-> nextRun[x.entry]] /\ x.due \in Int
  <2>1. PICK e \in Entry : status[e] = "active" /\ x = [entry |-> e, due |-> nextRun[e]]
    BY <1>1 DEF ListActiveCronEntries
  <2>2. nextRun[e] # None
    BY <1>1, <2>1 DEF Due
  <2> QED
    BY <2>1, <2>2 DEF SchedulerTypeOK
<1>4. tickTime' \in epoch..now
  BY <1>1, ClockTyped DEF SchedulerTypeOK
<1>5. SchedulerTypeOK'
  BY <1>2, <1>3, <1>4 DEF SchedulerTypeOK
<1>6. TickInv'
  <2>1. \A x \in listed' : status'[x.entry] # "none"
    BY <1>2, <1>3
  <2>2. \A x, y \in listed' : x.entry = y.entry => x = y
    BY <1>3
  <2> QED
    BY <1>2, <2>1, <2>2 DEF TickInv, Firing
<1>7. OnceInv'
  <2>1. \A e \in Once : runs[e] # <<>> => \A x \in listed' : x.entry # e
    BY <1>3 DEF OnceInv
  <2> QED
    BY <1>2, <2>1 DEF OnceInv
<1>8. ToolInv' /\ HaltedInv' /\ RunsTellTruth'
  BY <1>2 DEF ToolInv, HaltedInv, RunsTellTruth
<1> QED
  BY <1>5, <1>6, <1>7, <1>8

\* An entry is taken from the list and not listed any more.
LEMMA PickStep ==
  ASSUME SchedulerInv, Pick
  PROVE  SchedulerInv'
<1> USE DEF SchedulerInv
<1>1. PICK x \in listed :
        /\ cur' = x.entry
        /\ listed' = listed \ {x}
        /\ pc' = IF x.entry \in Once THEN "complete" ELSE "advance"
  BY DEF Pick
<1>2. UNCHANGED <<epoch, now, life, status, nextRun, runs, tickTime, cancelled, tool, halted>>
  BY DEF Pick, clock, store
<1>3. x.entry \in Entry
  BY DEF SchedulerTypeOK
<1>4. SchedulerTypeOK'
  BY <1>1, <1>2, <1>3 DEF SchedulerTypeOK
<1>5. TickInv'
  BY <1>1, <1>2, <1>3 DEF TickInv, Firing, Entry
<1>6. OnceInv'
  BY <1>1, <1>2 DEF OnceInv
<1>7. ToolInv' /\ HaltedInv' /\ RunsTellTruth'
  BY <1>2 DEF ToolInv, HaltedInv, RunsTellTruth
<1> QED
  BY <1>4, <1>5, <1>6, <1>7

\* The loop goes on, or ends, and writes nothing.
LEMMA LoopMoves ==
  ASSUME SchedulerInv, EndTick \/ UpdateFails \/ InsertFails \/ PublishFails \/ MarkFails \/ ExitLoop
  PROVE  SchedulerInv'
<1> USE DEF SchedulerInv
<1>1. /\ UNCHANGED <<epoch, now, life, status, nextRun, runs, tickTime, listed, cancelled, tool, halted>>
      /\ \/ pc' = "pick" /\ cur' = cur
         \/ pc' = "idle" /\ cur' = None
         \/ pc' = "stopped" /\ cur' = cur
  BY DEF EndTick, UpdateFails, InsertFails, PublishFails, MarkFails, ExitLoop, Fire, clock, store
<1>2. SchedulerTypeOK'
  BY <1>1 DEF SchedulerTypeOK
<1>3. TickInv'
  BY <1>1 DEF TickInv, Firing
<1>4. OnceInv'
  BY <1>1 DEF OnceInv
<1>5. ToolInv' /\ HaltedInv' /\ RunsTellTruth'
  BY <1>1 DEF ToolInv, HaltedInv, RunsTellTruth
<1> QED
  BY <1>2, <1>3, <1>4, <1>5

\* A one-shot entry is completed, then cleared; a recurring one is advanced.
LEMMA UpdateStep ==
  ASSUME SchedulerInv, NEW e \in Entry, Complete(e) \/ Clear(e) \/ Advance(e)
  PROVE  SchedulerInv'
<1> USE DEF SchedulerInv
<1>1. /\ cur = e /\ pc \in {"complete", "clear", "advance"}
      /\ UNCHANGED <<epoch, now, life, runs, tickTime, listed, cur, cancelled, tool, halted>>
  BY DEF Complete, Clear, Advance, Fire, clock
<1>2. /\ e \in Once <=> pc \in {"complete", "clear"}
      /\ e \in Once => runs[e] = <<>>
      /\ e \in Recurring <=> pc = "advance"
  BY <1>1, SchedulerAssumption DEF TickInv, OnceInv
<1>3. CASE Complete(e)
  <2>1. /\ pc = "complete" /\ pc' = "clear" /\ UNCHANGED nextRun
        /\ status' = [status EXCEPT ![e] = "completed"]
    BY <1>3 DEF Complete, Fire, UpdateCronStatus
  <2>2. SchedulerTypeOK'
    BY <1>1, <2>1 DEF SchedulerTypeOK
  <2>3. TickInv'
    BY <1>1, <1>2, <2>1 DEF TickInv, Firing, SchedulerTypeOK
  <2>4. OnceInv'
    BY <1>1, <1>2, <2>1 DEF OnceInv, SchedulerTypeOK
  <2>5. ToolInv' /\ HaltedInv' /\ RunsTellTruth'
    BY <1>1, <2>1 DEF ToolInv, HaltedInv, RunsTellTruth, SchedulerTypeOK
  <2> QED
    BY <2>2, <2>3, <2>4, <2>5
<1>4. CASE Clear(e) \/ Advance(e)
  <2> DEFINE next == IF pc = "clear" THEN None ELSE NextRun[e][tickTime]
  <2>1. /\ pc \in {"clear", "advance"} /\ pc' = "insert" /\ UNCHANGED status
        /\ nextRun' = [nextRun EXCEPT ![e] = next]
    BY <1>4 DEF Clear, Advance, Fire, UpdateCronNextRun
  <2>2. next \in Int \cup {None}
    <3>1. tickTime \in Time
      BY ClockTyped
    <3>2. pc = "advance" => e \in DOMAIN Expr
      BY <1>2, SchedulerAssumption
    <3> QED
      BY <2>1, <3>1, <3>2, NextTyped
  <2>3. SchedulerTypeOK'
    BY <1>1, <2>1, <2>2 DEF SchedulerTypeOK
  <2>4. TickInv'
    BY <1>1, <1>2, <2>1 DEF TickInv, Firing
  <2>5. OnceInv'
    BY <1>1, <1>2, <2>1 DEF OnceInv, SchedulerTypeOK
  <2>6. ToolInv' /\ HaltedInv' /\ RunsTellTruth'
    BY <1>1, <2>1 DEF ToolInv, HaltedInv, RunsTellTruth
  <2> QED
    BY <2>3, <2>4, <2>5, <2>6
<1> QED
  BY <1>3, <1>4

\* A run is added to the entry that is fired: for a one-shot entry the first.
LEMMA InsertStep ==
  ASSUME SchedulerInv, InsertRun
  PROVE  SchedulerInv'
<1> USE DEF SchedulerInv
<1> DEFINE run == [status |-> "running", sent |-> FALSE]
<1>1. /\ pc = "insert" /\ pc' = "publish"
      /\ runs' = [runs EXCEPT ![cur] = Append(@, run)]
      /\ UNCHANGED <<epoch, now, life, status, nextRun, tickTime, listed, cur, cancelled, tool, halted>>
  BY DEF InsertRun, Fire, InsertCronRun, clock
<1>2. cur \in Entry /\ runs[cur] \in Seq(RunType) /\ run \in RunType
  BY <1>1 DEF TickInv, Firing, SchedulerTypeOK, RunType
<1>3. /\ Append(runs[cur], run) \in Seq(RunType)
      /\ Len(Append(runs[cur], run)) = Len(runs[cur]) + 1
      /\ \A i \in DOMAIN Append(runs[cur], run) :
           Append(runs[cur], run)[i] = IF i \in DOMAIN runs[cur] THEN runs[cur][i] ELSE run
  BY <1>2
<1>4. /\ runs' \in [Entry -> Seq(RunType)]
      /\ runs'[cur] = Append(runs[cur], run)
      /\ \A e \in Entry \ {cur} : runs'[e] = runs[e]
  BY <1>1, <1>2, <1>3 DEF SchedulerTypeOK
<1>5. SchedulerTypeOK'
  BY <1>1, <1>4 DEF SchedulerTypeOK
<1>6. TickInv'
  BY <1>1, <1>3, <1>4 DEF TickInv, Firing
<1>7. OnceInv'
  <2>1. cur \in Once => runs[cur] = <<>> /\ Len(runs'[cur]) = 1
    BY <1>1, <1>3, <1>4 DEF OnceInv
  <2> QED
    BY <1>1, <1>2, <1>4, <2>1 DEF OnceInv, TickInv, Firing, Entry
<1>8. ToolInv' /\ HaltedInv'
  BY <1>1 DEF ToolInv, HaltedInv
<1>9. RunsTellTruth'
  <2>1. run.status # "success"
    OBVIOUS
  <2>2. ASSUME NEW i \in DOMAIN runs'[cur], runs'[cur][i].status = "success"
        PROVE  runs'[cur][i].sent
    <3>1. runs'[cur][i] = IF i \in DOMAIN runs[cur] THEN runs[cur][i] ELSE run
      BY <1>3, <1>4, <2>2
    <3>2. i \in DOMAIN runs[cur] /\ runs'[cur][i] = runs[cur][i]
      BY <2>1, <2>2, <3>1
    <3> QED
      BY <1>2, <2>2, <3>2 DEF RunsTellTruth
  <2>3. \A e \in Entry \ {cur} : \A i \in DOMAIN runs'[e] : runs'[e][i].status = "success" => runs'[e][i].sent
    BY <1>4 DEF RunsTellTruth
  <2>4. cur' = cur
    BY <1>1
  <2> QED
    BY <2>2, <2>3 DEF RunsTellTruth
<1> QED
  BY <1>5, <1>6, <1>7, <1>8, <1>9

\* The last run is published, or marked once it was.
LEMMA RunStep ==
  ASSUME SchedulerInv, Publish \/ MarkSuccess
  PROVE  SchedulerInv'
<1> USE DEF SchedulerInv
<1> DEFINE n == Len(runs[cur])
           run == IF pc = "publish" THEN [LastRun(cur) EXCEPT !.sent = TRUE]
                                    ELSE [LastRun(cur) EXCEPT !.status = "success"]
<1>1. /\ \/ pc = "publish" /\ pc' = "succeed"
         \/ pc = "succeed" /\ pc' = "pick"
      /\ runs' = [runs EXCEPT ![cur] = [@ EXCEPT ![n] = run]]
      /\ UNCHANGED <<epoch, now, life, status, nextRun, tickTime, listed, cur, cancelled, tool, halted>>
  BY DEF Publish, MarkSuccess, Fire, UpdateRun, clock
<1>2. cur \in Entry /\ runs[cur] \in Seq(RunType) /\ runs[cur] # <<>>
  BY <1>1 DEF TickInv, Firing, SchedulerTypeOK
<1>3. n \in DOMAIN runs[cur] /\ LastRun(cur) \in RunType
  BY <1>2 DEF LastRun
<1>4. run \in RunType /\ run.sent
  BY <1>1, <1>3 DEF RunType, TickInv
<1> HIDE DEF run
<1>5. /\ [runs[cur] EXCEPT ![n] = run] \in Seq(RunType)
      /\ Len([runs[cur] EXCEPT ![n] = run]) = n
      /\ \A i \in DOMAIN runs[cur] : [runs[cur] EXCEPT ![n] = run][i] = IF i = n THEN run ELSE runs[cur][i]
  BY <1>2, <1>3, <1>4
<1>6. /\ runs' \in [Entry -> Seq(RunType)]
      /\ runs'[cur] = [runs[cur] EXCEPT ![n] = run]
      /\ \A e \in Entry \ {cur} : runs'[e] = runs[e]
      /\ \A e \in Entry : Len(runs'[e]) = Len(runs[e]) /\ DOMAIN runs'[e] = DOMAIN runs[e]
  BY <1>1, <1>2, <1>5 DEF SchedulerTypeOK
<1>7. SchedulerTypeOK'
  BY <1>1, <1>6 DEF SchedulerTypeOK
<1>8. TickInv'
  <2>1. runs'[cur] # <<>> /\ LastRun(cur)' = run
    BY <1>1, <1>2, <1>3, <1>5, <1>6 DEF LastRun
  <2> QED
    BY <1>1, <1>4, <2>1 DEF TickInv, Firing
<1>9. OnceInv'
  <2>1. \A e \in Entry : runs'[e] # <<>> => runs[e] # <<>>
    BY <1>2, <1>6
  <2> QED
    BY <1>1, <1>6, <2>1 DEF OnceInv, Entry
<1>10. ToolInv' /\ HaltedInv'
  BY <1>1 DEF ToolInv, HaltedInv
<1>11. RunsTellTruth'
  BY <1>4, <1>5, <1>6 DEF RunsTellTruth
<1> QED
  BY <1>7, <1>8, <1>9, <1>10, <1>11

\* The clock goes on, the scheduler is stopped, or the process starts again.
LEMMA AroundStep ==
  ASSUME SchedulerInv, Minute \/ Stop \/ Restart
  PROVE  SchedulerInv'
<1> USE DEF SchedulerInv
<1>1. UNCHANGED <<epoch, status, nextRun, runs, halted>>
  BY DEF Minute, Stop, Restart, clock, store
<1>2. /\ now' \in epoch..(epoch + Span) /\ tickTime' \in epoch..now' /\ life' \in Nat /\ cancelled' \in BOOLEAN
  <2>1. epoch \in Int /\ Span \in Nat /\ now \in epoch..(epoch + Span) /\ tickTime \in epoch..now /\ life \in Nat
    BY SchedulerAssumption DEF SchedulerTypeOK
  <2>2. CASE Minute
    BY <2>1, <2>2 DEF Minute, loop, SchedulerTypeOK
  <2>3. CASE Stop
    BY <2>1, <2>3 DEF Stop, loop, clock
  <2>4. CASE Restart
    <3>1. now' = now /\ tickTime' = now /\ life' = life + 1 /\ cancelled' = FALSE
      BY <2>4 DEF Restart
    <3>2. now \in epoch..now
      BY <2>1
    <3>3. life' \in Nat
      BY <2>1, <3>1
    <3>4. now' \in epoch..(epoch + Span) /\ tickTime' \in epoch..now'
      BY <2>1, <3>1, <3>2
    <3> QED
      BY <3>1, <3>3, <3>4
  <2> QED
    BY <2>2, <2>3, <2>4
<1>3. \/ UNCHANGED <<pc, listed, cur, tool>>
      \/ pc' = "idle" /\ listed' = {} /\ cur' = None /\ tool' = ToolIdle
  BY DEF Minute, Stop, Restart, loop
<1>4. SchedulerTypeOK'
  BY <1>1, <1>2, <1>3 DEF SchedulerTypeOK, ToolIdle
<1>5. TickInv'
  BY <1>1, <1>3 DEF TickInv, Firing, LastRun
<1>6. OnceInv'
  BY <1>1, <1>3 DEF OnceInv
<1>7. ToolInv' /\ HaltedInv' /\ RunsTellTruth'
  BY <1>1, <1>3 DEF ToolInv, ToolIdle, HaltedInv, RunsTellTruth
<1> QED
  BY <1>4, <1>5, <1>6, <1>7

\* An entry is created once, with no run.
LEMMA CreateStep ==
  ASSUME SchedulerInv, NEW e \in Entry, Create(e)
  PROVE  SchedulerInv'
<1> USE DEF SchedulerInv
<1>1. PICK next : SaveCronEntry(e, next) /\ next \in Int \cup {None}
  <2>1. {epoch, now} \subseteq Int /\ now \in Time /\ Span \in Nat
    BY ClockTyped, SchedulerAssumption DEF SchedulerTypeOK
  <2>2. e \in Recurring => NextRun[e][now] \in Int
    BY <2>1, NextTyped, SchedulerAssumption
  <2>3. \A t \in epoch..(epoch + Span) : t \in Int
    BY <2>1
  <2> QED
    BY <2>2, <2>3 DEF Create
<1>2. /\ status[e] = "none"
      /\ status' = [status EXCEPT ![e] = "active"]
      /\ nextRun' = [nextRun EXCEPT ![e] = next]
      /\ UNCHANGED <<epoch, now, life, runs, pc, tickTime, listed, cur, cancelled, tool, halted>>
  BY <1>1 DEF Create, SaveCronEntry, UpdateCronStatus, UpdateCronNextRun, clock, loop
<1>3. SchedulerTypeOK'
  BY <1>1, <1>2 DEF SchedulerTypeOK
<1>4. TickInv'
  BY <1>2 DEF TickInv, Firing, SchedulerTypeOK, LastRun
<1>5. OnceInv'
  BY <1>2 DEF OnceInv, TickInv, Firing, SchedulerTypeOK
<1>6. ToolInv' /\ HaltedInv' /\ RunsTellTruth'
  BY <1>2 DEF ToolInv, HaltedInv, RunsTellTruth, SchedulerTypeOK
<1> QED
  BY <1>3, <1>4, <1>5, <1>6

\* The status is written first; nothing else of the entry changes with it.
LEMMA SetStatusStep ==
  ASSUME SchedulerInv, NEW e \in Entry, NEW goal \in {"active", "paused", "deleted"}, SetStatus(e, goal)
  PROVE  SchedulerInv'
<1> USE DEF SchedulerInv
<1>1. /\ tool.pc = "idle" /\ status[e] # "none"
      /\ status' = [status EXCEPT ![e] = goal]
      /\ UNCHANGED <<epoch, now, life, nextRun, runs, pc, tickTime, listed, cur, cancelled>>
  BY DEF SetStatus, UpdateCronStatus, clock, loop
<1>2. \/ /\ goal = "deleted" /\ UNCHANGED halted
         /\ tool' = [pc |-> "write", entry |-> e, goal |-> goal, next |-> None]
      \/ /\ goal = "active" /\ e \in Recurring /\ halted' = halted \ {e}
         /\ tool' = [pc |-> "compute", entry |-> e, goal |-> goal, next |-> None]
      \/ /\ goal = "paused" /\ halted' = halted \cup {e} /\ UNCHANGED tool
      \/ /\ goal = "active" /\ halted' = halted \ {e} /\ UNCHANGED tool
  BY DEF SetStatus, Told
<1>3. SchedulerTypeOK'
  BY <1>1, <1>2 DEF SchedulerTypeOK
<1>4. TickInv'
  BY <1>1 DEF TickInv, Firing, SchedulerTypeOK, LastRun
<1>5. OnceInv'
  BY <1>1 DEF OnceInv, SchedulerTypeOK
<1>6. ToolInv'
  BY <1>1, <1>2 DEF ToolInv, SchedulerTypeOK
<1>7. HaltedInv'
  BY <1>1, <1>2 DEF HaltedInv, SchedulerTypeOK
<1>8. RunsTellTruth'
  BY <1>1 DEF RunsTellTruth
<1> QED
  BY <1>3, <1>4, <1>5, <1>6, <1>7, <1>8

\* The next run is computed, written, or not written.
LEMMA ToolStep ==
  ASSUME SchedulerInv, ToolCompute \/ ToolWrite \/ ToolFails
  PROVE  SchedulerInv'
<1> USE DEF SchedulerInv
<1>1. UNCHANGED <<epoch, now, life, status, runs, pc, tickTime, listed, cur, cancelled>>
  BY DEF ToolCompute, ToolWrite, ToolFails, clock, store, loop
<1>2. CASE ToolCompute
  <2>1. /\ tool.pc = "compute" /\ UNCHANGED <<nextRun, halted>>
        /\ tool' = [tool EXCEPT !.pc = "write", !.next = NextRun[tool.entry][now]]
    BY <1>2 DEF ToolCompute, store
  <2>2. tool.entry \in Recurring /\ tool.entry \notin Once /\ NextRun[tool.entry][now] \in Int
    BY <2>1, ClockTyped, NextTyped, SchedulerAssumption DEF ToolInv
  <2>3. SchedulerTypeOK'
    BY <1>1, <2>1, <2>2 DEF SchedulerTypeOK
  <2>4. ToolInv'
    BY <1>1, <2>1, <2>2 DEF ToolInv, SchedulerTypeOK
  <2> QED
    BY <1>1, <2>1, <2>3, <2>4 DEF TickInv, Firing, LastRun, OnceInv, HaltedInv, RunsTellTruth
<1>3. CASE ToolFails
  <2>1. tool' = ToolIdle /\ UNCHANGED <<nextRun, halted>>
    BY <1>3 DEF ToolFails, store
  <2>2. SchedulerTypeOK' /\ ToolInv'
    BY <1>1, <2>1 DEF SchedulerTypeOK, ToolInv, ToolIdle
  <2> QED
    BY <1>1, <2>1, <2>2 DEF TickInv, Firing, LastRun, OnceInv, HaltedInv, RunsTellTruth
<1>4. CASE ToolWrite
  <2> DEFINE e == tool.entry
  <2>1. /\ tool.pc = "write" /\ tool' = ToolIdle
        /\ nextRun' = [nextRun EXCEPT ![e] = tool.next]
        /\ halted' = IF tool.goal = "active" THEN halted \ {e} ELSE halted \cup {e}
    BY <1>4 DEF ToolWrite, UpdateCronNextRun, Told
  <2>2. /\ e \in Entry
        /\ tool.next \in Int \cup {None}
        /\ e \in Once => tool.next = None
        /\ tool.goal # "active" => status[e] \notin {"none", "active"}
    BY <2>1 DEF ToolInv, SchedulerTypeOK
  <2>3. SchedulerTypeOK'
    <3>1. /\ nextRun' \in [Entry -> Int \cup {None}]
          /\ halted' \subseteq Entry
      <4> HIDE DEF e
      <4>1. nextRun \in [Entry -> Int \cup {None}] /\ halted \subseteq Entry
        BY DEF SchedulerTypeOK
      <4>2. nextRun' \in [Entry -> Int \cup {None}]
        BY <2>1, <2>2, <4>1
      <4>3. halted' \subseteq Entry
        BY <2>1, <2>2, <4>1
      <4> QED
        BY <4>2, <4>3
    <3>2. tool' \in [pc : {"idle", "compute", "write"}, entry : Entry \cup {None},
                    goal : {"none", "active", "deleted"}, next : Int \cup {None}]
      BY <2>1 DEF ToolIdle
    <3> QED
      BY <1>1, <3>1, <3>2 DEF SchedulerTypeOK
  <2>4. OnceInv'
    BY <1>1, <2>1, <2>2 DEF OnceInv, SchedulerTypeOK
  <2>5. ToolInv' /\ HaltedInv'
    BY <1>1, <2>1, <2>2 DEF ToolInv, ToolIdle, HaltedInv
  <2>6. TickInv' /\ RunsTellTruth'
    BY <1>1 DEF TickInv, Firing, LastRun, RunsTellTruth
  <2> QED
    BY <2>3, <2>4, <2>5, <2>6
<1> QED
  BY <1>2, <1>3, <1>4

\* Every step keeps the invariant.
LEMMA SchedulerStep ==
  ASSUME SchedulerInv, [SchedulerNext]_vars
  PROVE  SchedulerInv'
<1>1. CASE UNCHANGED vars
  <2>1. /\ UNCHANGED <<epoch, now, life, status, nextRun, runs, pc, tickTime, listed, cur>>
        /\ UNCHANGED <<cancelled, tool, halted>>
    BY <1>1 DEF vars, clock, store, loop
  <2> QED
    BY <2>1 DEF SchedulerInv, SchedulerTypeOK, TickInv, Firing, LastRun, OnceInv, ToolInv, HaltedInv, RunsTellTruth
<1>2. CASE PollLoop
  BY <1>2, StartTickStep, PickStep, LoopMoves, UpdateStep, InsertStep, RunStep DEF PollLoop, FireEntry
<1>3. CASE Tools
  BY <1>3, CreateStep, SetStatusStep, ToolStep DEF Tools
<1> QED
  BY <1>1, <1>2, <1>3, RunStep, AroundStep DEF SchedulerNext

-----------------------------------------------------------------------------
(* Theorems.                                                               *)

\* The inductive invariant: types, what a tick holds while the tools write the
\* same table, and what a one-shot entry with a run has lost.
THEOREM SchedulerInvariant == SchedulerSpec => []SchedulerInv
<1>1. SchedulerInit => SchedulerInv
  BY SchedulerStart
<1>2. SchedulerInv /\ [SchedulerNext]_vars => SchedulerInv'
  BY SchedulerStep
<1> QED
  BY <1>1, <1>2, PTL DEF SchedulerSpec

\* Every variable keeps its type.
THEOREM SchedulerTypes == SchedulerSpec => []SchedulerTypeOK
<1>1. SchedulerInv => SchedulerTypeOK
  BY DEF SchedulerInv
<1> QED
  BY <1>1, SchedulerInvariant, PTL

\* A one-shot entry reaches the agent at most once, and a task whose owner was
\* told that it is paused or gone is not made active by a firing under way
\* (scheduler.go:125).
THEOREM TasksFireAsAsked == SchedulerSpec => []FiresAsAsked
<1>1. SchedulerInv => OneShotOnce
  <2>1. ASSUME SchedulerInv, NEW e \in Once, NEW i \in Sent(e), NEW j \in Sent(e)
        PROVE  i = j
    <3>1. runs[e] \in Seq(RunType) /\ Len(runs[e]) =< 1
      BY <2>1 DEF SchedulerInv, SchedulerTypeOK, OnceInv, Entry
    <3>2. i \in 1..Len(runs[e]) /\ j \in 1..Len(runs[e])
      BY <3>1 DEF Sent
    <3> QED
      BY <3>1, <3>2
  <2> QED
    BY <2>1 DEF OneShotOnce
<1>2. SchedulerInv => HaltedStaysInactive
  BY DEF SchedulerInv, HaltedInv, HaltedStaysInactive
<1>3. SchedulerInv => FiresAsAsked
  BY <1>1, <1>2 DEF FiresAsAsked
<1> QED
  BY <1>3, SchedulerInvariant, PTL

\* A run is a success only if its message was published (scheduler.go:201).
THEOREM RunsAreTrue == SchedulerSpec => []RunsTellTruth
<1>1. SchedulerInv => RunsTellTruth
  BY DEF SchedulerInv
<1> QED
  BY <1>1, SchedulerInvariant, PTL

\* Where the offset does not change, the next run that is stored for a fired
\* entry lies after the tick (cron.go:202): no expression fires twice in a tick.
THEOREM NextRunIsLater ==
  ASSUME Before = After PROVE SchedulerSpec => NextIsLater
<1>1. ASSUME SchedulerInv, [SchedulerNext]_vars
      PROVE  [\A e \in Entry :
                pc = "advance" /\ pc' = "insert" /\ cur = e
                  => nextRun'[e] = Zero \/ nextRun'[e] > tickTime]_vars
  <2>1. SUFFICES ASSUME NEW e \in Entry, pc = "advance", pc' = "insert", cur = e
                 PROVE  nextRun'[e] = Zero \/ nextRun'[e] > tickTime
    OBVIOUS
  <2>2. Advance(e)
    BY <1>1, <2>1 DEF SchedulerNext, PollLoop, FireEntry, StartTick, Pick, EndTick, Complete, Clear, Advance,
       UpdateFails, InsertRun, InsertFails, PublishFails, MarkSuccess, MarkFails, ExitLoop, Publish, Stop, Restart,
       Tools, Create, SetStatus, ToolCompute, ToolWrite, ToolFails, Minute, Fire, vars, loop
  <2>3. e \in DOMAIN Expr /\ tickTime \in Time /\ tickTime \in Int
    BY <1>1, <2>1, ClockTyped, SchedulerAssumption DEF SchedulerInv, TickInv
  <2>4. nextRun'[e] = NextAfter(Expr[e], tickTime)
    BY <1>1, <2>2, <2>3, NextTyped DEF Advance, UpdateCronNextRun, SchedulerInv, SchedulerTypeOK
  <2> DEFINE found == {w \in WallTime : Candidate(Expr[e], Wall(tickTime + 1), w)}
  <2>5. NextAfter(Expr[e], tickTime) = Zero \/ \E w \in found : NextAfter(Expr[e], tickTime) = Date(w)
    BY <2>3, FirstCandidate
  <2>6. ASSUME NEW w \in found PROVE Date(w) > tickTime
    <3>1. w \in Nat /\ w >= Wall(tickTime + 1)
      BY CalendarTyped DEF Candidate
    <3>2. Before \in Int /\ Wall(tickTime + 1) = tickTime + 1 + Before /\ Date(w) = w - Before
      BY <2>3, <3>1, Steady
    <3> QED
      BY <2>3, <3>1, <3>2
  <2> HIDE DEF found
  <2> QED
    BY <2>4, <2>5, <2>6
<1> QED
  BY <1>1, SchedulerInvariant, PTL DEF SchedulerSpec, NextIsLater
==============================================================================
