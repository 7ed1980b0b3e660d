------------------------------ MODULE Scheduler ------------------------------
(***************************************************************************)
(* The scheduler (internal/domain/service/scheduler/scheduler.go), the     *)
(* table of cron entries and runs it shares with the cron tools, and the   *)
(* tools cron_create and cron_set_status, which run in turns of the agent  *)
(* loop while the scheduler ticks.                                         *)
(*                                                                         *)
(* Every store call is a step and may fail; the process may stop between   *)
(* any two.  Stop cancels the context of the store calls and of Publish.   *)
(* A store call whose context is cancelled fails.                          *)
(***************************************************************************)
EXTENDS Cron

CONSTANTS
  Once,        \* entries of type "once"
  Recurring,   \* entries of type "recurring"
  Expr,        \* expressions, theirs among them
  StartTimes,  \* when the process is first started
  Span,        \* bounds the clock: minutes after the first start
  MaxLife,     \* bounds the runs of the process
  None         \* next_run_at IS NULL; no entry

\* Instants the calendar covers.
Time == {t \in WallTime : Wall(t + 1) \in WallTime}

ASSUME SchedulerAssumption ==
  /\ Once \cap Recurring = {}
  /\ Recurring \subseteq DOMAIN Expr
  /\ None \notin Once \cup Recurring \cup Int
  /\ StartTimes \subseteq Int
  /\ \A t \in StartTimes : t..(t + Span) \subseteq Time
  /\ Span \in Nat
  /\ MaxLife \in Nat

Entry == Once \cup Recurring

\* The next run after each instant.
NextRun == [e \in DOMAIN Expr |-> [t \in Time |-> NextAfter(Expr[e], t)]]

VARIABLES
  epoch,      \* when the process was first started
  now,        \* the clock
  status,     \* store: status of each entry
  nextRun,    \* store: next_run_at of each entry
  runs,       \* store: the runs of each entry; "sent" is history
  pc,         \* where the poll loop is
  tickTime,   \* now of tick
  listed,     \* entries the tick still has to fire, with the time they had
  cur,        \* the entry fireEntry works on
  cancelled,  \* Stop was called
  tool,       \* the call of cron_set_status under way
  halted,     \* history: entries whose owner was told they are paused or gone
  life        \* the current run of the process

store == <<status, nextRun, runs>>
loop == <<pc, tickTime, listed, cur>>
clock == <<epoch, now, life>>
vars == <<clock, store, loop, cancelled, tool, halted>>

ToolIdle == [pc |-> "idle", entry |-> None, goal |-> "none", next |-> None]

SchedulerInit ==
  /\ epoch \in StartTimes
  /\ now = epoch
  /\ life = 1
  /\ status = [e \in Entry |-> "none"]
  /\ nextRun = [e \in Entry |-> None]
  /\ runs = [e \in Entry |-> <<>>]
  /\ pc = "idle"
  /\ tickTime = epoch
  /\ listed = {}
  /\ cur = None
  /\ cancelled = FALSE
  /\ tool = ToolIdle
  /\ halted = {}

-----------------------------------------------------------------------------
(* The queries of the store.                                               *)

UpdateCronStatus(e, s) == status' = [status EXCEPT ![e] = s]

UpdateCronNextRun(e, t) == nextRun' = [nextRun EXCEPT ![e] = t]

SaveCronEntry(e, next) ==
  /\ status[e] = "none"
  /\ UpdateCronStatus(e, "active")
  /\ UpdateCronNextRun(e, next)
  /\ UNCHANGED runs

\* An entry without a next run is listed last, and not fired.
ListActiveCronEntries ==
  {[entry |-> e, due |-> nextRun[e]] : e \in {f \in Entry : status[f] = "active"}}

InsertCronRun(e) ==
  runs' = [runs EXCEPT ![e] = Append(@, [status |-> "running", sent |-> FALSE])]

\* The run the entry was fired with, and what its history tells of it.
LastRun(e) == runs[e][Len(runs[e])]

UpdateRun(run) == runs' = [runs EXCEPT ![cur] = [@ EXCEPT ![Len(@)] = run]]

-----------------------------------------------------------------------------
(* tick                                                                    *)

Due(x, t) == x.due # None /\ x.due =< t

\* The ticker's time may be old when the tick begins.  A tick that finds
\* nothing due, or whose query fails, changes nothing.
StartTick ==
  /\ pc = "idle"
  /\ ~cancelled
  /\ \E t \in tickTime..now :
       /\ tickTime' = t
       /\ listed' = {x \in ListActiveCronEntries : Due(x, t)}
  /\ listed' # {}
  /\ pc' = "pick"
  /\ UNCHANGED <<clock, store, cur, cancelled, tool, halted>>

\* Entries are fired in the order of their times.
Pick ==
  /\ pc = "pick"
  /\ \E x \in listed :
       /\ \A y \in listed : x.due =< y.due
       /\ cur' = x.entry
       /\ listed' = listed \ {x}
       /\ pc' = IF x.entry \in Once THEN "complete" ELSE "advance"
  /\ UNCHANGED <<clock, store, tickTime, cancelled, tool, halted>>

EndTick ==
  /\ pc = "pick"
  /\ listed = {}
  /\ pc' = "idle"
  /\ cur' = None
  /\ UNCHANGED <<clock, store, tickTime, listed, cancelled, tool, halted>>

-----------------------------------------------------------------------------
(* fireEntry                                                               *)

Fire(from, to) ==
  /\ pc = from
  /\ pc' = to
  /\ UNCHANGED <<clock, tickTime, listed, cur, cancelled, tool, halted>>

Complete(e) ==
  /\ cur = e
  /\ ~cancelled
  /\ Fire("complete", "clear")
  /\ UpdateCronStatus(e, "completed")
  /\ UNCHANGED <<nextRun, runs>>

Clear(e) ==
  /\ cur = e
  /\ ~cancelled
  /\ Fire("clear", "insert")
  /\ UpdateCronNextRun(e, None)
  /\ UNCHANGED <<status, runs>>

Advance(e) ==
  /\ cur = e
  /\ ~cancelled
  /\ Fire("advance", "insert")
  /\ UpdateCronNextRun(e, NextRun[e][tickTime])
  /\ UNCHANGED <<status, runs>>

\* Mutant: a failed update is logged, and the entry is fired nevertheless.
UpdateFailsFires ==
  /\ Fire("complete", "insert") \/ Fire("clear", "insert") \/ Fire("advance", "insert")
  /\ UNCHANGED store

\* The entry is left as it is, or completed but not cleared.
UpdateFails ==
  /\ Fire("complete", "pick") \/ Fire("clear", "pick") \/ Fire("advance", "pick")
  /\ UNCHANGED store

InsertRun ==
  /\ ~cancelled
  /\ Fire("insert", "publish")
  /\ InsertCronRun(cur)
  /\ UNCHANGED <<status, nextRun>>

\* The entry has moved on; this firing is lost.
InsertFails ==
  /\ Fire("insert", "pick")
  /\ UNCHANGED store

Publish ==
  /\ Fire("publish", "succeed")
  /\ UpdateRun([LastRun(cur) EXCEPT !.sent = TRUE])
  /\ UNCHANGED <<status, nextRun>>

\* Mutant: the error of Publish is logged and the run marked like any other.
PublishFailsMarks ==
  /\ ~cancelled
  /\ Fire("publish", "succeed")
  /\ UNCHANGED store

\* Mutant: Publish does not look at the context.
PublishWaits ==
  /\ FALSE
  /\ Fire("publish", "pick")
  /\ UNCHANGED store

\* The bus outlives the scheduler, so Publish fails only with its context; the
\* update of the run to "failed" then has the same context and fails as well.
PublishFails ==
  /\ cancelled
  /\ Fire("publish", "pick")
  /\ UNCHANGED store

MarkSuccess ==
  /\ ~cancelled
  /\ Fire("succeed", "pick")
  /\ UpdateRun([LastRun(cur) EXCEPT !.status = "success"])
  /\ UNCHANGED <<status, nextRun>>

MarkFails ==
  /\ Fire("succeed", "pick")
  /\ UNCHANGED store

-----------------------------------------------------------------------------
(* Stop, and a stop of the process that nobody asked for.                  *)

Stop ==
  /\ ~cancelled
  /\ cancelled' = TRUE
  /\ UNCHANGED <<clock, store, loop, tool, halted>>

ExitLoop ==
  /\ pc = "idle"
  /\ cancelled
  /\ pc' = "stopped"
  /\ UNCHANGED <<clock, store, tickTime, listed, cur, cancelled, tool, halted>>

Restart ==
  /\ life < MaxLife
  /\ life' = life + 1
  /\ pc' = "idle"
  /\ tickTime' = now
  /\ listed' = {}
  /\ cur' = None
  /\ cancelled' = FALSE
  /\ tool' = ToolIdle
  /\ UNCHANGED <<epoch, now, store, halted>>

-----------------------------------------------------------------------------
(* The tools.                                                              *)

\* A one-shot entry may name any time; a recurring one that never matches has
\* no next run.
Create(e) ==
  /\ \/ /\ e \in Once
        /\ \E t \in epoch..(epoch + Span) : SaveCronEntry(e, t)
     \/ /\ e \in Recurring
        /\ LET next == NextRun[e][now]
           IN SaveCronEntry(e, IF next = Zero THEN None ELSE next)
  /\ UNCHANGED <<clock, loop, cancelled, tool, halted>>

\* The owner is told once the last write is done.
Told(e, goal) == halted' = IF goal = "active" THEN halted \ {e} ELSE halted \cup {e}

\* What the tool read of the entry before (its owner, type and expression)
\* never changes.  Delete goes on to clear the next run, the resumption of a
\* recurring entry to compute it.
SetStatus(e, goal) ==
  /\ tool.pc = "idle"
  /\ status[e] # "none"
  /\ UpdateCronStatus(e, goal)
  /\ \/ /\ goal = "deleted"
        /\ tool' = [pc |-> "write", entry |-> e, goal |-> goal, next |-> None]
        /\ UNCHANGED halted
     \/ /\ goal = "active"
        /\ e \in Recurring
        /\ tool' = [pc |-> "compute", entry |-> e, goal |-> goal, next |-> None]
        /\ halted' = halted \ {e}
     \/ /\ goal = "paused" \/ (goal = "active" /\ e \in Once)
        /\ Told(e, goal)
        /\ UNCHANGED tool
  /\ UNCHANGED <<nextRun, runs, clock, loop, cancelled>>

ToolCompute ==
  /\ tool.pc = "compute"
  /\ tool' = [tool EXCEPT !.pc = "write", !.next = NextRun[tool.entry][now]]
  /\ UNCHANGED <<clock, store, loop, cancelled, halted>>

ToolWrite ==
  /\ tool.pc = "write"
  /\ UpdateCronNextRun(tool.entry, tool.next)
  /\ tool' = ToolIdle
  /\ Told(tool.entry, tool.goal)
  /\ UNCHANGED <<status, runs, clock, loop, cancelled>>

\* The second write fails: the owner is told of the error.
ToolFails ==
  /\ tool.pc = "write"
  /\ tool' = ToolIdle
  /\ UNCHANGED <<clock, store, loop, cancelled, halted>>

-----------------------------------------------------------------------------

Minute ==
  /\ now < epoch + Span
  /\ now' = now + 1
  /\ UNCHANGED <<epoch, life, store, loop, cancelled, tool, halted>>

FireEntry ==
  \/ \E e \in Entry : Complete(e) \/ Clear(e) \/ Advance(e)
  \/ UpdateFails \/ InsertRun \/ InsertFails
  \/ PublishFails \/ MarkSuccess \/ MarkFails

PollLoop == StartTick \/ Pick \/ EndTick \/ FireEntry \/ ExitLoop

Tools ==
  \/ \E e \in Entry : Create(e)
  \/ \E e \in Entry, goal \in {"active", "paused", "deleted"} : SetStatus(e, goal)
  \/ ToolCompute \/ ToolWrite \/ ToolFails

SchedulerNext == PollLoop \/ Publish \/ Stop \/ Restart \/ Tools \/ Minute

SchedulerSpec == SchedulerInit /\ [][SchedulerNext]_vars

\* The poll loop runs.  The queue need not ever have room (Publish), and nobody
\* has to stop the process or use a tool.
SchedulerFairSpec == SchedulerSpec /\ WF_vars(PollLoop)

-----------------------------------------------------------------------------
(* Properties.                                                             *)

RunType == [status : {"running", "success"}, sent : BOOLEAN]

\* Every variable has its type; next_run_at may be null or the zero time.
SchedulerTypeOK ==
  /\ epoch \in StartTimes
  /\ now \in epoch..(epoch + Span)
  /\ life \in Nat
  /\ status \in [Entry -> {"none", "active", "paused", "deleted", "completed"}]
  /\ nextRun \in [Entry -> Int \cup {None}]
  /\ runs \in [Entry -> Seq(RunType)]
  /\ pc \in {"idle", "pick", "complete", "clear", "advance", "insert", "publish",
             "succeed", "stopped"}
  /\ tickTime \in epoch..now
  /\ listed \subseteq [entry : Entry, due : Int]
  /\ cur \in Entry \cup {None}
  /\ cancelled \in BOOLEAN
  /\ tool \in [pc : {"idle", "compute", "write"}, entry : Entry \cup {None},
               goal : {"none", "active", "deleted"}, next : Int \cup {None}]
  /\ halted \subseteq Entry

Sent(e) == {i \in DOMAIN runs[e] : runs[e][i].sent}

\* "Update entry state BEFORE publish" (scheduler.go:125): a one-shot entry
\* reaches the agent at most once, whatever store calls fail, wherever the
\* process stops, and whenever its owner pauses or resumes it.
OneShotOnce == \A e \in Once : \A i, j \in Sent(e) : i = j

\* "Pauses ... or removes a scheduled task" (cron_set_status): a task whose
\* owner was told that it is paused or removed is not revived by a firing that
\* was under way; only the owner makes it active again.
HaltedStaysInactive == \A e \in halted : status[e] # "active"

\* What the owner of a task asked for is what happens: a one-shot task fires
\* once, a halted one stays halted.
FiresAsAsked == OneShotOnce /\ HaltedStaysInactive

\* A run that is recorded as a success was published (scheduler.go:201), whatever
\* store calls fail, wherever the process stops and whenever Stop comes.
RunsTellTruth ==
  \A e \in Entry : \A i \in DOMAIN runs[e] : runs[e][i].status = "success" => runs[e][i].sent

\* "Stop cancels the poll loop and waits for it to exit" (scheduler.go:69): it
\* does not wait for ever, even if the queue has no room.
SchedulerStops == cancelled ~> (pc = "stopped" \/ ~cancelled)

\* "the next time the cron expression fires strictly after t" (cron.go:202):
\* the next run that is stored for a fired entry lies after the tick.
NextIsLater ==
  [][\A e \in Entry :
       pc = "advance" /\ pc' = "insert" /\ cur = e
         => nextRun'[e] = Zero \/ nextRun'[e] > tickTime]_vars

\* In a location without daylight saving, NextAfter is the first instant that
\* the expression names, if there is one within four years.  As this is a fact
\* about constants, it is looked at before the first entry exists.
Least == [e \in DOMAIN Expr |-> [t \in Time |->
  LET later == {i \in Matches(Expr[e]) : i > t /\ DayAt(Wall(i)).year =< DayAt(Wall(t + 1)).year + 4}
  IN IF later = {} THEN Zero ELSE Min(later)]]

NextIsLeast ==
  now = epoch /\ (\A e \in Entry : status[e] = "none") => NextRun = Least
=============================================================================
