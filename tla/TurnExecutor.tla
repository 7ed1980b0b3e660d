---------------------------- MODULE TurnExecutor ----------------------------
(***************************************************************************)
(* What the agent loop promises its callers, without semaphore, mutexes or *)
(* goroutines: every message given to it is either turned away because the *)
(* loop is closing, or runs as one turn; turns of one chat never overlap,  *)
(* at most MaxWorkers turns run at a time, and once the loop reports that  *)
(* it is quiet no turn runs or ever starts.                                *)
(***************************************************************************)
EXTENDS Integers, FiniteSets

CONSTANTS
  Msg,         \* messages given to the loop
  Chat,        \* chats (sessions)
  ChatOf,      \* the chat of each message
  MaxWorkers   \* bound on turns running at once

VARIABLES
  status,      \* what became of each message
  closing,     \* the loop was told to drain
  quiet        \* the loop reported that it is drained

vars == <<status, closing, quiet>>

Status == {"new", "admitted", "running", "returned", "dropped"}

Running == {m \in Msg : status[m] = "running"}

TypeOK ==
  /\ status \in [Msg -> Status]
  /\ closing \in BOOLEAN
  /\ quiet \in BOOLEAN

Init ==
  /\ status = [m \in Msg |-> "new"]
  /\ closing = FALSE
  /\ quiet = FALSE

Become(m, from, to) ==
  /\ status[m] = from
  /\ status' = [status EXCEPT ![m] = to]
  /\ UNCHANGED <<closing, quiet>>

Admit(m) == ~closing /\ Become(m, "new", "admitted")

Drop(m) == closing /\ Become(m, "new", "dropped")

Begin(m) ==
  /\ ~quiet
  /\ \A n \in Running : ChatOf[n] # ChatOf[m]
  /\ Cardinality(Running) < MaxWorkers
  /\ Become(m, "admitted", "running")

Finish(m) == Become(m, "running", "returned")

Close == ~closing /\ closing' = TRUE /\ UNCHANGED <<status, quiet>>

Quiesce ==
  /\ closing
  /\ ~quiet
  /\ Running = {}
  /\ quiet' = TRUE
  /\ UNCHANGED <<status, closing>>

Next ==
  \/ \E m \in Msg : Admit(m) \/ Drop(m) \/ Begin(m) \/ Finish(m)
  \/ Close
  \/ Quiesce

Spec == Init /\ [][Next]_vars
=============================================================================
