---------------------------- MODULE AgentRuntime ----------------------------
(***************************************************************************)
(* The running agent: the transport bus and the agent loop wired together  *)
(* (internal/app/agent/runtime.go) and the order in which they are shut    *)
(* down (Runtime.Shutdown, called from cmd/whiteagent/main.go).            *)
(*                                                                         *)
(*   channel poll loop --inbound--> dispatch goroutine -> middleware ->    *)
(*   Loop.Handle --outbound--> dispatch goroutine -> channel.Send          *)
(*                                                                         *)
(* The dispatch goroutine of the inbound topic is the worker Dispatcher;   *)
(* the other workers are the goroutines the gateway starts for submitted   *)
(* secret forms, which call Handle without going through the bus.  A       *)
(* response on the outbound topic is named by the message it answers.      *)
(***************************************************************************)
EXTENDS AgentLoop, Sequences

CONSTANTS
  Dispatcher,   \* the worker that serves the inbound topic
  Source,       \* the poll loop of the channel plugins
  FormMsg,      \* notifications of submitted secret forms
  Command,      \* messages the command middleware answers itself ("/new")
  QueueSize,
  Nothing

ASSUME RuntimeAssumption ==
  /\ Dispatcher \in Worker
  /\ Source \notin Worker
  /\ FormMsg \subseteq Msg
  /\ Command \subseteq Msg \ FormMsg
  /\ QueueSize \in Nat \ {0}
  /\ Nothing \notin Msg
  /\ Nothing \notin {"inbound", "outbound"} \X Msg

VARIABLES
  queues, closed, stopped, stopResult, sending, panicked, handling, exited,
  accepted, handled,
  phase,       \* how far main and Runtime.Shutdown have got
  deadline,    \* the shutdown context has ended
  commanded,   \* commands whose handler is done
  crashed      \* a panic outside a dispatch goroutine ended the process

Bus == INSTANCE MessageBus WITH
  Topic <- {"inbound", "outbound"},
  Publisher <- Worker \cup {Source}

runtimeVars == <<phase, deadline, commanded, crashed>>
busVars == <<queues, closed, stopped, stopResult, sending, panicked, handling,
             exited, accepted, handled>>
allVars == <<vars, busVars, runtimeVars>>

LoopIdle == UNCHANGED vars
BusIdle == UNCHANGED busVars

RuntimeInit ==
  /\ Init
  /\ Bus!BusInit
  /\ phase = "ready"
  /\ deadline = FALSE
  /\ commanded = {}
  /\ crashed = FALSE

-----------------------------------------------------------------------------
(* Channels.  The poll loop hands over one update at a time.               *)

Receive(m) ==
  /\ phase = "ready"
  /\ m \in Msg \ FormMsg
  /\ Bus!Unpublished("inbound", m)
  /\ Bus!CheckStopped(Source, "inbound", m)
  /\ LoopIdle /\ UNCHANGED runtimeVars

SourceSend == Bus!Send(Source) /\ LoopIdle /\ UNCHANGED runtimeVars

\* Stopping the channel cancels the context of a blocked Publish ...
SourceCancelled ==
  /\ phase # "ready"
  /\ Bus!SendCancelled(Source)
  /\ LoopIdle /\ UNCHANGED runtimeVars

\* ... which, when the deadline did not leave it the time to notice, may find the
\* topic closed first.
SourcePanics ==
  /\ Bus!SendPanics(Source)
  /\ crashed' = TRUE
  /\ LoopIdle /\ UNCHANGED <<phase, deadline, commanded>>

\* Send to the channel plugin: one message at a time, in order.
Deliver ==
  /\ \/ Bus!Take("outbound")
     \/ Bus!HandlerReturns("outbound")
     \/ Bus!ExitLoop("outbound")
  /\ LoopIdle /\ UNCHANGED runtimeVars

-----------------------------------------------------------------------------
(* The inbound dispatch goroutine: middleware chain, then Handle.          *)

TakeInbound ==
  /\ Bus!Take("inbound") \/ Bus!ExitLoop("inbound")
  /\ LoopIdle /\ UNCHANGED runtimeVars

Current == handling["inbound"]

HandleInbound ==
  /\ Current \in Msg \ Command
  /\ Enter(Dispatcher, Current) \/ Drop(Dispatcher, Current)
  /\ BusIdle /\ UNCHANGED runtimeVars

\* publishReply of the command middleware: no slot, no mutex.
Command_CheckStopped ==
  /\ Current \in Command \ commanded
  /\ Bus!CheckStopped(Dispatcher, "outbound", Current)
  /\ LoopIdle /\ UNCHANGED runtimeVars

CommandDone ==
  /\ Current \in Command
  /\ commanded' = commanded \cup {Current}
  /\ LoopIdle /\ UNCHANGED <<phase, deadline, crashed>>

\* The panic of a send on a closed channel is recovered by dispatchLoop.
Command_Publish ==
  /\ Current \in Command \ commanded
  /\ \/ Bus!Send(Dispatcher)
     \/ Bus!SendPanics(Dispatcher)
     \/ stopped /\ sending[Dispatcher] = Nothing /\ BusIdle
  /\ CommandDone

\* Mutant: the dispatch goroutine does not wait for the handler.
HandlerReturnsAtOnce ==
  /\ Current # Nothing
  /\ Bus!HandlerReturns("inbound")
  /\ LoopIdle /\ UNCHANGED runtimeVars

HandlerReturns ==
  /\ Current # Nothing
  /\ Current \in commanded \/ (pc[Dispatcher] = "idle" /\ status[Current] # "new")
  /\ Bus!HandlerReturns("inbound")
  /\ LoopIdle /\ UNCHANGED runtimeVars

-----------------------------------------------------------------------------
(* Turns.  The response goes through Publish like any other message.       *)

SubmitForm(w, m) ==
  /\ w # Dispatcher
  /\ m \in FormMsg
  /\ Enter(w, m) \/ Drop(w, m)
  /\ BusIdle /\ UNCHANGED runtimeVars

TurnRuns(w) ==
  /\ AcquireSlot(w) \/ LockSession(w) \/ Work(w)
  /\ BusIdle /\ UNCHANGED runtimeVars

Reply_CheckStopped(w) ==
  /\ pc[w] = "reply"
  /\ Bus!CheckStopped(w, "outbound", cur[w])
  /\ LoopIdle /\ UNCHANGED runtimeVars

Reply_Send(w) ==
  /\ Bus!Send(w)
  /\ ReplySent(w)
  /\ UNCHANGED runtimeVars

Reply_Refused(w) ==
  /\ stopped
  /\ sending[w] = Nothing
  /\ ReplyRefused(w)
  /\ BusIdle /\ UNCHANGED runtimeVars

\* The deferred calls of the turn run; then dispatchLoop recovers, or, in the
\* goroutine of a secret form, the process dies.
Reply_Panics(w) ==
  /\ Bus!SendPanics(w)
  /\ ReplyRefused(w)
  /\ crashed' = (w # Dispatcher)
  /\ UNCHANGED <<phase, deadline, commanded>>

-----------------------------------------------------------------------------
(* Shutdown: channels, scheduler, loop, then the plugins in reverse order  *)
(* of their start.                                                         *)

SignalReceived ==
  /\ phase = "ready"
  /\ phase' = "stopChannels"
  /\ LoopIdle /\ BusIdle /\ UNCHANGED <<deadline, commanded, crashed>>

DeadlinePasses ==
  /\ phase # "ready"
  /\ ~deadline
  /\ deadline' = TRUE
  /\ LoopIdle /\ BusIdle /\ UNCHANGED <<phase, commanded, crashed>>

\* The poll loop has ended, or the deadline passed while waiting for it.
ChannelsStopped ==
  /\ phase = "stopChannels"
  /\ sending[Source] = Nothing \/ deadline
  /\ phase' = "drainLoop"
  /\ BeginShutdown
  /\ BusIdle /\ UNCHANGED <<deadline, commanded, crashed>>

DrainLoop ==
  /\ FillSlot \/ Drained \/ (deadline /\ ShutdownExpires)
  /\ BusIdle /\ UNCHANGED runtimeVars

StopBus ==
  /\ phase = "drainLoop"
  /\ shutdown \in {"drained", "expired"}
  /\ phase' = "stopBus"
  /\ Bus!BeginStop
  /\ LoopIdle /\ UNCHANGED <<deadline, commanded, crashed>>

BusStops ==
  /\ \/ \E t \in {"inbound", "outbound"} : Bus!CloseTopic(t)
     \/ Bus!StopDone
     \/ deadline /\ Bus!StopExpires
  /\ LoopIdle /\ UNCHANGED runtimeVars

\* The store is stopped last; main exits.
Exit ==
  /\ phase = "stopBus"
  /\ stopResult \in {"done", "expired"}
  /\ phase' = "stopped"
  /\ LoopIdle /\ BusIdle /\ UNCHANGED <<deadline, commanded, crashed>>

-----------------------------------------------------------------------------

Inbound == TakeInbound \/ HandleInbound \/ Command_CheckStopped \/ Command_Publish \/ HandlerReturns

Turn(w) == TurnRuns(w) \/ Reply_CheckStopped(w) \/ Reply_Send(w) \/ Reply_Refused(w) \/ Reply_Panics(w)

ShutdownStep == ChannelsStopped \/ DrainLoop \/ StopBus \/ BusStops \/ Exit

RuntimeNext ==
  /\ phase # "stopped"
  /\ ~crashed
  /\ \/ \E m \in Msg : Receive(m)
     \/ SourceSend \/ SourceCancelled \/ SourcePanics
     \/ Deliver
     \/ Inbound
     \/ \E w \in Worker, m \in Msg : SubmitForm(w, m)
     \/ \E w \in Worker : Turn(w)
     \/ SignalReceived \/ DeadlinePasses
     \/ ShutdownStep

RuntimeSpec == RuntimeInit /\ [][RuntimeNext]_allVars

Alive == phase # "stopped" /\ ~crashed

\* The goroutines of the process run.  Nobody has to send a message, submit a
\* form or a signal, and nothing relies on the shutdown context to end.
RuntimeFairSpec ==
  /\ RuntimeSpec
  /\ WF_allVars(Alive /\ SourceSend)
  /\ WF_allVars(Alive /\ Deliver)
  /\ WF_allVars(Alive /\ Inbound)
  /\ \A w \in Worker :
       /\ SF_allVars(Alive /\ AcquireSlot(w) /\ TurnRuns(w))
       /\ SF_allVars(Alive /\ LockSession(w) /\ TurnRuns(w))
       /\ WF_allVars(Alive /\ Turn(w))
  /\ WF_allVars(Alive /\ ShutdownStep)

-----------------------------------------------------------------------------
(* Properties.                                                             *)

Position(m, s) == CHOOSE i \in DOMAIN s : s[i] = m
Elements(s) == {s[i] : i \in DOMAIN s}

\* Each variable keeps its type.
RuntimeTypeOK ==
  /\ TypeOK
  /\ Bus!BusTypeOK
  /\ phase \in {"ready", "stopChannels", "drainLoop", "stopBus", "stopped"}
  /\ deadline \in BOOLEAN
  /\ commanded \in SUBSET Command
  /\ crashed \in BOOLEAN

\* A user who sends two messages in a row gets the answers in that order: no
\* answer to a message that came through a channel overtakes the answer to one
\* accepted before it, however the loop, a command and the forms interleave.
AnswersInOrder ==
  LET in == accepted["inbound"]
      out == accepted["outbound"]
  IN \A m, n \in Elements(in) \cap Elements(out) :
       Position(m, in) < Position(n, in) => Position(m, out) < Position(n, out)

\* The channel plugin is given no answer to a message that did not come in,
\* and none twice.
NoSpuriousAnswer ==
  LET out == handled["outbound"]
  IN /\ Elements(out) \subseteq Elements(accepted["inbound"]) \cup FormMsg
     /\ \A i, j \in DOMAIN out : out[i] = out[j] => i = j

\* A shutdown that keeps its deadline loses nothing a turn produced: when main
\* exits, no worker is inside a turn and every response was handed to the
\* channel plugin.  Until the deadline has passed the process is not taken down
\* by a send on a closed channel either.
CrashOnlyPastDeadline == crashed => deadline

CleanExit ==
  /\ CrashOnlyPastDeadline
  /\ phase = "stopped" /\ shutdown = "drained" /\ stopResult = "done" =>
       /\ Holders = {}
       /\ \A m \in Msg : replies[m] = 1 => m \in Elements(handled["outbound"])
       /\ refused = {}

\* No message reaches the loop, or is taken from a channel, once Shutdown
\* asked the channels to stop and was told they have.
IngressClosed ==
  [][(phase \in {"drainLoop", "stopBus"} /\ ~deadline)
       => accepted'["inbound"] = accepted["inbound"]]_allVars

\* While no signal comes, everything a channel handed over is answered and the
\* answer is given to the channel plugin.
EveryMessageAnswered ==
  \A m \in Msg \ FormMsg :
    (m \in Elements(accepted["inbound"]))
      ~> (m \in Elements(handled["outbound"]) \/ phase # "ready")

\* A turn that got a slot ends and gives it back: neither the mutex of its
\* chat, its iterations nor a full outbound queue hold it for ever, and a bus
\* that was stopped under it refuses its answer instead of blocking it.
TurnEnds ==
  \A w \in Worker : (pc[w] \in SlotPC) ~> (pc[w] = "idle" \/ ~Alive)

\* "waiting for all in-flight workers to finish" (loop.go:127): draining the
\* loop comes to an end even if the shutdown context never does.
DrainReturns == (shutdown = "filling") ~> (shutdown # "filling")

\* Draining the loop ends by itself, and past the deadline nothing holds the
\* shutdown up, whatever the turns, the callers of Handle and the blocked
\* publishers are doing.
ShutdownEnds == DrainReturns /\ (deadline ~> ~Alive)
=============================================================================
