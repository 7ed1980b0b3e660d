----------------------------- MODULE AgentLoop -----------------------------
(***************************************************************************)
(* The agent loop, internal/domain/service/loop/loop.go: Handle with its   *)
(* draining check, counting semaphore and per-chat mutex, the turn that    *)
(* runs under them, and Shutdown, which drains the loop by filling the     *)
(* semaphore.                                                              *)
(*                                                                         *)
(* A worker is a goroutine that may call Handle: the dispatch goroutine of *)
(* the inbound topic, which calls it again and again, and the goroutine    *)
(* the gateway starts for each secret form (cmd/whiteagent/main.go).       *)
(* Handle's context is context.Background() in both, so the branch that    *)
(* gives up waiting for a slot when the context ends is never taken.       *)
(***************************************************************************)
EXTENDS Integers, FiniteSets

CONSTANTS
  Worker,         \* goroutines that call Handle
  Msg,            \* inbound messages
  Chat,           \* chats
  ChatOf,         \* message -> its ChatID
  MaxWorkers,     \* cfg.MaxWorkers, the capacity of the semaphore
  MaxIterations,  \* cfg.MaxIterations
  NoMsg,          \* a worker that handles nothing
  NoWorker        \* an unlocked mutex; the runtime's own sandbox in a tool

ASSUME LoopAssumption ==
  /\ IsFiniteSet(Worker)
  /\ ChatOf \in [Msg -> Chat]
  /\ MaxWorkers \in Nat \ {0}
  /\ MaxIterations \in Nat \ {0}
  /\ NoMsg \notin Msg
  /\ NoWorker \notin Worker

VARIABLES
  draining,     \* l.draining
  shutdown,     \* where Shutdown is
  filled,       \* semaphore slots Shutdown has taken; it never gives them back
  semaphore,    \* len(l.semaphore)
  sessions,     \* l.sessions: which worker holds the mutex of each chat
  pc,           \* where each worker is
  cur,          \* the message each worker handles
  iter,         \* i of runTurn's loop
  proxied,      \* the turn injected its sandbox proxy (proxy # nil)
  toolSandbox,  \* whose sandbox the shared tool instances hold
  status,       \* what became of each message
  replies,      \* responses the turn of a message put on the outbound topic
  refused       \* messages whose response the transport refused

handleVars == <<semaphore, sessions>>
turnVars == <<iter, proxied, toolSandbox>>
replyVars == <<replies, refused>>
shutdownVars == <<draining, shutdown, filled>>

vars == <<draining, shutdown, filled, semaphore, sessions, pc, cur, iter,
          proxied, toolSandbox, status, replies, refused>>

\* A worker that is past the draining check waits for a slot ("admit"), then
\* for the mutex of its chat ("lock"); it then runs the turn and unwinds.
TurnPC == {"load", "prepare", "llm", "tools", "reply", "restore", "unlock"}
SlotPC == TurnPC \cup {"lock", "release"}
PC == SlotPC \cup {"idle", "admit"}

Holders == {w \in Worker : pc[w] \in SlotPC}

Goto(w, from, to) ==
  /\ pc[w] = from
  /\ pc' = [pc EXCEPT ![w] = to]

-----------------------------------------------------------------------------
(* Handle.                                                                 *)

Init ==
  /\ draining = FALSE
  /\ shutdown = "serving"
  /\ filled = 0
  /\ semaphore = 0
  /\ sessions = [c \in Chat |-> NoWorker]
  /\ pc = [w \in Worker |-> "idle"]
  /\ cur = [w \in Worker |-> NoMsg]
  /\ iter = [w \in Worker |-> 0]
  /\ proxied = [w \in Worker |-> FALSE]
  /\ toolSandbox = NoWorker
  /\ status = [m \in Msg |-> "new"]
  /\ replies = [m \in Msg |-> 0]
  /\ refused = {}

\* The draining check finds the loop open.
Enter(w, m) ==
  /\ Goto(w, "idle", "admit")
  /\ ~draining
  /\ status[m] = "new"
  /\ cur' = [cur EXCEPT ![w] = m]
  /\ status' = [status EXCEPT ![m] = "admitted"]
  /\ UNCHANGED <<shutdownVars, handleVars, turnVars, replyVars>>

\* The draining check finds the loop closing: Handle returns nil at once.
Drop(w, m) ==
  /\ pc[w] = "idle"
  /\ draining
  /\ status[m] = "new"
  /\ status' = [status EXCEPT ![m] = "dropped"]
  /\ UNCHANGED <<shutdownVars, handleVars, pc, cur, turnVars, replyVars>>

AcquireSlot(w) ==
  /\ Goto(w, "admit", "lock")
  /\ semaphore < MaxWorkers
  /\ semaphore' = semaphore + 1
  /\ UNCHANGED <<shutdownVars, sessions, cur, turnVars, status, replyVars>>

\* Mutant: getOrCreateMutex stores a fresh mutex over the one in use.
LockSessionFresh(w) ==
  /\ Goto(w, "lock", "load")
  /\ sessions' = [sessions EXCEPT ![ChatOf[cur[w]]] = w]
  /\ status' = [status EXCEPT ![cur[w]] = "running"]
  /\ UNCHANGED <<shutdownVars, semaphore, cur, turnVars, replyVars>>

LockSession(w) ==
  /\ Goto(w, "lock", "load")
  /\ sessions[ChatOf[cur[w]]] = NoWorker
  /\ sessions' = [sessions EXCEPT ![ChatOf[cur[w]]] = w]
  /\ status' = [status EXCEPT ![cur[w]] = "running"]
  /\ UNCHANGED <<shutdownVars, semaphore, cur, turnVars, replyVars>>

\* Mutant: a path of Handle returns without unlocking the mutex.
UnlockSessionMissing(w) ==
  /\ Goto(w, "unlock", "release")
  /\ status' = [status EXCEPT ![cur[w]] = "returned"]
  /\ UNCHANGED <<shutdownVars, semaphore, sessions, cur, turnVars, replyVars>>

UnlockSession(w) ==
  /\ Goto(w, "unlock", "release")
  /\ sessions' = [sessions EXCEPT ![ChatOf[cur[w]]] = NoWorker]
  /\ status' = [status EXCEPT ![cur[w]] = "returned"]
  /\ UNCHANGED <<shutdownVars, semaphore, cur, turnVars, replyVars>>

\* Mutant: the slot is not given back.
ReleaseSlotLeaks(w) ==
  /\ Goto(w, "release", "idle")
  /\ cur' = [cur EXCEPT ![w] = NoMsg]
  /\ UNCHANGED <<shutdownVars, handleVars, turnVars, status, replyVars>>

ReleaseSlot(w) ==
  /\ Goto(w, "release", "idle")
  /\ semaphore' = semaphore - 1
  /\ cur' = [cur EXCEPT ![w] = NoMsg]
  /\ UNCHANGED <<shutdownVars, sessions, turnVars, status, replyVars>>

-----------------------------------------------------------------------------
(* runTurn.  Which of its error paths is taken depends on the store and on *)
(* the providers; each of them ends in publishResponse ("reply").          *)

TurnStep(w, from, to) ==
  /\ Goto(w, from, to)
  /\ UNCHANGED <<shutdownVars, handleVars, cur, status, replyVars>>

\* Tenant, agent and conversation are loaded and the user message is saved;
\* the error paths among them answer at once.
LoadContext(w) ==
  /\ TurnStep(w, "load", "prepare") \/ TurnStep(w, "load", "reply")
  /\ UNCHANGED turnVars

\* The proxy is built and injected into the tools all turns share, or a
\* failure leaves the tools as they are; the iterations start.
Prepare(w) ==
  /\ TurnStep(w, "prepare", "llm")
  /\ iter' = [iter EXCEPT ![w] = 0]
  /\ \/ /\ proxied' = [proxied EXCEPT ![w] = TRUE]
        /\ toolSandbox' = w
     \/ UNCHANGED <<proxied, toolSandbox>>

\* Build, Complete, the timeout check and the saving of the assistant message:
\* an error, the turn's timeout or a final answer ends the turn, tool calls
\* continue it.
CallLLM(w) ==
  /\ iter[w] < MaxIterations
  /\ TurnStep(w, "llm", "tools") \/ TurnStep(w, "llm", "reply")
  /\ UNCHANGED turnVars

\* All tool goroutines are joined, then the results are saved.
RunTools(w) ==
  /\ \/ /\ TurnStep(w, "tools", "llm")
        /\ iter' = [iter EXCEPT ![w] = @ + 1]
     \/ /\ TurnStep(w, "tools", "reply")
        /\ UNCHANGED iter
  /\ UNCHANGED <<proxied, toolSandbox>>

IterationLimit(w) ==
  /\ iter[w] >= MaxIterations
  /\ TurnStep(w, "llm", "reply")
  /\ UNCHANGED turnVars

\* Mutant: the return after a published error response is forgotten.
ReplySentContinues(w) ==
  /\ Goto(w, "reply", "llm")
  /\ replies' = [replies EXCEPT ![cur[w]] = @ + 1]
  /\ UNCHANGED <<shutdownVars, handleVars, cur, turnVars, status, refused>>

\* transport.Publish took the response.
ReplySent(w) ==
  /\ Goto(w, "reply", "restore")
  /\ replies' = [replies EXCEPT ![cur[w]] = @ + 1]
  /\ UNCHANGED <<shutdownVars, handleVars, cur, turnVars, status, refused>>

\* transport.Publish returned an error, which Handle returns.
ReplyRefused(w) ==
  /\ Goto(w, "reply", "restore")
  /\ refused' = refused \cup {cur[w]}
  /\ UNCHANGED <<shutdownVars, handleVars, cur, turnVars, status, replies>>

\* runTurn's deferred restore gives the tools the runtime's sandbox back.
Restore(w) ==
  /\ TurnStep(w, "restore", "unlock")
  /\ proxied' = [proxied EXCEPT ![w] = FALSE]
  /\ toolSandbox' = IF proxied[w] THEN NoWorker ELSE toolSandbox
  /\ UNCHANGED iter

-----------------------------------------------------------------------------
(* Shutdown.                                                               *)

BeginShutdown ==
  /\ shutdown = "serving"
  /\ draining' = TRUE
  /\ shutdown' = "filling"
  /\ UNCHANGED <<filled, handleVars, pc, cur, turnVars, status, replyVars>>

FillSlot ==
  /\ shutdown = "filling"
  /\ filled < MaxWorkers
  /\ semaphore < MaxWorkers
  /\ semaphore' = semaphore + 1
  /\ filled' = filled + 1
  /\ UNCHANGED <<draining, shutdown, sessions, pc, cur, turnVars, status, replyVars>>

\* Mutant: the loop that fills the semaphore stops one slot early.
DrainedEarly ==
  /\ shutdown = "filling"
  /\ filled = MaxWorkers - 1
  /\ shutdown' = "drained"
  /\ UNCHANGED <<draining, filled, handleVars, pc, cur, turnVars, status, replyVars>>

Drained ==
  /\ shutdown = "filling"
  /\ filled = MaxWorkers
  /\ shutdown' = "drained"
  /\ UNCHANGED <<draining, filled, handleVars, pc, cur, turnVars, status, replyVars>>

\* The shutdown context ends before all slots are reclaimed.
ShutdownExpires ==
  /\ shutdown = "filling"
  /\ filled < MaxWorkers
  /\ shutdown' = "expired"
  /\ UNCHANGED <<draining, filled, handleVars, pc, cur, turnVars, status, replyVars>>

-----------------------------------------------------------------------------

\* What a worker does by itself once Handle holds a slot.
Work(w) ==
  \/ LoadContext(w) \/ Prepare(w) \/ CallLLM(w) \/ RunTools(w)
  \/ IterationLimit(w) \/ Restore(w) \/ UnlockSession(w) \/ ReleaseSlot(w)

Reply(w) == ReplySent(w) \/ ReplyRefused(w)

Next ==
  \/ \E w \in Worker, m \in Msg : Enter(w, m) \/ Drop(w, m)
  \/ \E w \in Worker :
       AcquireSlot(w) \/ LockSession(w) \/ Work(w) \/ Reply(w)
  \/ BeginShutdown \/ FillSlot \/ Drained \/ ShutdownExpires

Spec == Init /\ [][Next]_vars

\* Goroutines run; LLM and tool calls are bounded by the turn's deadline.
\* Blocked senders of a Go channel are served first come first served and a
\* sync.Mutex is handed to a starving waiter, so waiting for a slot or for a
\* mutex is strongly fair.  Nothing obliges the shutdown context to end.
Fairness ==
  /\ \A w \in Worker :
       /\ SF_vars(AcquireSlot(w))
       /\ SF_vars(LockSession(w))
       /\ WF_vars(Work(w) \/ Reply(w))
  /\ SF_vars(FillSlot)
  /\ WF_vars(Drained)

FairSpec == Spec /\ Fairness

-----------------------------------------------------------------------------
(* Properties.                                                             *)

\* Every variable has the type of its Go counterpart; the semaphore and the
\* iterations stay within their limits.
TypeOK ==
  /\ draining \in BOOLEAN
  /\ shutdown \in {"serving", "filling", "drained", "expired"}
  /\ filled \in 0..MaxWorkers
  /\ semaphore \in 0..MaxWorkers
  /\ sessions \in [Chat -> Worker \cup {NoWorker}]
  /\ pc \in [Worker -> PC]
  /\ cur \in [Worker -> Msg \cup {NoMsg}]
  /\ iter \in [Worker -> 0..MaxIterations]
  /\ proxied \in [Worker -> BOOLEAN]
  /\ toolSandbox \in Worker \cup {NoWorker}
  /\ status \in [Msg -> {"new", "admitted", "running", "returned", "dropped"}]
  /\ replies \in [Msg -> Nat]
  /\ refused \in SUBSET Msg

\* "Per-session mutex serializes messages for the same session" (loop.go:48):
\* two turns of one chat never run at the same time.
SessionMutex ==
  \A v, w \in Worker :
    /\ pc[v] \in TurnPC
    /\ pc[w] \in TurnPC
    /\ ChatOf[cur[v]] = ChatOf[cur[w]]
    => v = w

\* The semaphore accounts for every Handle call that is past it and for every
\* slot Shutdown took, so never more than MaxWorkers calls are past it.
SlotAccounting == semaphore = Cardinality(Holders) + filled

\* Once Shutdown returned nil no turn is running, and (no slot being ever
\* given back) none starts: later shutdown steps may close what turns use.
DrainedIsQuiet == shutdown = "drained" => Holders = {}

\* A Handle call that got through answers its message exactly once on the
\* outbound topic, whatever path runTurn takes, unless the transport refuses
\* the response; a dropped message is never answered.
AnsweredOnce ==
  \A m \in Msg :
    /\ replies[m] + (IF m \in refused THEN 1 ELSE 0) =<
         (IF status[m] \in {"running", "returned"} THEN 1 ELSE 0)
    /\ status[m] = "returned" => replies[m] = 1 \/ m \in refused

\* "Inject proxy into sandbox-aware tools for this turn" (loop.go:262): while
\* the tools of a turn that injected its proxy run, they hold that proxy.
ToolsUseOwnProxy ==
  \A w \in Worker : pc[w] = "tools" /\ proxied[w] => toolSandbox = w

-----------------------------------------------------------------------------
(* The inductive invariant behind the safety properties.                   *)

\* Responses of a message, those the transport refused included.
Answers(m) == replies[m] + (IF m \in refused THEN 1 ELSE 0)

\* Where a worker stands tells how far its message is, that its turn holds the
\* mutex of the chat, and whether the response is out.
WorkerInv ==
  \A w \in Worker :
    /\ pc[w] = "idle" <=> cur[w] = NoMsg
    /\ pc[w] \in {"admit", "lock"} => status[cur[w]] = "admitted"
    /\ pc[w] \in TurnPC => /\ status[cur[w]] = "running"
                           /\ sessions[ChatOf[cur[w]]] = w
    /\ pc[w] = "release" => status[cur[w]] = "returned"
    /\ pc[w] = "tools" => iter[w] < MaxIterations
    /\ pc[w] \in TurnPC \ {"restore", "unlock"} => Answers(cur[w]) = 0
    /\ pc[w] \in {"restore", "unlock"} => Answers(cur[w]) = 1

\* Each message is handled by one worker.
OwnMessage ==
  \A v, w \in Worker : pc[v] # "idle" /\ cur[v] = cur[w] => v = w

MessageInv ==
  \A m \in Msg :
    /\ status[m] \in {"new", "admitted", "dropped"} => Answers(m) = 0
    /\ status[m] = "running" => \E w \in Worker : pc[w] \in TurnPC /\ cur[w] = m
    /\ status[m] = "returned" => Answers(m) = 1

\* The loop drains from the first step of Shutdown on; when Shutdown has
\* returned nil it holds every slot.
ShutdownInv ==
  /\ draining <=> shutdown # "serving"
  /\ shutdown = "drained" => filled = MaxWorkers

\* The inductive invariant of Handle and Shutdown: besides the slots it keeps
\* track of who holds each mutex and of how often each message was answered.
LoopInv ==
  /\ TypeOK
  /\ WorkerInv
  /\ OwnMessage
  /\ MessageInv
  /\ SlotAccounting
  /\ ShutdownInv

-----------------------------------------------------------------------------
(* Refinement and liveness.                                                *)

\* Handle and Shutdown implement the promise of TurnExecutor.
Executor == INSTANCE TurnExecutor WITH
  closing <- draining,
  quiet <- shutdown = "drained"

ImplementsExecutor == Executor!Spec

\* "New messages are silently dropped once draining is set" (loop.go:129):
\* a Handle call returns, whether it runs its turn or drops the message.
HandleReturns == \A w \in Worker : (pc[w] = "admit") ~> (pc[w] = "idle")
=============================================================================
