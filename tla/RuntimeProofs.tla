---------------------------- MODULE RuntimeProofs ----------------------------
(***************************************************************************)
(* Proofs about AgentLoop and about AgentRuntime, which wires the loop to  *)
(* the transport, for any number of workers, messages and chats and any    *)
(* capacity of the semaphore and of the queues.  First the loop: the       *)
(* inductive invariant LoopInv, what follows from it, and that the loop    *)
(* implements TurnExecutor.  Then the runtime: that it implements both of  *)
(* its parts, so that what is proved of each holds in the composition, and *)
(* AgentInv, which relates the two and the order in which they go down.    *)
(***************************************************************************)
EXTENDS AgentRuntime, FiniteSetTheorems, TLAPS

-----------------------------------------------------------------------------
(* The loop by itself: the disjuncts of its Next, grouped by what they can *)
(* disturb.                                                                *)

\* The set of workers that hold a slot is finite.
LEMMA HoldersFinite ==
  /\ IsFiniteSet(Holders)
  /\ Cardinality(Holders) \in Nat
<1>1. Holders \subseteq Worker
  BY DEF Holders
<1>2. IsFiniteSet(Worker)
  BY LoopAssumption
<1> QED
  BY <1>1, <1>2, FS_Subset, FS_CardinalityType

\* A worker that takes a slot joins the holders, one that gives it back leaves
\* them, and no other step changes who holds a slot.
LEMMA HoldersAdd ==
  ASSUME TypeOK, NEW w \in Worker, AcquireSlot(w)
  PROVE  Cardinality(Holders') = Cardinality(Holders) + 1
<1>1. Holders' = Holders \cup {w} /\ w \notin Holders
  BY DEF Holders, AcquireSlot, Goto, TypeOK, PC, SlotPC, TurnPC
<1> QED
  BY <1>1, HoldersFinite, FS_AddElement

\* ReleaseSlot takes exactly one worker out of the holders.
LEMMA HoldersRemove ==
  ASSUME TypeOK, NEW w \in Worker, ReleaseSlot(w)
  PROVE  Cardinality(Holders') = Cardinality(Holders) - 1 /\ Cardinality(Holders) > 0
<1>1. Holders' = Holders \ {w} /\ w \in Holders
  BY DEF Holders, ReleaseSlot, Goto, TypeOK, PC, SlotPC, TurnPC
<1>2. Cardinality(Holders') = Cardinality(Holders) - 1
  BY <1>1, HoldersFinite, FS_RemoveElement
<1>3. Cardinality(Holders) # 0
  BY <1>1, HoldersFinite, FS_EmptySet
<1> QED
  BY <1>2, <1>3, HoldersFinite

\* What a worker does between taking a slot and giving it back.
Inside(w) ==
  \/ LockSession(w) \/ LoadContext(w) \/ Prepare(w) \/ CallLLM(w) \/ RunTools(w)
  \/ IterationLimit(w) \/ Reply(w) \/ Restore(w) \/ UnlockSession(w)

\* A step of a worker that stays past the semaphore keeps the holders.
LEMMA HoldersInside ==
  ASSUME TypeOK, NEW w \in Worker, Inside(w)
  PROVE  Holders' = Holders /\ semaphore' = semaphore /\ filled' = filled
<1> USE DEF Holders, Goto, TurnStep, TypeOK, PC, SlotPC, TurnPC,
            shutdownVars, handleVars, turnVars, replyVars
<1>1. CASE LockSession(w) BY <1>1 DEF LockSession
<1>2. CASE LoadContext(w) BY <1>2 DEF LoadContext
<1>3. CASE Prepare(w) BY <1>3 DEF Prepare
<1>4. CASE CallLLM(w) BY <1>4 DEF CallLLM
<1>5. CASE RunTools(w) BY <1>5 DEF RunTools
<1>6. CASE IterationLimit(w) BY <1>6 DEF IterationLimit
<1>7. CASE Reply(w) BY <1>7 DEF Reply, ReplySent, ReplyRefused
<1>8. CASE Restore(w) BY <1>8 DEF Restore
<1>9. CASE UnlockSession(w) BY <1>9 DEF UnlockSession
<1> QED
  BY <1>1, <1>2, <1>3, <1>4, <1>5, <1>6, <1>7, <1>8, <1>9 DEF Inside

-----------------------------------------------------------------------------
(* Initial states.                                                         *)

\* Before any call of Handle the invariant holds.
LEMMA InitLoopInv == Init => LoopInv
<1> SUFFICES ASSUME Init PROVE LoopInv
  OBVIOUS
<1> USE LoopAssumption DEF Init
<1>1. TypeOK
  <2>1. proxied \in [Worker -> BOOLEAN]
    BY Zenon
  <2>2. iter \in [Worker -> 0..MaxIterations] /\ replies \in [Msg -> Nat]
    BY SMT
  <2>3. filled \in 0..MaxWorkers /\ semaphore \in 0..MaxWorkers
    BY SMT
  <2>4. pc \in [Worker -> PC]
    BY DEF PC
  <2> QED
    BY <2>1, <2>2, <2>3, <2>4, Zenon DEF TypeOK
<1>2. WorkerInv /\ OwnMessage /\ MessageInv
  BY DEF WorkerInv, OwnMessage, MessageInv, Answers, TurnPC
<1>3. SlotAccounting
  <2>1. Holders = {}
    BY DEF Holders, SlotPC, TurnPC
  <2> QED
    BY <2>1, FS_EmptySet DEF SlotAccounting
<1>4. ShutdownInv
  BY DEF ShutdownInv
<1> QED
  BY <1>1, <1>2, <1>3, <1>4 DEF LoopInv

-----------------------------------------------------------------------------
(* Types and slots.                                                        *)

\* Every step keeps the types.  The bound on the iterations needs WorkerInv,
\* that the semaphore is not released below zero needs SlotAccounting.
LEMMA TypeStep ==
  ASSUME LoopInv, Next
  PROVE  TypeOK'
<1> USE LoopAssumption DEF LoopInv, TypeOK, Goto, TurnStep, PC, SlotPC, TurnPC,
            shutdownVars, handleVars, turnVars, replyVars
<1>1. ASSUME NEW w \in Worker, NEW m \in Msg, Enter(w, m) \/ Drop(w, m) PROVE TypeOK'
  BY <1>1 DEF Enter, Drop
<1>2. ASSUME NEW w \in Worker, AcquireSlot(w) PROVE TypeOK'
  BY <1>2 DEF AcquireSlot
<1>3. ASSUME NEW w \in Worker, Inside(w) PROVE TypeOK'
  <2>0. pc[w] # "idle" => cur[w] \in Msg
    BY DEF WorkerInv
  <2>1. CASE LockSession(w) BY <2>0, <2>1 DEF LockSession
  <2>2. CASE LoadContext(w) BY <2>2 DEF LoadContext
  <2>3. CASE Prepare(w)
    <3>1. proxied' \in [Worker -> BOOLEAN]
      BY <2>3, Zenon DEF Prepare
    <3>2. toolSandbox' \in Worker \cup {NoWorker}
      BY <2>3 DEF Prepare
    <3>3. /\ pc' \in [Worker -> PC]
          /\ iter' \in [Worker -> 0..MaxIterations]
      BY <2>3 DEF Prepare
    <3>4. UNCHANGED <<shutdownVars, handleVars, cur, status, replyVars>>
      BY <2>3 DEF Prepare
    <3> QED
      BY <3>1, <3>2, <3>3, <3>4
  <2>4. CASE CallLLM(w) BY <2>4 DEF CallLLM
  <2>5. CASE RunTools(w) BY <2>5 DEF RunTools, WorkerInv
  <2>6. CASE IterationLimit(w) BY <2>6 DEF IterationLimit
  <2>7. CASE Reply(w) BY <2>0, <2>7 DEF Reply, ReplySent, ReplyRefused
  <2>8. CASE Restore(w)
    <3>1. proxied' \in [Worker -> BOOLEAN]
      BY <2>8, Zenon DEF Restore
    <3> QED
      BY <2>8, <3>1 DEF Restore
  <2>9. CASE UnlockSession(w) BY <2>0, <2>9 DEF UnlockSession
  <2> QED
    BY <1>3, <2>1, <2>2, <2>3, <2>4, <2>5, <2>6, <2>7, <2>8, <2>9 DEF Inside
<1>4. ASSUME NEW w \in Worker, ReleaseSlot(w) PROVE TypeOK'
  <2>1. semaphore >= 1
    BY <1>4, HoldersRemove, HoldersFinite DEF SlotAccounting
  <2> QED
    BY <1>4, <2>1 DEF ReleaseSlot
<1>5. CASE BeginShutdown BY <1>5 DEF BeginShutdown
<1>6. CASE FillSlot BY <1>6 DEF FillSlot
<1>7. CASE Drained \/ ShutdownExpires BY <1>7 DEF Drained, ShutdownExpires
<1> QED
  BY <1>1, <1>2, <1>3, <1>4, <1>5, <1>6, <1>7 DEF Next, Work, Inside

\* Every step keeps the count of the slots.
LEMMA SlotStep ==
  ASSUME LoopInv, Next
  PROVE  SlotAccounting'
<1> USE DEF LoopInv, SlotAccounting
<1>1. ASSUME NEW w \in Worker, NEW m \in Msg, Enter(w, m) \/ Drop(w, m)
      PROVE  SlotAccounting'
  <2>1. Holders' = Holders
    BY <1>1 DEF Enter, Drop, Goto, Holders, TypeOK, PC, SlotPC, TurnPC
  <2>2. semaphore' = semaphore /\ filled' = filled
    BY <1>1 DEF Enter, Drop, shutdownVars, handleVars
  <2> QED
    BY <2>1, <2>2
<1>2. ASSUME NEW w \in Worker, AcquireSlot(w) PROVE SlotAccounting'
  <2>1. semaphore' = semaphore + 1 /\ filled' = filled
    BY <1>2 DEF AcquireSlot, shutdownVars
  <2> QED
    BY <1>2, <2>1, HoldersAdd, HoldersFinite DEF TypeOK
<1>3. ASSUME NEW w \in Worker, Inside(w) PROVE SlotAccounting'
  BY <1>3, HoldersInside
<1>4. ASSUME NEW w \in Worker, ReleaseSlot(w) PROVE SlotAccounting'
  <2>1. semaphore' = semaphore - 1 /\ filled' = filled
    BY <1>4 DEF ReleaseSlot, shutdownVars
  <2> QED
    BY <1>4, <2>1, HoldersRemove, HoldersFinite DEF TypeOK
<1>5. CASE BeginShutdown \/ FillSlot \/ Drained \/ ShutdownExpires
  <2>1. Holders' = Holders
    BY <1>5 DEF BeginShutdown, FillSlot, Drained, ShutdownExpires, Holders
  <2>2. semaphore' - filled' = semaphore - filled
    BY <1>5 DEF BeginShutdown, FillSlot, Drained, ShutdownExpires, handleVars, TypeOK
  <2>3. semaphore' \in Nat /\ filled' \in Nat
    BY TypeStep, LoopAssumption DEF TypeOK
  <2> QED
    BY <2>1, <2>2, <2>3, HoldersFinite DEF TypeOK
<1> QED
  BY <1>1, <1>2, <1>3, <1>4, <1>5 DEF Next, Work, Inside

-----------------------------------------------------------------------------
(* Workers and messages.                                                   *)

\* A worker's step leaves the other workers' messages alone: no two workers
\* have the same message, and a message a worker takes up is new.
LEMMA WorkerStep ==
  ASSUME LoopInv, Next
  PROVE  WorkerInv' /\ OwnMessage'
<1> USE LoopAssumption DEF LoopInv, TypeOK, WorkerInv, OwnMessage, Answers, Goto, TurnStep,
            PC, SlotPC, TurnPC, shutdownVars, handleVars, turnVars, replyVars
<1> DEFINE Goal == WorkerInv' /\ OwnMessage'
<1>0. \A v \in Worker : pc[v] # "idle" => cur[v] \in Msg
  OBVIOUS
<1>1. ASSUME NEW w \in Worker, NEW m \in Msg, Enter(w, m) PROVE Goal
  <2>1. \A v \in Worker : cur[v] # m
    BY <1>0, <1>1 DEF Enter
  <2>2. Answers(m)' = 0
    BY <1>1 DEF Enter, MessageInv
  <2> QED
    BY <1>0, <1>1, <2>1, <2>2 DEF Enter
<1>2. ASSUME NEW w \in Worker, NEW m \in Msg, Drop(w, m) PROVE Goal
  BY <1>0, <1>2 DEF Drop
<1>3. ASSUME NEW w \in Worker, AcquireSlot(w) PROVE Goal
  BY <1>0, <1>3 DEF AcquireSlot
<1>4. ASSUME NEW w \in Worker, LockSession(w) PROVE Goal
  BY <1>0, <1>4 DEF LockSession, MessageInv
<1>5. ASSUME NEW w \in Worker, LoadContext(w) PROVE Goal
  BY <1>0, <1>5 DEF LoadContext
<1>6. ASSUME NEW w \in Worker, Prepare(w) PROVE Goal
  BY <1>0, <1>6 DEF Prepare
<1>7. ASSUME NEW w \in Worker, CallLLM(w) PROVE Goal
  BY <1>0, <1>7 DEF CallLLM
<1>8. ASSUME NEW w \in Worker, RunTools(w) PROVE Goal
  BY <1>0, <1>8 DEF RunTools
<1>9. ASSUME NEW w \in Worker, IterationLimit(w) PROVE Goal
  BY <1>0, <1>9 DEF IterationLimit
<1>10. ASSUME NEW w \in Worker, ReplySent(w) PROVE Goal
  BY <1>0, <1>10 DEF ReplySent
<1>11. ASSUME NEW w \in Worker, ReplyRefused(w) PROVE Goal
  BY <1>0, <1>11 DEF ReplyRefused
<1>12. ASSUME NEW w \in Worker, Restore(w) PROVE Goal
  BY <1>0, <1>12 DEF Restore
<1>13. ASSUME NEW w \in Worker, UnlockSession(w) PROVE Goal
  BY <1>0, <1>13 DEF UnlockSession
<1>14. ASSUME NEW w \in Worker, ReleaseSlot(w) PROVE Goal
  BY <1>0, <1>14 DEF ReleaseSlot
<1>15. CASE BeginShutdown \/ FillSlot \/ Drained \/ ShutdownExpires
  BY <1>15 DEF BeginShutdown, FillSlot, Drained, ShutdownExpires
<1> QED
  BY <1>1, <1>2, <1>3, <1>4, <1>5, <1>6, <1>7, <1>8, <1>9, <1>10, <1>11, <1>12, <1>13,
     <1>14, <1>15 DEF Next, Work, Reply

\* The status of a message tells how often it was answered.
LEMMA MessageStep ==
  ASSUME LoopInv, Next
  PROVE  MessageInv'
<1> USE LoopAssumption DEF LoopInv, TypeOK, MessageInv, WorkerInv, OwnMessage, Answers, Goto,
            TurnStep, PC, SlotPC, TurnPC, shutdownVars, handleVars, turnVars, replyVars
<1>0. \A v \in Worker : pc[v] # "idle" => cur[v] \in Msg
  OBVIOUS
<1>1. ASSUME NEW w \in Worker, NEW m \in Msg, Enter(w, m) \/ Drop(w, m) PROVE MessageInv'
  BY <1>0, <1>1 DEF Enter, Drop
<1>2. ASSUME NEW w \in Worker, AcquireSlot(w) \/ LockSession(w) PROVE MessageInv'
  BY <1>0, <1>2 DEF AcquireSlot, LockSession
<1>3. ASSUME NEW w \in Worker, LoadContext(w) \/ Prepare(w) \/ Restore(w) PROVE MessageInv'
  BY <1>0, <1>3 DEF LoadContext, Prepare, Restore
<1>4. ASSUME NEW w \in Worker, CallLLM(w) \/ RunTools(w) \/ IterationLimit(w)
      PROVE  MessageInv'
  BY <1>0, <1>4 DEF CallLLM, RunTools, IterationLimit
<1>5. ASSUME NEW w \in Worker, Reply(w) PROVE MessageInv'
  BY <1>0, <1>5 DEF Reply, ReplySent, ReplyRefused
<1>6. ASSUME NEW w \in Worker, UnlockSession(w) \/ ReleaseSlot(w) PROVE MessageInv'
  BY <1>0, <1>6 DEF UnlockSession, ReleaseSlot
<1>7. CASE BeginShutdown \/ FillSlot \/ Drained \/ ShutdownExpires
  BY <1>7 DEF BeginShutdown, FillSlot, Drained, ShutdownExpires
<1> QED
  BY <1>1, <1>2, <1>3, <1>4, <1>5, <1>6, <1>7 DEF Next, Work

\* Once Shutdown has returned nil the slots it took stay taken.
LEMMA DrainStep ==
  ASSUME LoopInv, Next
  PROVE  ShutdownInv'
<1> USE DEF LoopInv, ShutdownInv, Goto, TurnStep, shutdownVars
<1>1. ASSUME NEW w \in Worker, NEW m \in Msg, Enter(w, m) \/ Drop(w, m)
      PROVE  UNCHANGED shutdownVars
  BY <1>1 DEF Enter, Drop
<1>2. ASSUME NEW w \in Worker, AcquireSlot(w) \/ LockSession(w) \/ Work(w) \/ Reply(w)
      PROVE  UNCHANGED shutdownVars
  BY <1>2 DEF AcquireSlot, LockSession, Work, LoadContext, Prepare, CallLLM, RunTools,
              IterationLimit, Restore, UnlockSession, ReleaseSlot, Reply, ReplySent,
              ReplyRefused
<1>3. CASE BeginShutdown \/ FillSlot \/ Drained \/ ShutdownExpires
  BY <1>3 DEF BeginShutdown, FillSlot, Drained, ShutdownExpires
<1> QED
  BY <1>1, <1>2, <1>3 DEF Next

-----------------------------------------------------------------------------
(* Theorems.                                                               *)

\* LoopInv holds in every state the loop can reach.
THEOREM LoopInvariant == Spec => []LoopInv
<1>1. LoopInv /\ [Next]_vars => LoopInv'
  <2> SUFFICES ASSUME LoopInv, [Next]_vars PROVE LoopInv'
    OBVIOUS
  <2>1. CASE Next
    BY <2>1, TypeStep, SlotStep, WorkerStep, MessageStep, DrainStep DEF LoopInv
  <2>2. CASE UNCHANGED vars
    BY <2>2 DEF LoopInv, vars, TypeOK, WorkerInv, OwnMessage, MessageInv, Answers,
                SlotAccounting, Holders, ShutdownInv
  <2> QED
    BY <2>1, <2>2
<1> QED
  BY InitLoopInv, <1>1, PTL DEF Spec

\* Every variable of the loop keeps its type; in particular the semaphore
\* never holds more than MaxWorkers slots.
THEOREM LoopTypes == Spec => []TypeOK
<1>1. LoopInv => TypeOK
  BY DEF LoopInv
<1> QED
  BY <1>1, LoopInvariant, PTL

\* Two turns of one chat never run at the same time, however many goroutines
\* call Handle.
THEOREM SessionsExclude == Spec => []SessionMutex
<1>1. LoopInv => SessionMutex
  BY DEF LoopInv, WorkerInv, SessionMutex
<1> QED
  BY <1>1, LoopInvariant, PTL

\* The semaphore counts exactly the Handle calls past it and Shutdown's slots.
THEOREM SlotsAccounted == Spec => []SlotAccounting
<1>1. LoopInv => SlotAccounting
  BY DEF LoopInv
<1> QED
  BY <1>1, LoopInvariant, PTL

\* Shutdown that took every slot leaves none for a Handle call.
LEMMA NoHolders == LoopInv /\ shutdown = "drained" => Holders = {}
<1> SUFFICES ASSUME LoopInv, shutdown = "drained" PROVE Holders = {}
  OBVIOUS
<1>1. Cardinality(Holders) = 0
  BY HoldersFinite, LoopAssumption DEF LoopInv, SlotAccounting, ShutdownInv, TypeOK
<1> QED
  BY <1>1, HoldersFinite, FS_EmptySet

\* After a Shutdown that returned nil no turn runs, and none ever starts.
THEOREM DrainedStaysQuiet == Spec => []DrainedIsQuiet
<1>1. LoopInv => DrainedIsQuiet
  BY NoHolders DEF DrainedIsQuiet
<1> QED
  BY <1>1, LoopInvariant, PTL

\* A message whose Handle call got through has one response, whichever path
\* runTurn took; a dropped message has none.
THEOREM MessagesAnsweredOnce == Spec => []AnsweredOnce
<1>1. LoopInv => AnsweredOnce
  <2> SUFFICES ASSUME LoopInv, NEW m \in Msg
               PROVE  /\ Answers(m) =< IF status[m] \in {"running", "returned"} THEN 1 ELSE 0
                      /\ status[m] = "returned" => replies[m] = 1 \/ m \in refused
    BY DEF AnsweredOnce, Answers
  <2>1. status[m] = "running" => Answers(m) \in {0, 1}
    BY DEF LoopInv, MessageInv, WorkerInv, TurnPC
  <2>2. status[m] # "running" =>
          Answers(m) = IF status[m] = "returned" THEN 1 ELSE 0
    BY DEF LoopInv, MessageInv, TypeOK
  <2>3. status[m] = "returned" => replies[m] = 1 \/ m \in refused
    BY <2>2 DEF Answers, LoopInv, TypeOK
  <2> QED
    BY <2>1, <2>2, <2>3
<1> QED
  BY <1>1, LoopInvariant, PTL

-----------------------------------------------------------------------------
(* Refinement: the loop is a TurnExecutor.                                 *)

\* Fewer messages run than workers hold a slot while one of them waits for its
\* mutex: each running message has a worker of its own inside its turn.
LEMMA RunningBound ==
  ASSUME LoopInv, NEW w \in Worker, pc[w] = "lock"
  PROVE  Cardinality(Executor!Running) < MaxWorkers
<1> DEFINE R == Executor!Running
           H == Holders \ {w}
           f == [m \in R |-> CHOOSE v \in Worker : pc[v] \in TurnPC /\ cur[v] = m]
<1>1. \A m \in R : f[m] \in Worker /\ pc[f[m]] \in TurnPC /\ cur[f[m]] = m
  BY DEF Executor!Running, LoopInv, MessageInv
<1>2. \A m \in R : f[m] \in H
  BY <1>1 DEF Holders, SlotPC, TurnPC
<1>3. f \in Injection(R, H)
  <2>1. f \in [R -> H]
    BY <1>2
  <2>2. \A m, n \in R : f[m] = f[n] => m = n
    BY <1>1
  <2> QED
    BY <2>1, <2>2 DEF Injection, IsInjective
<1>4. w \in Holders
  BY DEF Holders, SlotPC
<1>5. IsFiniteSet(H) /\ Cardinality(H) = Cardinality(Holders) - 1
  BY <1>4, HoldersFinite, FS_RemoveElement
<1>6. IsFiniteSet(R) /\ Cardinality(R) =< Cardinality(H)
  BY <1>3, <1>5, FS_Injection
<1>7. Cardinality(Holders) =< MaxWorkers
  BY HoldersFinite, LoopAssumption DEF LoopInv, SlotAccounting, TypeOK
<1>8. Cardinality(R) \in Nat
  BY <1>6, FS_CardinalityType
<1> QED
  BY <1>5, <1>6, <1>7, <1>8, HoldersFinite, LoopAssumption

\* Only Enter, Drop, LockSession, UnlockSession and two steps of Shutdown are
\* visible to the executor; each is the step of the same meaning.
LEMMA LoopStepImplements ==
  ASSUME LoopInv, Next
  PROVE  Executor!Next \/ UNCHANGED Executor!vars
<1> USE LoopAssumption DEF Goto, TurnStep, shutdownVars, Executor!vars
<1>1. ASSUME NEW w \in Worker, NEW m \in Msg, Enter(w, m) PROVE Executor!Admit(m)
  BY <1>1 DEF Enter, Executor!Admit, Executor!Become
<1>2. ASSUME NEW w \in Worker, NEW m \in Msg, Drop(w, m) PROVE Executor!Drop(m)
  BY <1>2 DEF Drop, Executor!Drop, Executor!Become
<1>3. ASSUME NEW w \in Worker, LockSession(w)
      PROVE  cur[w] \in Msg /\ Executor!Begin(cur[w])
  <2>1. pc[w] = "lock" /\ cur[w] \in Msg
    BY <1>3 DEF LockSession, LoopInv, WorkerInv, TypeOK
  <2>2. shutdown # "drained"
    BY <2>1, NoHolders DEF Holders, SlotPC
  <2>3. \A n \in Executor!Running : ChatOf[n] # ChatOf[cur[w]]
    BY <1>3 DEF LockSession, LoopInv, MessageInv, WorkerInv, Executor!Running
  <2>4. Executor!Become(cur[w], "admitted", "running")
    BY <1>3, <2>1 DEF LockSession, LoopInv, WorkerInv, Executor!Become
  <2>5. Executor!Cardinality(Executor!Running) < MaxWorkers
    <3>1. Executor!Cardinality(Executor!Running) = Cardinality(Executor!Running)
      BY DEF Executor!Cardinality, Cardinality
    <3> QED
      BY <2>1, <3>1, RunningBound
  <2>6. Executor!Begin(cur[w])
    BY <2>2, <2>3, <2>4, <2>5 DEF Executor!Begin
  <2> QED
    BY <2>1, <2>6
<1>4. ASSUME NEW w \in Worker, UnlockSession(w)
      PROVE  cur[w] \in Msg /\ Executor!Finish(cur[w])
  BY <1>4 DEF UnlockSession, LoopInv, WorkerInv, TypeOK, TurnPC, Executor!Finish, Executor!Become
<1>5. CASE BeginShutdown
  BY <1>5 DEF BeginShutdown, LoopInv, ShutdownInv, Executor!Next, Executor!Close
<1>6. CASE Drained
  <2>1. Holders = {}
    <3>1. Cardinality(Holders) = 0
      BY <1>6, HoldersFinite DEF Drained, LoopInv, SlotAccounting, TypeOK
    <3> QED
      BY <3>1, HoldersFinite, FS_EmptySet
  <2>2. Executor!Running = {}
    BY <2>1 DEF Executor!Running, LoopInv, MessageInv, Holders, SlotPC
  <2> QED
    BY <1>6, <2>2 DEF Drained, LoopInv, ShutdownInv, Executor!Next, Executor!Quiesce
<1>7. ASSUME NEW w \in Worker,
             \/ AcquireSlot(w) \/ LoadContext(w) \/ Prepare(w) \/ CallLLM(w) \/ RunTools(w)
             \/ IterationLimit(w) \/ Restore(w) \/ ReleaseSlot(w) \/ Reply(w)
      PROVE  UNCHANGED Executor!vars
  BY <1>7 DEF AcquireSlot, LoadContext, Prepare, CallLLM, RunTools, IterationLimit, Restore,
              ReleaseSlot, Reply, ReplySent, ReplyRefused
<1>8. CASE FillSlot \/ ShutdownExpires
  BY <1>8 DEF FillSlot, ShutdownExpires
<1> QED
  BY <1>1, <1>2, <1>3, <1>4, <1>5, <1>6, <1>7, <1>8 DEF Next, Work, Executor!Next

\* The loop, with its semaphore, its mutexes and its drain, does what
\* TurnExecutor promises: every behaviour of Handle and Shutdown is one of it.
THEOREM LoopImplementsExecutor == Spec => ImplementsExecutor
<1>1. Init => Executor!Init
  BY DEF Init, Executor!Init
<1>2. LoopInv /\ [Next]_vars => [Executor!Next]_(Executor!vars)
  BY LoopStepImplements DEF vars, Executor!vars
<1> QED
  BY <1>1, <1>2, LoopInvariant, PTL DEF Spec, ImplementsExecutor, Executor!Spec

-----------------------------------------------------------------------------
(* Sequences of messages.                                                  *)

\* What is appended comes last, and the elements are those before and it.
LEMMA ElementsAppend ==
  ASSUME NEW S, NEW s \in Seq(S), NEW e \in S
  PROVE  /\ Append(s, e) \in Seq(S) /\ Append(s, e) # <<>>
         /\ Len(Append(s, e)) = Len(s) + 1 /\ Append(s, e)[Len(s) + 1] = e
         /\ DOMAIN s = 1..Len(s) /\ DOMAIN Append(s, e) = 1..(Len(s) + 1)
         /\ \A i \in DOMAIN s : Append(s, e)[i] = s[i]
         /\ Elements(Append(s, e)) = Elements(s) \cup {e}
<1>1. Append(s, e) \in Seq(S)
  OBVIOUS
<1>2. Len(Append(s, e)) = Len(s) + 1 /\ Append(s, e)[Len(s) + 1] = e
  OBVIOUS
<1>3. /\ Len(s) \in Nat
      /\ DOMAIN s = 1..Len(s) /\ DOMAIN Append(s, e) = 1..(Len(s) + 1)
      /\ \A i \in DOMAIN s : Append(s, e)[i] = s[i]
  OBVIOUS
<1>4. Elements(Append(s, e)) = Elements(s) \cup {e}
  <2>1. Elements(Append(s, e)) \subseteq Elements(s) \cup {e}
    BY <1>2, <1>3 DEF Elements
  <2>2. e \in Elements(Append(s, e))
    BY <1>2, <1>3 DEF Elements
  <2>3. Elements(s) \subseteq Elements(Append(s, e))
    BY <1>3 DEF Elements
  <2> QED
    BY <2>1, <2>2, <2>3
<1>5. Append(s, e) # <<>>
  <2>1. Len(<<>>) = 0
    OBVIOUS
  <2>2. Len(Append(s, e)) # Len(<<>>)
    BY <1>2, <1>3, <2>1
  <2> QED
    BY <2>2
<1> QED
  BY <1>1, <1>2, <1>3, <1>4, <1>5

\* A sequence is a prefix of what it is continued to.
LEMMA ElementsPrefix ==
  ASSUME NEW S, NEW s \in Seq(S), NEW t \in Seq(S)
  PROVE  /\ \A i \in DOMAIN s : i \in DOMAIN (s \o t) /\ (s \o t)[i] = s[i]
         /\ Elements(s) \subseteq Elements(s \o t)
<1>1. \A i \in DOMAIN s : i \in DOMAIN (s \o t) /\ (s \o t)[i] = s[i]
  OBVIOUS
<1> QED
  BY <1>1 DEF Elements

\* The head of the rest is among the elements of the whole.
LEMMA HeadOfRest ==
  ASSUME NEW S, NEW s \in Seq(S), NEW t \in Seq(S), t # <<>>
  PROVE  Head(t) \in S /\ Head(t) \in Elements(s \o t)
<1>1. Len(s) + 1 \in DOMAIN (s \o t) /\ (s \o t)[Len(s) + 1] = t[1]
  OBVIOUS
<1>2. Head(t) = t[1] /\ Head(t) \in S
  OBVIOUS
<1> QED
  BY <1>1, <1>2 DEF Elements

\* The last element is one.
LEMMA LastIsElement ==
  ASSUME NEW S, NEW s \in Seq(S), s # <<>>
  PROVE  s[Len(s)] \in Elements(s)
<1>1. Len(s) \in DOMAIN s
  OBVIOUS
<1> QED
  BY <1>1 DEF Elements

\* No message is twice in a sequence.
Once(s) == \A i, j \in DOMAIN s : s[i] = s[j] => i = j

\* Something new is appended without making anything occur twice.
LEMMA OnceAppend ==
  ASSUME NEW S, NEW s \in Seq(S), NEW e \in S, Once(s), e \notin Elements(s)
  PROVE  Once(Append(s, e))
  BY ElementsAppend DEF Once, Elements

-----------------------------------------------------------------------------
(* The invariant of the running agent.                                     *)

\* The bus is stopped after the loop; what a send on a closed channel or a
\* stopped bus does to a turn happens only if the loop did not drain in time.
\* The channels hold nothing back unless the deadline cut their Stop short.
DownInv ==
  /\ phase \in {"ready", "stopChannels", "drainLoop", "stopBus", "stopped"}
  /\ stopped <=> phase \in {"stopBus", "stopped"}
  /\ closed # {} \/ stopResult # "running" => stopped
  /\ stopped => shutdown \in {"drained", "expired"}
  /\ refused # {} => shutdown = "expired"
  /\ crashed \/ shutdown = "expired" => deadline
  /\ phase \in {"drainLoop", "stopBus", "stopped"} /\ ~deadline => sending[Source] = Nothing

\* The channels put messages on the inbound topic, each once.
SourceInv ==
  sending[Source] # Nothing =>
    \E m \in Msg \ FormMsg : sending[Source] = <<"inbound", m>> /\ m \notin Elements(accepted["inbound"])

\* The dispatch goroutine works on the message it took last, the others on
\* submitted forms; what a goroutine is about to send is the answer to its own.
TurnInv ==
  /\ Current # Nothing =>
       /\ Current \in Msg \ FormMsg
       /\ handled["inbound"] # <<>>
       /\ handled["inbound"][Len(handled["inbound"])] = Current
  /\ \A w \in Worker : pc[w] # "idle" =>
       IF w = Dispatcher THEN cur[w] = Current /\ Current \notin Command ELSE cur[w] \in FormMsg
  /\ \A w \in Worker : sending[w] # Nothing =>
       \/ pc[w] = "reply" /\ sending[w] = <<"outbound", cur[w]>>
       \/ w = Dispatcher /\ Current \in Command \ commanded /\ sending[w] = <<"outbound", Current>>

\* The outbound topic has the answers that turns and commands count as given;
\* but for those to forms they answer what was taken from the inbound topic.
AnswerInv ==
  /\ commanded \subseteq Command
  /\ \A m \in Command : status[m] = "new"
  /\ \A m \in Elements(accepted["outbound"]) : m \in commanded \/ replies[m] = 1
  /\ \A m \in Msg : replies[m] = 1 => m \in Elements(accepted["outbound"])
  /\ Elements(accepted["outbound"]) \subseteq Elements(handled["inbound"]) \cup FormMsg

\* Neither topic has a message twice, and the order of one is that of the other.
OrderInv ==
  LET in == accepted["inbound"]
      out == accepted["outbound"]
  IN /\ Once(in) /\ Once(out)
     /\ Elements(in) \subseteq Msg \ FormMsg
     /\ \A i, j \in DOMAIN in, k, l \in DOMAIN out :
          in[i] = out[k] /\ in[j] = out[l] /\ i < j => k < l

\* What the wiring adds to the invariants of the loop and of the transport.
RuntimeInv == DownInv /\ SourceInv /\ TurnInv /\ AnswerInv /\ OrderInv

\* The transport of the runtime with what is proved of every transport.
BusProofs == INSTANCE MessageBusProofs WITH
  Topic <- {"inbound", "outbound"},
  Publisher <- Worker \cup {Source}

\* The two topics and the goroutines of the runtime are values a bus may have.
LEMMA RuntimeBus == BusProofs!BusAssumption
  BY RuntimeAssumption DEF BusProofs!BusAssumption

\* What is proved of every transport speaks of the transport of the runtime.
LEMMA SameBus ==
  /\ Bus!BusInit => BusProofs!BusInit
  /\ Bus!BusNext => BusProofs!BusNext
  /\ Bus!busVars = BusProofs!busVars
<1>1. Bus!BusInit => BusProofs!BusInit
  BY DEF Bus!BusInit, BusProofs!BusInit
<1>2. ASSUME NEW p \in Worker \cup {Source}, Bus!Publish(p) PROVE BusProofs!Publish(p)
  BY <1>2, Zenon DEF Bus!Publish, Bus!CheckStopped, Bus!CanPublish, Bus!Unpublished, Bus!Send, Bus!SendCancelled,
     Bus!SendPanics, Bus!stopVars, Bus!dispatchVars,
     BusProofs!Publish, BusProofs!CheckStopped, BusProofs!CanPublish, BusProofs!Unpublished, BusProofs!Send,
     BusProofs!SendCancelled, BusProofs!SendPanics, BusProofs!stopVars, BusProofs!dispatchVars
<1>3. ASSUME NEW t \in {"inbound", "outbound"}, Bus!Dispatch(t) \/ Bus!CloseTopic(t)
      PROVE  BusProofs!Dispatch(t) \/ BusProofs!CloseTopic(t)
  BY <1>3, Zenon DEF Bus!Dispatch, Bus!Take, Bus!HandlerReturns, Bus!ExitLoop, Bus!CloseTopic, Bus!stopVars,
     Bus!dispatchVars, BusProofs!Dispatch, BusProofs!Take, BusProofs!HandlerReturns, BusProofs!ExitLoop,
     BusProofs!CloseTopic, BusProofs!stopVars, BusProofs!dispatchVars
<1>4. ASSUME Bus!BeginStop \/ Bus!StopDone \/ Bus!StopExpires
      PROVE  BusProofs!BeginStop \/ BusProofs!StopDone \/ BusProofs!StopExpires
  BY <1>4, Zenon DEF Bus!BeginStop, Bus!StopDone, Bus!StopExpires, Bus!dispatchVars,
     BusProofs!BeginStop, BusProofs!StopDone, BusProofs!StopExpires, BusProofs!dispatchVars
<1>5. Bus!BusNext => BusProofs!BusNext
  BY <1>2, <1>3, <1>4 DEF Bus!BusNext, BusProofs!BusNext
<1> QED
  BY <1>1, <1>5 DEF Bus!busVars, BusProofs!busVars

\* What is known of the transport while the runtime uses it.
Transport ==
  /\ BusProofs!BusInv
  /\ \A t \in {"inbound", "outbound"} :
       /\ accepted[t] \in Seq(Msg) /\ handled[t] \in Seq(Msg) /\ queues[t] \in Seq(Msg)
       /\ accepted[t] = handled[t] \o queues[t]
       /\ handling[t] \in Msg \cup {Nothing}
  /\ sending \in [Worker \cup {Source} -> ({"inbound", "outbound"} \X Msg) \cup {Nothing}]
  /\ accepted \in [{"inbound", "outbound"} -> Seq(Msg)]
  /\ handled \in [{"inbound", "outbound"} -> Seq(Msg)]
  /\ handling \in [{"inbound", "outbound"} -> Msg \cup {Nothing}]
  /\ queues \in [{"inbound", "outbound"} -> Seq(Msg)]

\* It follows from the invariant of the transport.
LEMMA TransportTyped == BusProofs!BusInv => Transport
  BY DEF BusProofs!BusInv, BusProofs!BusTypeOK, BusProofs!FifoDelivery, Transport

-----------------------------------------------------------------------------
(* Every step of the runtime is one of the loop, of the bus, or of both.   *)

\* The loop inside the runtime takes no other steps than the loop by itself.
LEMMA StepOfLoop == [RuntimeNext]_allVars => [Next]_vars
<1> SUFFICES ASSUME [RuntimeNext]_allVars PROVE [Next]_vars
  OBVIOUS
<1>1. CASE UNCHANGED allVars
  BY <1>1 DEF allVars
<1>2. ASSUME \/ \E m \in Msg : Receive(m)
             \/ SourceSend \/ SourceCancelled \/ SourcePanics \/ Deliver \/ TakeInbound \/ Command_CheckStopped
             \/ Command_Publish \/ HandlerReturns
             \/ \E w \in Worker : Reply_CheckStopped(w)
             \/ SignalReceived \/ DeadlinePasses \/ StopBus \/ BusStops \/ Exit
      PROVE  UNCHANGED vars
  BY <1>2 DEF LoopIdle, Receive, SourceSend, SourceCancelled, SourcePanics, Deliver, TakeInbound, Command_CheckStopped,
     Command_Publish, CommandDone, HandlerReturns, Reply_CheckStopped, SignalReceived, DeadlinePasses,
     StopBus, BusStops, Exit
<1>3. ASSUME \/ HandleInbound
             \/ \E w \in Worker, m \in Msg : SubmitForm(w, m)
             \/ \E w \in Worker : TurnRuns(w) \/ Reply_Send(w) \/ Reply_Refused(w) \/ Reply_Panics(w)
             \/ ChannelsStopped \/ DrainLoop
      PROVE  Next
  BY <1>3, RuntimeAssumption DEF Next, HandleInbound, Current, SubmitForm, TurnRuns, Reply_Send, Reply_Refused,
     Reply_Panics, Reply, ChannelsStopped, DrainLoop
<1> QED
  BY <1>1, <1>2, <1>3 DEF RuntimeNext, Inbound, Turn, ShutdownStep

\* The runtime keeps what the loop promises, whatever it is wired to.
THEOREM RuntimeImplementsLoop == RuntimeSpec => Spec
<1>1. RuntimeInit => Init
  BY DEF RuntimeInit
<1> QED
  BY <1>1, StepOfLoop, PTL DEF RuntimeSpec, Spec

\* The invariant of the loop holds in the runtime.
LEMMA LoopInRuntime == RuntimeSpec => []LoopInv
  BY RuntimeImplementsLoop, LoopInvariant, PTL

\* Two sends are the same if topic and message are.
LEMMA SendEq ==
  ASSUME NEW a, NEW b, NEW c, NEW d, <<a, b>> = <<c, d>>
  PROVE  a = c /\ b = d
OBVIOUS

\* The inductive invariant of the running agent.
AgentInv == LoopInv /\ Transport /\ RuntimeInv

\* A goroutine that is to reply has not answered its message, nor is anybody else
\* about to; so what it publishes is new to the outbound topic.
LEMMA ReplyIsNew ==
  ASSUME AgentInv, NEW w \in Worker, pc[w] = "reply", sending[w] = Nothing
  PROVE  cur[w] \in Msg /\ Bus!Unpublished("outbound", cur[w])
<1> USE DEF AgentInv, RuntimeInv
<1>1. cur[w] \in Msg /\ replies[cur[w]] # 1 /\ \A v \in Worker : pc[v] # "idle" /\ cur[v] = cur[w] => v = w
  BY DEF LoopInv, TypeOK, WorkerInv, OwnMessage, TurnPC, Answers
<1>2. cur[w] \notin Command
  BY RuntimeAssumption DEF TurnInv
<1>3. cur[w] \notin Elements(accepted["outbound"])
  BY <1>1, <1>2 DEF AnswerInv
<1>4. \A p \in Worker \cup {Source} : sending[p] # <<"outbound", cur[w]>>
  <2>1. ASSUME sending[Source] = <<"outbound", cur[w]>> PROVE FALSE
    <3>1. sending[Source] # Nothing
      BY <1>1, <2>1, RuntimeAssumption
    <3>2. PICK m \in Msg : sending[Source] = <<"inbound", m>>
      BY <3>1 DEF SourceInv
    <3>3. "outbound" = "inbound"
      BY <2>1, <3>2, SendEq
    <3> QED
      BY <3>3
  <2>2. ASSUME NEW p \in Worker, sending[p] = <<"outbound", cur[w]>> PROVE FALSE
    <3>1. sending[p] # Nothing
      BY <1>1, <2>2, RuntimeAssumption
    <3>2. CASE pc[p] = "reply" /\ sending[p] = <<"outbound", cur[p]>>
      <4>1. cur[p] = cur[w]
        BY <2>2, <3>2, SendEq
      <4> QED
        BY <1>1, <3>1, <3>2, <4>1
    <3>3. CASE p = Dispatcher /\ Current \in Command \ commanded /\ sending[p] = <<"outbound", Current>>
      <4>1. Current = cur[w]
        BY <2>2, <3>3, SendEq
      <4> QED
        BY <1>2, <3>3, <4>1
    <3> QED
      BY <3>1, <3>2, <3>3 DEF TurnInv
  <2> QED
    BY <2>1, <2>2
<1> QED
  BY <1>1, <1>3, <1>4 DEF Bus!Unpublished, Elements

\* Neither was the answer of a command given before.
LEMMA CommandIsNew ==
  ASSUME AgentInv, Current \in Command \ commanded, sending[Dispatcher] = Nothing
  PROVE  Current \in Msg /\ Bus!Unpublished("outbound", Current)
<1> USE DEF AgentInv, RuntimeInv
<1>1. Current \in Msg /\ Current \notin FormMsg /\ status[Current] = "new"
  BY RuntimeAssumption DEF AnswerInv
<1>2. replies[Current] # 1
  BY <1>1 DEF LoopInv, TypeOK, MessageInv, Answers
<1>3. Current \notin Elements(accepted["outbound"])
  BY <1>2 DEF AnswerInv
<1>4. \A p \in Worker \cup {Source} : sending[p] # <<"outbound", Current>>
  <2>1. sending[Source] # <<"outbound", Current>>
    BY <1>1, SendEq, RuntimeAssumption DEF SourceInv
  <2>2. ASSUME NEW p \in Worker, sending[p] = <<"outbound", Current>> PROVE FALSE
    <3>1. sending[p] # Nothing /\ p # Dispatcher
      BY <1>1, <2>2, RuntimeAssumption
    <3>2. pc[p] = "reply" /\ cur[p] = Current
      <4>1. pc[p] = "reply" /\ sending[p] = <<"outbound", cur[p]>>
        BY <3>1 DEF TurnInv
      <4> QED
        BY <2>2, <4>1, SendEq
    <3> QED
      BY <1>1, <3>1, <3>2 DEF TurnInv
  <2> QED
    BY <2>1, <2>2
<1> QED
  BY <1>1, <1>3, <1>4 DEF Bus!Unpublished, Elements

\* The transport inside the runtime takes no other steps than the transport by
\* itself: no goroutine publishes what its topic has already.
LEMMA StepOfBus ==
  ASSUME AgentInv, [RuntimeNext]_allVars
  PROVE  [Bus!BusNext]_busVars
<1>1. CASE UNCHANGED allVars
  BY <1>1 DEF allVars
<1>2. ASSUME \/ HandleInbound
             \/ \E w \in Worker, m \in Msg : SubmitForm(w, m)
             \/ \E w \in Worker : TurnRuns(w) \/ Reply_Refused(w)
             \/ SignalReceived \/ DeadlinePasses \/ ChannelsStopped \/ DrainLoop \/ Exit
      PROVE  UNCHANGED busVars
  BY <1>2 DEF BusIdle, HandleInbound, SubmitForm, TurnRuns, Reply_Refused, SignalReceived, DeadlinePasses,
     ChannelsStopped, DrainLoop, Exit
<1>3. ASSUME NEW m \in Msg, Receive(m) PROVE Bus!BusNext
  BY <1>3 DEF Receive, Bus!BusNext, Bus!Publish
<1>4. CASE SourceSend \/ SourceCancelled \/ SourcePanics
  BY <1>4 DEF SourceSend, SourceCancelled, SourcePanics, Bus!BusNext, Bus!Publish
<1>5. CASE Deliver \/ TakeInbound \/ HandlerReturns
  BY <1>5 DEF Deliver, TakeInbound, HandlerReturns, Bus!BusNext, Bus!Dispatch
<1>6. CASE Command_CheckStopped
  <2>1. Dispatcher \in Worker /\ Current \in Command \ commanded /\ sending[Dispatcher] = Nothing
    BY <1>6, RuntimeAssumption DEF Command_CheckStopped, Bus!CheckStopped, Bus!CanPublish
  <2>2. Bus!Publish(Dispatcher)
    BY <1>6, <2>1, CommandIsNew DEF Command_CheckStopped, Bus!Publish
  <2> QED
    BY <2>1, <2>2 DEF Bus!BusNext
<1>7. CASE Command_Publish
  BY <1>7, RuntimeAssumption DEF Command_Publish, BusIdle, Bus!BusNext, Bus!Publish
<1>8. ASSUME NEW w \in Worker, Reply_CheckStopped(w) PROVE Bus!BusNext
  <2>1. pc[w] = "reply" /\ sending[w] = Nothing
    BY <1>8 DEF Reply_CheckStopped, Bus!CheckStopped, Bus!CanPublish
  <2>2. Bus!Publish(w)
    BY <1>8, <2>1, ReplyIsNew DEF Reply_CheckStopped, Bus!Publish
  <2> QED
    BY <2>2 DEF Bus!BusNext
<1>9. ASSUME NEW w \in Worker, Reply_Send(w) \/ Reply_Panics(w) PROVE Bus!BusNext
  BY <1>9 DEF Reply_Send, Reply_Panics, Bus!BusNext, Bus!Publish
<1>10. CASE StopBus \/ BusStops
  BY <1>10 DEF StopBus, BusStops, Bus!BusNext
<1> QED
  BY <1>1, <1>2, <1>3, <1>4, <1>5, <1>6, <1>7, <1>8, <1>9, <1>10 DEF RuntimeNext, Inbound, Turn, ShutdownStep

\* What every step of the transport keeps is kept by the steps of the runtime.
LEMMA TransportStep ==
  ASSUME AgentInv, [RuntimeNext]_allVars
  PROVE  Transport'
<1>1. [BusProofs!BusNext]_(BusProofs!busVars)
  BY StepOfBus, SameBus DEF busVars, BusProofs!busVars
<1>2. BusProofs!BusInv'
  BY <1>1, RuntimeBus, BusProofs!BusStep DEF AgentInv, Transport
<1> QED
  BY <1>2 DEF BusProofs!BusInv, BusProofs!BusTypeOK, BusProofs!FifoDelivery, Transport

\* The invariant holds in the runtime as it was wired.
LEMMA InitAgent == RuntimeInit => AgentInv
<1> SUFFICES ASSUME RuntimeInit PROVE AgentInv
  OBVIOUS
<1>1. LoopInv
  BY InitLoopInv DEF RuntimeInit
<1>2. Transport
  BY RuntimeBus, SameBus, BusProofs!InitBusInv, TransportTyped DEF RuntimeInit
<1>3. RuntimeInv
  <2> USE RuntimeAssumption DEF RuntimeInit, Init, Bus!BusInit
  <2>1. DownInv /\ SourceInv
    BY DEF DownInv, SourceInv
  <2>2. TurnInv
    BY DEF TurnInv, Current
  <2>3. accepted["inbound"] = <<>> /\ accepted["outbound"] = <<>> /\ Elements(<<>>) = {}
    BY DEF Elements
  <2>4. AnswerInv /\ OrderInv
    BY <2>3 DEF AnswerInv, OrderInv, Once
  <2> QED
    BY <2>1, <2>2, <2>4 DEF RuntimeInv
<1> QED
  BY <1>1, <1>2, <1>3 DEF AgentInv

-----------------------------------------------------------------------------
(* Steps of the runtime.                                                   *)

\* A call of Handle that is past the semaphore, or waits for it, moves its own
\* message only and answers none.
LEMMA TurnRunsAlone ==
  ASSUME LoopInv, NEW w \in Worker, AcquireSlot(w) \/ LockSession(w) \/ Work(w)
  PROVE  /\ pc[w] \notin {"idle", "reply"}
         /\ \A v \in Worker \ {w} : pc'[v] = pc[v] /\ cur'[v] = cur[v]
         /\ pc'[w] # "idle" => cur'[w] = cur[w]
         /\ cur[w] \in Msg
         /\ \A m \in Msg \ {cur[w]} : status'[m] = status[m]
         /\ UNCHANGED <<replies, refused, shutdown>>
<1> USE DEF LoopInv, TypeOK, Goto, TurnStep, shutdownVars, handleVars, turnVars, replyVars
<1>0. pc[w] # "idle" => cur[w] \in Msg
  BY DEF WorkerInv
<1>1. CASE AcquireSlot(w)
  BY <1>0, <1>1 DEF AcquireSlot
<1>2. CASE LockSession(w)
  BY <1>0, <1>2 DEF LockSession
<1>3. CASE LoadContext(w) \/ Prepare(w) \/ CallLLM(w) \/ RunTools(w) \/ IterationLimit(w) \/ Restore(w)
  BY <1>0, <1>3 DEF LoadContext, Prepare, CallLLM, RunTools, IterationLimit, Restore
<1>4. CASE UnlockSession(w)
  BY <1>0, <1>4 DEF UnlockSession
<1>5. CASE ReleaseSlot(w)
  BY <1>0, <1>5 DEF ReleaseSlot
<1> QED
  BY <1>1, <1>2, <1>3, <1>4, <1>5 DEF Work

\* A step of the loop that publishes nothing keeps the invariant.
LEMMA LoopRuns ==
  ASSUME AgentInv, NEW w \in Worker, TurnRuns(w)
  PROVE  RuntimeInv'
<1> USE DEF AgentInv, RuntimeInv
<1>1. UNCHANGED <<busVars, runtimeVars>>
  BY DEF TurnRuns, BusIdle
<1>2. /\ pc[w] \notin {"idle", "reply"}
      /\ \A v \in Worker \ {w} : pc'[v] = pc[v] /\ cur'[v] = cur[v]
      /\ pc'[w] # "idle" => cur'[w] = cur[w]
      /\ cur[w] \in Msg
      /\ \A m \in Msg \ {cur[w]} : status'[m] = status[m]
      /\ UNCHANGED <<replies, refused, shutdown>>
  BY TurnRunsAlone DEF TurnRuns
<1>3. DownInv' /\ SourceInv' /\ OrderInv'
  BY <1>1, <1>2 DEF busVars, runtimeVars, DownInv, SourceInv, OrderInv, Once, Elements
<1>4. TurnInv'
  BY <1>1, <1>2 DEF busVars, runtimeVars, TurnInv, Current
<1>5. AnswerInv'
  <2>1. cur[w] \notin Command
    BY <1>2, RuntimeAssumption DEF TurnInv
  <2> QED
    BY <1>1, <1>2, <2>1, RuntimeAssumption DEF busVars, runtimeVars, AnswerInv, Elements
<1> QED
  BY <1>3, <1>4, <1>5

\* A call of Handle enters with the message taken from the topic, or with a form.
LEMMA HandleCalled ==
  ASSUME AgentInv, HandleInbound \/ \E w \in Worker, m \in Msg : SubmitForm(w, m)
  PROVE  RuntimeInv'
<1> USE DEF AgentInv, RuntimeInv
<1>1. PICK w \in Worker, m \in Msg :
        /\ Enter(w, m) \/ Drop(w, m)
        /\ IF w = Dispatcher THEN m = Current /\ m \notin Command ELSE m \in FormMsg
  BY RuntimeAssumption DEF HandleInbound, SubmitForm, Current
<1>2. UNCHANGED <<busVars, runtimeVars, replies, refused, shutdown>>
  BY <1>1 DEF HandleInbound, SubmitForm, BusIdle, Enter, Drop, shutdownVars, replyVars
<1>3. /\ pc[w] = "idle"
      /\ \A v \in Worker \ {w} : pc'[v] = pc[v] /\ cur'[v] = cur[v]
      /\ pc'[w] # "idle" => cur'[w] = m
      /\ \A n \in Msg \ {m} : status'[n] = status[n]
  BY <1>1 DEF Enter, Drop, Goto, LoopInv, TypeOK
<1>4. DownInv' /\ SourceInv' /\ OrderInv'
  BY <1>2 DEF busVars, runtimeVars, DownInv, SourceInv, OrderInv, Once, Elements
<1>5. TurnInv'
  BY <1>1, <1>2, <1>3 DEF busVars, runtimeVars, TurnInv, Current
<1>6. AnswerInv'
  <2>1. m \notin Command
    BY <1>1, RuntimeAssumption
  <2> QED
    BY <1>2, <1>3, <2>1, RuntimeAssumption DEF busVars, runtimeVars, AnswerInv, Elements
<1> QED
  BY <1>4, <1>5, <1>6

\* A step that sends nothing and takes nothing: signals, the deadline, the
\* stages of Shutdown, the delivery of answers.
LEMMA QuietStep ==
  ASSUME AgentInv,
         \/ SignalReceived \/ DeadlinePasses \/ ChannelsStopped \/ DrainLoop \/ StopBus \/ BusStops \/ Exit
         \/ Deliver
  PROVE  RuntimeInv'
<1> USE DEF AgentInv, RuntimeInv
<1>1. /\ UNCHANGED <<pc, cur, status, replies, refused>>
      /\ UNCHANGED <<sending, accepted, commanded, crashed>>
      /\ handling'["inbound"] = handling["inbound"] /\ handled'["inbound"] = handled["inbound"]
  <2>1. CASE SignalReceived \/ DeadlinePasses \/ Exit
    BY <2>1 DEF SignalReceived, DeadlinePasses, Exit, LoopIdle, BusIdle, vars, busVars
  <2>2. CASE ChannelsStopped \/ DrainLoop
    BY <2>2 DEF ChannelsStopped, DrainLoop, BeginShutdown, FillSlot, Drained, ShutdownExpires, BusIdle, busVars,
       runtimeVars, replyVars
  <2>3. CASE StopBus \/ BusStops
    BY <2>3 DEF StopBus, BusStops, LoopIdle, vars, runtimeVars, Bus!BeginStop, Bus!CloseTopic, Bus!StopDone,
       Bus!StopExpires, Bus!dispatchVars
  <2>4. CASE Deliver
    BY <2>4 DEF Deliver, LoopIdle, vars, runtimeVars, Bus!Take, Bus!HandlerReturns, Bus!ExitLoop, Bus!stopVars, Transport
  <2> QED
    BY <2>1, <2>2, <2>3, <2>4
<1>2. DownInv'
  <2>1. CASE SignalReceived \/ DeadlinePasses \/ Exit
    BY <1>1, <2>1 DEF SignalReceived, DeadlinePasses, Exit, LoopIdle, BusIdle, vars, busVars, DownInv
  <2>2. CASE ChannelsStopped
    BY <1>1, <2>2 DEF ChannelsStopped, BeginShutdown, BusIdle, busVars, DownInv
  <2>3. CASE DrainLoop
    BY <1>1, <2>3 DEF DrainLoop, FillSlot, Drained, ShutdownExpires, BusIdle, busVars, runtimeVars, DownInv
  <2>4. CASE StopBus \/ BusStops
    BY <1>1, <2>4 DEF StopBus, BusStops, LoopIdle, vars, runtimeVars, Bus!BeginStop, Bus!CloseTopic, Bus!StopDone,
       Bus!StopExpires, Bus!dispatchVars, DownInv
  <2>5. CASE Deliver
    BY <1>1, <2>5 DEF Deliver, LoopIdle, vars, runtimeVars, Bus!Take, Bus!HandlerReturns, Bus!ExitLoop,
       Bus!stopVars, DownInv
  <2> QED
    BY <2>1, <2>2, <2>3, <2>4, <2>5
<1>3. SourceInv' /\ OrderInv'
  BY <1>1 DEF SourceInv, OrderInv, Once, Elements
<1>4. TurnInv'
  BY <1>1 DEF TurnInv, Current
<1>5. AnswerInv'
  BY <1>1 DEF AnswerInv, Elements
<1> QED
  BY <1>2, <1>3, <1>4, <1>5

\* The send of a channel finds the topic closed: the bus is stopped, so the
\* channel was given up past the deadline.
LEMMA SourcePanicsStep ==
  ASSUME AgentInv, SourcePanics
  PROVE  RuntimeInv'
<1> USE DEF AgentInv, RuntimeInv
<1>1. /\ UNCHANGED <<pc, cur, status, replies, refused, shutdown>>
      /\ UNCHANGED <<phase, deadline, stopped, stopResult, closed, accepted, commanded, handling, handled>>
      /\ sending[Source] # Nothing /\ closed # {}
      /\ sending' = [sending EXCEPT ![Source] = Nothing]
  BY DEF SourcePanics, LoopIdle, vars, Bus!SendPanics, Bus!stopVars, Bus!dispatchVars
<1>2. AnswerInv' /\ OrderInv'
  BY <1>1 DEF AnswerInv, OrderInv, Once, Elements
<1>3. deadline
  BY <1>1 DEF DownInv
<1>4. DownInv' /\ SourceInv'
  BY <1>1, <1>3 DEF DownInv, SourceInv, Transport
<1>5. TurnInv'
  BY <1>1, RuntimeAssumption DEF TurnInv, Current, Transport
<1> QED
  BY <1>2, <1>4, <1>5

\* A publisher that passed the check, and the send that was cancelled, change
\* only what is about to be sent.
LEMMA PublishBegins ==
  ASSUME AgentInv,
         \/ \E m \in Msg : Receive(m)
         \/ SourceCancelled \/ Command_CheckStopped
         \/ \E w \in Worker : Reply_CheckStopped(w)
  PROVE  RuntimeInv'
<1> USE DEF AgentInv, RuntimeInv
<1>1. /\ UNCHANGED <<pc, cur, status, replies, refused, shutdown>>
      /\ UNCHANGED <<phase, deadline, stopped, stopResult, closed, accepted, commanded, crashed, handling, handled>>
  BY DEF Receive, SourceCancelled, Command_CheckStopped, Reply_CheckStopped, LoopIdle, vars, runtimeVars,
     Bus!CheckStopped, Bus!SendCancelled, Bus!stopVars, Bus!dispatchVars
<1>2. AnswerInv' /\ OrderInv'
  BY <1>1 DEF AnswerInv, OrderInv, Once, Elements
<1>3. ASSUME NEW m \in Msg, Receive(m) PROVE RuntimeInv'
  <2>1. /\ sending' = [sending EXCEPT ![Source] = <<"inbound", m>>]
        /\ m \notin Elements(accepted["inbound"])
        /\ m \in Msg \ FormMsg /\ phase = "ready"
    BY <1>3 DEF Receive, Bus!CheckStopped, Bus!Unpublished, Elements
  <2>2. SourceInv'
    BY <1>1, <2>1 DEF SourceInv, Elements, Transport
  <2>3. DownInv'
    BY <1>1, <2>1 DEF DownInv
  <2>4. TurnInv'
    BY <1>1, <2>1, RuntimeAssumption DEF TurnInv, Current, Transport
  <2> QED
    BY <1>2, <2>2, <2>3, <2>4
<1>4. CASE SourceCancelled
  <2>1. sending' = [sending EXCEPT ![Source] = Nothing]
    BY <1>4 DEF SourceCancelled, Bus!SendCancelled
  <2>2. DownInv' /\ SourceInv'
    BY <1>1, <2>1 DEF DownInv, SourceInv, Transport
  <2>3. TurnInv'
    BY <1>1, <2>1, RuntimeAssumption DEF TurnInv, Current, Transport
  <2> QED
    BY <1>2, <2>2, <2>3
<1>5. ASSUME \/ Command_CheckStopped
             \/ \E w \in Worker : Reply_CheckStopped(w)
      PROVE  RuntimeInv'
  <2>1. PICK w \in Worker :
          \/ /\ pc[w] = "reply" /\ sending' = [sending EXCEPT ![w] = <<"outbound", cur[w]>>]
          \/ /\ w = Dispatcher /\ Current \in Command \ commanded
             /\ sending' = [sending EXCEPT ![w] = <<"outbound", Current>>]
    BY <1>5, RuntimeAssumption DEF Command_CheckStopped, Reply_CheckStopped, Bus!CheckStopped
  <2>2. sending'[Source] = sending[Source]
    BY <2>1, RuntimeAssumption DEF Transport
  <2>3. DownInv' /\ SourceInv'
    BY <1>1, <2>2 DEF DownInv, SourceInv, Elements
  <2>4. TurnInv'
    BY <1>1, <2>1 DEF TurnInv, Current, Transport
  <2> QED
    BY <1>2, <2>3, <2>4
<1> QED
  BY <1>3, <1>4, <1>5

\* The dispatch goroutine takes its next message, or is done with one, only when
\* it is between two turns; what it takes is then the last one handled.
LEMMA InboundMoves ==
  ASSUME AgentInv, TakeInbound \/ HandlerReturns
  PROVE  RuntimeInv'
<1> USE DEF AgentInv, RuntimeInv
<1>1. /\ UNCHANGED <<pc, cur, status, replies, refused, shutdown>>
      /\ UNCHANGED <<phase, deadline, stopped, stopResult, closed, accepted, commanded, crashed, sending>>
  BY DEF TakeInbound, HandlerReturns, LoopIdle, vars, runtimeVars, Bus!Take, Bus!HandlerReturns, Bus!ExitLoop, Bus!stopVars
<1>2. DownInv' /\ SourceInv' /\ OrderInv'
  BY <1>1 DEF DownInv, SourceInv, OrderInv, Once, Elements
<1>3. Current # Nothing => Current \in Msg
  BY DEF Current, Transport
<1>4. CASE Bus!Take("inbound")
  <2> DEFINE q == queues["inbound"]
             h == handled["inbound"]
  <2>1. /\ Current = Nothing /\ q # <<>>
        /\ Current' = Head(q)
        /\ handled'["inbound"] = Append(h, Head(q)) /\ handled'["outbound"] = handled["outbound"]
    BY <1>4 DEF Bus!Take, Current, Transport
  <2>2. q \in Seq(Msg) /\ h \in Seq(Msg) /\ accepted["inbound"] = h \o q
    BY DEF Transport
  <2>3. Head(q) \in Msg /\ Head(q) \in Elements(accepted["inbound"])
    BY <2>1, <2>2, HeadOfRest
  <2>4. Head(q) \in Msg \ FormMsg
    BY <2>3 DEF OrderInv
  <2>5. /\ Append(h, Head(q)) # <<>>
        /\ Append(h, Head(q))[Len(Append(h, Head(q)))] = Head(q)
        /\ Elements(h) \subseteq Elements(Append(h, Head(q)))
    BY <2>2, <2>3, ElementsAppend
  <2>6. \A w \in Worker : pc[w] # "idle" => cur[w] \in Msg
    BY DEF LoopInv, WorkerInv, TypeOK
  <2>7. pc[Dispatcher] = "idle" /\ sending[Dispatcher] = Nothing
    BY <2>1, <2>6, RuntimeAssumption DEF TurnInv
  <2>8. TurnInv'
    <3>1. Current' # Nothing =>
            /\ Current' \in Msg \ FormMsg
            /\ handled'["inbound"] # <<>>
            /\ handled'["inbound"][Len(handled'["inbound"])] = Current'
      BY <2>1, <2>4, <2>5
    <3> QED
      BY <1>1, <2>7, <3>1 DEF TurnInv
  <2>9. AnswerInv'
    BY <1>1, <2>1, <2>5 DEF AnswerInv
  <2> QED
    BY <1>2, <2>8, <2>9
<1>5. CASE HandlerReturns
  <2>1. Current' = Nothing /\ handled' = handled /\ Current # Nothing
    BY <1>5 DEF HandlerReturns, Bus!HandlerReturns, Current, Transport
  <2>2. pc[Dispatcher] = "idle" /\ (Current \notin Command \/ Current \in commanded)
    BY <1>5, RuntimeAssumption DEF HandlerReturns, TurnInv, AnswerInv
  <2>3. sending[Dispatcher] = Nothing
    BY <2>2, RuntimeAssumption DEF TurnInv
  <2>4. TurnInv'
    BY <1>1, <2>1, <2>2, <2>3 DEF TurnInv
  <2>5. AnswerInv'
    BY <1>1, <2>1 DEF AnswerInv, Elements
  <2> QED
    BY <1>2, <2>4, <2>5
<1>6. CASE Bus!ExitLoop("inbound")
  <2>1. UNCHANGED <<handling, handled>>
    BY <1>6 DEF Bus!ExitLoop
  <2> QED
    BY <1>1, <1>2, <2>1 DEF TurnInv, AnswerInv, Current, Elements
<1> QED
  BY <1>4, <1>5, <1>6 DEF TakeInbound

\* A message the channel hands over is new to the topic, and not answered yet.
LEMMA SourceSends ==
  ASSUME AgentInv, SourceSend
  PROVE  RuntimeInv'
<1> USE DEF AgentInv, RuntimeInv
<1> DEFINE in == accepted["inbound"]
           out == accepted["outbound"]
<1>1. PICK m \in Msg \ FormMsg : sending[Source] = <<"inbound", m>> /\ m \notin Elements(in)
  BY DEF SourceSend, Bus!Send, SourceInv
<1>2. /\ UNCHANGED <<pc, cur, status, replies, refused, shutdown>>
      /\ UNCHANGED <<phase, deadline, stopped, stopResult, closed, commanded, crashed, handling, handled>>
      /\ sending' = [sending EXCEPT ![Source] = Nothing]
      /\ accepted' = [accepted EXCEPT !["inbound"] = Append(@, m)]
  BY <1>1 DEF SourceSend, LoopIdle, vars, runtimeVars, Bus!Send, Bus!stopVars, Bus!dispatchVars
<1>3. in \in Seq(Msg) /\ out \in Seq(Msg) /\ in' = Append(in, m) /\ out' = out
  BY <1>2 DEF Transport
<1>4. DownInv' /\ SourceInv'
  BY <1>2 DEF DownInv, SourceInv, Transport
<1>5. TurnInv'
  BY <1>2, RuntimeAssumption DEF TurnInv, Current, Transport
<1>6. AnswerInv'
  BY <1>2, <1>3 DEF AnswerInv, Elements
<1>7. m \notin Elements(out)
  <2>1. /\ handled["inbound"] \in Seq(Msg) /\ queues["inbound"] \in Seq(Msg)
        /\ in = handled["inbound"] \o queues["inbound"]
    BY DEF Transport
  <2>2. Elements(handled["inbound"]) \subseteq Elements(in)
    BY <2>1, ElementsPrefix
  <2> QED
    BY <1>1, <2>2 DEF AnswerInv
<1>8. OrderInv'
  <2>1. Once(Append(in, m)) /\ Elements(Append(in, m)) \subseteq Msg \ FormMsg
    BY <1>1, <1>3, OnceAppend, ElementsAppend DEF OrderInv
  <2>2. ASSUME NEW i \in DOMAIN Append(in, m), NEW j \in DOMAIN Append(in, m), NEW k \in DOMAIN out, NEW l \in DOMAIN out,
               Append(in, m)[i] = out[k], Append(in, m)[j] = out[l], i < j
        PROVE  k < l
    <3>1. out[k] # m /\ out[l] # m
      BY <1>7 DEF Elements
    <3>2. i \in DOMAIN in /\ j \in DOMAIN in /\ in[i] = out[k] /\ in[j] = out[l]
      <4> HIDE DEF in, out
      <4> QED
        BY <1>3, <2>2, <3>1, ElementsAppend
    <3> QED
      BY <2>2, <3>2 DEF OrderInv
  <2>3. Once(out) /\ in' = Append(in, m) /\ out' = out
    BY <1>3 DEF OrderInv
  <2> HIDE DEF in, out
  <2>4. /\ Once(in') /\ Once(out')
        /\ Elements(in') \subseteq Msg \ FormMsg
        /\ \A i, j \in DOMAIN in', k, l \in DOMAIN out' :
             in'[i] = out'[k] /\ in'[j] = out'[l] /\ i < j => k < l
    BY <2>1, <2>2, <2>3
  <2> QED
    BY <2>4 DEF OrderInv, in, out
<1> QED
  BY <1>4, <1>5, <1>6, <1>8

\* An answer keeps the order: one to a form is the answer to no message of the
\* topic, any other is the answer to the message the dispatch goroutine took
\* last, after all those that were answered before.
LEMMA AnswerInOrder ==
  ASSUME AgentInv, NEW m \in Msg, m \notin Elements(accepted["outbound"]),
         m \in FormMsg \/ m = Current,
         accepted' = [accepted EXCEPT !["outbound"] = Append(@, m)]
  PROVE  OrderInv'
<1> USE DEF AgentInv, RuntimeInv
<1> DEFINE in == accepted["inbound"]
           out == accepted["outbound"]
           h == handled["inbound"]
           new == Append(out, m)
<1>1. in \in Seq(Msg) /\ out \in Seq(Msg) /\ h \in Seq(Msg) /\ queues["inbound"] \in Seq(Msg)
  BY DEF Transport
<1>2. in' = in /\ out' = new
  BY DEF Transport
<1>3. \A i \in DOMAIN h : i \in DOMAIN in /\ in[i] = h[i]
  <2>1. in = h \o queues["inbound"]
    BY DEF Transport
  <2>2. PICK s, rest : s = h /\ rest = queues["inbound"]
    OBVIOUS
  <2>3. s \in Seq(Msg) /\ rest \in Seq(Msg)
    BY <1>1, <2>2
  <2>4. \A i \in DOMAIN s : i \in DOMAIN (s \o rest) /\ (s \o rest)[i] = s[i]
    BY ONLY <2>3, ElementsPrefix
  <2>5. in = s \o rest
    BY <2>1, <2>2
  <2> QED
    BY <2>2, <2>4, <2>5
<1>4. Once(in) /\ Once(out) /\ Elements(in) \subseteq Msg \ FormMsg
  BY DEF OrderInv
<1>5. Once(new)
  BY <1>1, <1>4, OnceAppend
<1>6. ASSUME NEW i \in DOMAIN in, NEW j \in DOMAIN in, NEW k \in DOMAIN new, NEW l \in DOMAIN new,
             in[i] = new[k], in[j] = new[l], i < j
      PROVE  k < l
  <2>1. CASE k \in DOMAIN out /\ l \in DOMAIN out
    <3>1. in[i] = out[k] /\ in[j] = out[l]
      BY <1>1, <1>6, <2>1, ElementsAppend
    <3> QED
      BY <1>6, <2>1, <3>1 DEF OrderInv
  <2>2. CASE l \notin DOMAIN out
    <3>1. l = Len(out) + 1 /\ k \in 1..(Len(out) + 1) /\ in[j] = m
      BY <1>1, <1>6, <2>2, ElementsAppend
    <3>2. k # l
      <4> SUFFICES ASSUME k = l PROVE FALSE
        OBVIOUS
      <4>1. in[i] = in[j]
        BY <1>6
      <4>2. i = j
        BY <1>4, <1>6, <4>1 DEF Once
      <4>3. i \in Int
        BY <1>1, <1>6
      <4> QED
        BY <1>6, <4>2, <4>3
    <3> QED
      BY <1>1, <3>1, <3>2
  <2>3. CASE k \notin DOMAIN out /\ l \in DOMAIN out
    <3>1. in[i] = m /\ in[j] = out[l]
      BY <1>1, <1>6, <2>3, ElementsAppend
    <3>2. m \notin FormMsg /\ m = Current
      BY <1>4, <1>6, <3>1 DEF Elements
    <3>3. Len(h) \in DOMAIN h /\ h[Len(h)] = m
      BY <1>1, <3>2, RuntimeAssumption DEF TurnInv
    <3>4. i = Len(h)
      BY <1>3, <1>4, <1>6, <3>1, <3>3 DEF Once
    <3>5. in[j] \in Elements(h)
      BY <1>4, <1>6, <2>3, <3>1 DEF AnswerInv, Elements
    <3>6. PICK x \in DOMAIN h : in[j] = h[x]
      BY <3>5 DEF Elements
    <3>7. x = j /\ x =< Len(h)
      BY <1>1, <1>3, <1>4, <1>6, <3>6 DEF Once
    <3> QED
      BY <1>1, <1>6, <3>4, <3>7
  <2> QED
    BY <2>1, <2>2, <2>3
<1> HIDE DEF in, out, new
<1>7. /\ Once(in') /\ Once(out')
      /\ Elements(in') \subseteq Msg \ FormMsg
      /\ \A i, j \in DOMAIN in', k, l \in DOMAIN out' :
           in'[i] = out'[k] /\ in'[j] = out'[l] /\ i < j => k < l
  BY <1>2, <1>4, <1>5, <1>6
<1> QED
  BY <1>7 DEF OrderInv, in, out

\* The answer of a turn is sent, or refused by a bus that was stopped or closed
\* under it; then the loop has not drained in time.
LEMMA TurnAnswers ==
  ASSUME AgentInv, NEW w \in Worker, Reply_Send(w) \/ Reply_Refused(w) \/ Reply_Panics(w)
  PROVE  RuntimeInv'
<1> USE DEF AgentInv, RuntimeInv
<1>1. /\ pc[w] = "reply" /\ pc' = [pc EXCEPT ![w] = "restore"]
      /\ UNCHANGED <<cur, status, shutdown>>
      /\ UNCHANGED <<phase, deadline, stopped, stopResult, closed, commanded, handling, handled>>
      /\ sending' = [sending EXCEPT ![w] = Nothing]
  BY DEF Reply_Send, Reply_Refused, Reply_Panics, ReplySent, ReplyRefused, Goto, BusIdle, busVars, runtimeVars,
     shutdownVars, Bus!Send, Bus!SendPanics, Bus!stopVars, Bus!dispatchVars, Transport
<1>2. /\ cur[w] \in Msg /\ cur[w] \notin Command /\ (cur[w] \in FormMsg \/ cur[w] = Current)
      /\ replies[cur[w]] = 0
  <2>1. cur[w] \in Msg
    BY <1>1 DEF LoopInv, TypeOK, WorkerInv
  <2>2. Answers(cur[w]) = 0
    BY <1>1 DEF LoopInv, WorkerInv, TurnPC
  <2>3. replies[cur[w]] = 0
    <3>1. replies[cur[w]] \in Nat
      BY <2>1 DEF LoopInv, TypeOK
    <3> QED
      BY <2>2, <3>1 DEF Answers
  <2>4. IF w = Dispatcher THEN cur[w] = Current /\ Current \notin Command ELSE cur[w] \in FormMsg
    BY <1>1 DEF TurnInv
  <2> QED
    BY <2>1, <2>3, <2>4, RuntimeAssumption
<1>3. sending[w] # Nothing => sending[w] = <<"outbound", cur[w]>>
  BY <1>1, <1>2, RuntimeAssumption DEF TurnInv
<1>4. SourceInv' /\ TurnInv'
  <2>1. sending'[Source] = sending[Source]
    BY <1>1, RuntimeAssumption DEF Transport
  <2>2. accepted'["inbound"] = accepted["inbound"]
    BY <1>3 DEF Reply_Send, Reply_Refused, Reply_Panics, BusIdle, busVars, Bus!Send, Bus!SendPanics, Transport
  <2>3. SourceInv'
    BY <2>1, <2>2 DEF SourceInv, Elements
  <2>4. TurnInv'
    BY <1>1 DEF TurnInv, Current, Transport, LoopInv, TypeOK
  <2> QED
    BY <2>3, <2>4
<1>5. CASE Reply_Send(w)
  <2>1. /\ accepted' = [accepted EXCEPT !["outbound"] = Append(@, cur[w])]
        /\ replies' = [replies EXCEPT ![cur[w]] = @ + 1]
        /\ UNCHANGED <<refused, crashed>>
    <3>1. sending[w] # Nothing
      BY <1>5 DEF Reply_Send, Bus!Send
    <3>2. sending[w][1] = "outbound" /\ sending[w][2] = cur[w]
      BY <1>3, <3>1
    <3>3. accepted' = [accepted EXCEPT !["outbound"] = Append(@, cur[w])]
      BY <1>5, <3>2 DEF Reply_Send, Bus!Send
    <3> QED
      BY <1>5, <3>3 DEF Reply_Send, ReplySent, runtimeVars
  <2>2. cur[w] \notin Elements(accepted["outbound"])
    BY <1>2 DEF AnswerInv
  <2>3. DownInv'
    <3>1. sending[Source] = sending'[Source]
      BY <1>1, RuntimeAssumption DEF Transport
    <3> QED
      BY <1>1, <2>1, <3>1 DEF DownInv
  <2>4. OrderInv'
    BY <1>2, <2>1, <2>2, AnswerInOrder
  <2>5. AnswerInv'
    <3>1. Elements(accepted["outbound"])' = Elements(accepted["outbound"]) \cup {cur[w]}
      BY <1>2, <2>1, ElementsAppend DEF Transport
    <3>2. replies'[cur[w]] = 1 /\ \A m \in Msg \ {cur[w]} : replies'[m] = replies[m]
      BY <1>2, <2>1 DEF LoopInv, TypeOK
    <3>3. cur[w] \in FormMsg \/ cur[w] \in Elements(handled["inbound"])
      <4>1. CASE cur[w] = Current
        <5>1. handled["inbound"] \in Seq(Msg) /\ handled["inbound"] # <<>>
              /\ handled["inbound"][Len(handled["inbound"])] = cur[w]
          BY <1>2, <4>1, RuntimeAssumption DEF TurnInv, Transport
        <5> QED
          BY <5>1, LastIsElement
      <4> QED
        BY <1>2, <4>1
    <3>4. handled["inbound"]' = handled["inbound"]
      BY <1>1
    <3>5. \A m \in Elements(accepted["outbound"])' : m \in commanded' \/ replies'[m] = 1
      <4>1. Elements(accepted["outbound"]) \subseteq Msg
        BY DEF Transport, Elements
      <4> QED
        BY <1>1, <1>2, <3>1, <3>2, <4>1 DEF AnswerInv
    <3>6. \A m \in Msg : replies'[m] = 1 => m \in Elements(accepted["outbound"])'
      BY <3>1, <3>2 DEF AnswerInv
    <3>7. Elements(accepted["outbound"])' \subseteq Elements(handled["inbound"])' \cup FormMsg
      BY <3>1, <3>3, <3>4 DEF AnswerInv, Elements
    <3> QED
      BY <1>1, <3>5, <3>6, <3>7 DEF AnswerInv
  <2> QED
    BY <1>4, <2>3, <2>4, <2>5
<1>6. CASE Reply_Refused(w) \/ Reply_Panics(w)
  <2>1. /\ UNCHANGED <<accepted, replies>>
        /\ stopped
    <3>1. CASE Reply_Refused(w)
      BY <3>1 DEF Reply_Refused, ReplyRefused, BusIdle, busVars
    <3>2. CASE Reply_Panics(w)
      <4>1. UNCHANGED <<accepted, replies>>
        BY <3>2 DEF Reply_Panics, ReplyRefused, Bus!SendPanics
      <4>2. closed # {}
        BY <3>2 DEF Reply_Panics, Bus!SendPanics
      <4> QED
        BY <4>1, <4>2 DEF DownInv
    <3> QED
      BY <1>6, <3>1, <3>2
  <2>2. shutdown = "expired"
    <3>1. w \in Holders
      BY <1>1 DEF Holders, SlotPC, TurnPC
    <3> QED
      BY <2>1, <3>1, NoHolders DEF DownInv
  <2>3. DownInv'
    <3>1. sending[Source] = sending'[Source]
      BY <1>1, RuntimeAssumption DEF Transport
    <3> QED
      BY <1>1, <2>2, <3>1 DEF DownInv
  <2>4. AnswerInv' /\ OrderInv'
    BY <1>1, <2>1 DEF AnswerInv, OrderInv, Elements, Once
  <2> QED
    BY <1>4, <2>3, <2>4
<1> QED
  BY <1>5, <1>6

\* A command is answered at most once too, whether the send succeeds or not.
LEMMA CommandAnswers ==
  ASSUME AgentInv, Command_Publish
  PROVE  RuntimeInv'
<1> USE DEF AgentInv, RuntimeInv
<1>1. /\ UNCHANGED <<pc, cur, status, replies, refused, shutdown>>
      /\ UNCHANGED <<phase, deadline, stopped, stopResult, closed, crashed, handling, handled>>
      /\ sending' = [sending EXCEPT ![Dispatcher] = Nothing]
      /\ commanded' = commanded \cup {Current}
  BY RuntimeAssumption DEF Command_Publish, CommandDone, LoopIdle, vars, BusIdle, busVars, Bus!Send, Bus!SendPanics,
     Bus!stopVars, Bus!dispatchVars, Transport
<1>2. /\ Current \in Msg \ FormMsg /\ Current \in Command \ commanded
      /\ Dispatcher \in Worker /\ Dispatcher # Source
      /\ replies[Current] = 0
  <2>1. Current \in Command \ commanded
    BY DEF Command_Publish
  <2>2. Current \in Msg \ FormMsg /\ status[Current] = "new"
    BY <2>1, RuntimeAssumption DEF AnswerInv
  <2> QED
    BY <2>1, <2>2, RuntimeAssumption DEF LoopInv, TypeOK, MessageInv, Answers
<1>3. sending[Dispatcher] # Nothing => sending[Dispatcher] = <<"outbound", Current>>
  BY <1>2 DEF TurnInv
<1>4. sending'[Source] = sending[Source] /\ accepted'["inbound"] = accepted["inbound"]
  BY <1>1, <1>2, <1>3 DEF Command_Publish, BusIdle, busVars, Bus!Send, Bus!SendPanics, Transport
<1>5. DownInv' /\ SourceInv'
  BY <1>1, <1>4 DEF DownInv, SourceInv, Elements
<1>6. TurnInv'
  BY <1>1, <1>2 DEF TurnInv, Current, Transport
<1>7. Current \in Elements(handled["inbound"])
  <2>1. handled["inbound"] \in Seq(Msg) /\ handled["inbound"] # <<>>
        /\ handled["inbound"][Len(handled["inbound"])] = Current
    BY <1>2, RuntimeAssumption DEF TurnInv, Transport
  <2> QED
    BY <2>1, LastIsElement
<1>8. CASE Bus!Send(Dispatcher)
  <2>1. accepted' = [accepted EXCEPT !["outbound"] = Append(@, Current)]
    <3>1. sending[Dispatcher] # Nothing
      BY <1>8 DEF Bus!Send
    <3>2. sending[Dispatcher][1] = "outbound" /\ sending[Dispatcher][2] = Current
      BY <1>3, <3>1
    <3> QED
      BY <1>8, <3>2 DEF Bus!Send
  <2>2. Current \notin Elements(accepted["outbound"])
    BY <1>2 DEF AnswerInv
  <2>3. OrderInv'
    BY <1>2, <2>1, <2>2, AnswerInOrder
  <2>4. Elements(accepted["outbound"])' = Elements(accepted["outbound"]) \cup {Current}
    BY <1>2, <2>1, ElementsAppend DEF Transport
  <2>5. AnswerInv'
    <3>1. Elements(handled["inbound"])' = Elements(handled["inbound"])
      BY <1>1 DEF Elements
    <3> QED
      BY <1>1, <1>2, <1>7, <2>4, <3>1 DEF AnswerInv
  <2> QED
    BY <1>5, <1>6, <2>3, <2>5
<1>9. CASE UNCHANGED accepted
  <2>1. AnswerInv' /\ OrderInv'
    BY <1>1, <1>2, <1>9 DEF AnswerInv, OrderInv, Elements, Once
  <2> QED
    BY <1>5, <1>6, <2>1
<1> QED
  BY <1>8, <1>9 DEF Command_Publish, BusIdle, busVars, Bus!SendPanics

-----------------------------------------------------------------------------
(* Theorems about the runtime.                                             *)

\* The invariant of loop, bus and wiring together is inductive.
LEMMA AgentStep ==
  ASSUME AgentInv, LoopInv', [RuntimeNext]_allVars
  PROVE  AgentInv'
<1>1. RuntimeInv'
  <2>1. CASE UNCHANGED allVars
    BY <2>1 DEF allVars, vars, busVars, runtimeVars, AgentInv, RuntimeInv, DownInv, SourceInv, TurnInv, AnswerInv,
       OrderInv, Once, Elements, Current
  <2>2. CASE RuntimeNext
    BY <2>2, LoopRuns, HandleCalled, QuietStep, PublishBegins, SourcePanicsStep, InboundMoves, SourceSends, TurnAnswers, CommandAnswers
       DEF RuntimeNext, Inbound, Turn, ShutdownStep
  <2> QED
    BY <2>1, <2>2
<1> QED
  BY <1>1, TransportStep DEF AgentInv

\* AgentInv holds in every state of the running agent.
THEOREM AgentInvariant == RuntimeSpec => []AgentInv
<1>1. AgentInv /\ LoopInv' /\ [RuntimeNext]_allVars => AgentInv'
  BY AgentStep
<1> QED
  BY InitAgent, <1>1, LoopInRuntime, PTL DEF RuntimeSpec

\* The transport keeps what it promises whatever the loop, the commands and
\* the channels publish, and how far Shutdown has got.
THEOREM RuntimeImplementsBus == RuntimeSpec => Bus!BusSpec
<1>1. RuntimeInit => Bus!BusInit
  BY DEF RuntimeInit
<1>2. AgentInv /\ [RuntimeNext]_allVars => [Bus!BusNext]_(Bus!busVars)
  BY StepOfBus DEF busVars, Bus!busVars
<1> QED
  BY <1>1, <1>2, AgentInvariant, PTL DEF RuntimeSpec, Bus!BusSpec

\* What was proved of the loop and of the transport, each by itself, holds of
\* the agent that is made of them: turns of a chat exclude each other, a message
\* is answered once, a drained loop is quiet and stays so, and the transport
\* delivers all it took, in order, and has drained when its Stop returned nil.
THEOREM RuntimeKeepsPromises ==
  RuntimeSpec => /\ ImplementsExecutor
                 /\ [](SessionMutex /\ AnsweredOnce /\ DrainedIsQuiet)
                 /\ [](Bus!FifoDelivery /\ Bus!StopDrains)
<1>1. AgentInv => Bus!FifoDelivery /\ Bus!StopDrains
  <2> SUFFICES ASSUME AgentInv PROVE Bus!FifoDelivery /\ Bus!StopDrains
    OBVIOUS
  <2>1. Bus!FifoDelivery
    BY DEF AgentInv, Transport, Bus!FifoDelivery
  <2>2. BusProofs!StopDrains
    BY RuntimeBus, BusProofs!DoneIsDrained DEF AgentInv, Transport
  <2> QED
    BY <2>1, <2>2 DEF Bus!StopDrains, BusProofs!StopDrains
<1> QED
  BY <1>1, AgentInvariant, RuntimeImplementsLoop, LoopImplementsExecutor, SessionsExclude, MessagesAnsweredOnce,
     DrainedStaysQuiet, PTL

\* A message is at one place of a topic that has it once.
LEMMA PositionOfOnce ==
  ASSUME NEW s, Once(s), NEW i \in DOMAIN s
  PROVE  Position(s[i], s) = i
  BY DEF Once, Position

\* Answers leave in the order in which their messages came, whatever turns,
\* commands and forms are under way.
THEOREM AnswersKeepOrder == RuntimeSpec => []AnswersInOrder
<1>1. AgentInv => AnswersInOrder
  <2> SUFFICES ASSUME AgentInv PROVE AnswersInOrder
    OBVIOUS
  <2> DEFINE in == accepted["inbound"]
             out == accepted["outbound"]
  <2>1. ASSUME NEW m \in Elements(in) \cap Elements(out), NEW n \in Elements(in) \cap Elements(out),
               Position(m, in) < Position(n, in)
        PROVE  Position(m, out) < Position(n, out)
    <3>1. PICK i \in DOMAIN in, j \in DOMAIN in, k \in DOMAIN out, l \in DOMAIN out :
            m = in[i] /\ n = in[j] /\ m = out[k] /\ n = out[l]
      BY <2>1 DEF Elements
    <3>2. Once(in) /\ Once(out)
      BY DEF AgentInv, RuntimeInv, OrderInv
    <3>3. Position(m, in) = i /\ Position(n, in) = j /\ Position(m, out) = k /\ Position(n, out) = l
      BY <3>1, <3>2, PositionOfOnce
    <3> QED
      BY <2>1, <3>1, <3>3 DEF AgentInv, RuntimeInv, OrderInv
  <2> QED
    BY <2>1 DEF AnswersInOrder
<1> QED
  BY <1>1, AgentInvariant, PTL

\* A shutdown that keeps its deadline loses no answer and is not taken down by
\* a send on a closed channel.
THEOREM ExitIsClean == RuntimeSpec => []CleanExit
<1>1. AgentInv => CleanExit
  <2> SUFFICES ASSUME AgentInv PROVE CleanExit
    OBVIOUS
  <2> USE DEF AgentInv, RuntimeInv
  <2>1. CrashOnlyPastDeadline
    BY DEF CrashOnlyPastDeadline, DownInv
  <2>2. ASSUME phase = "stopped", shutdown = "drained", stopResult = "done"
        PROVE  /\ Holders = {}
               /\ \A m \in Msg : replies[m] = 1 => m \in Elements(handled["outbound"])
               /\ refused = {}
    <3>1. Holders = {}
      BY <2>2, NoHolders
    <3>2. handled = accepted
      BY <2>2, RuntimeBus, BusProofs!DoneIsDrained DEF Transport, BusProofs!StopDrains
    <3>3. refused = {}
      BY <2>2 DEF DownInv
    <3> QED
      BY <3>1, <3>2, <3>3 DEF AnswerInv
  <2> QED
    BY <2>1, <2>2 DEF CleanExit
<1> QED
  BY <1>1, AgentInvariant, PTL

\* What the channel plugin is given answers something that came in, or a form,
\* and no two answers are to the same message.
THEOREM NoAnswerIsSpurious == RuntimeSpec => []NoSpuriousAnswer
<1>1. AgentInv => NoSpuriousAnswer
  <2> SUFFICES ASSUME AgentInv PROVE NoSpuriousAnswer
    OBVIOUS
  <2> USE DEF AgentInv, RuntimeInv
  <2>1. \A t \in {"inbound", "outbound"} :
          /\ \A i \in DOMAIN handled[t] : i \in DOMAIN accepted[t] /\ accepted[t][i] = handled[t][i]
          /\ Elements(handled[t]) \subseteq Elements(accepted[t])
    <3> TAKE t \in {"inbound", "outbound"}
    <3>1. handled[t] \in Seq(Msg) /\ queues[t] \in Seq(Msg) /\ accepted[t] = handled[t] \o queues[t]
      BY DEF Transport
    <3>2. /\ \A i \in DOMAIN handled[t] :
               i \in DOMAIN (handled[t] \o queues[t]) /\ (handled[t] \o queues[t])[i] = handled[t][i]
          /\ Elements(handled[t]) \subseteq Elements(handled[t] \o queues[t])
      BY <3>1, ElementsPrefix
    <3> QED
      BY <3>1, <3>2
  <2>2. Elements(handled["outbound"]) \subseteq Elements(accepted["inbound"]) \cup FormMsg
    BY <2>1 DEF AnswerInv
  <2>3. \A i, j \in DOMAIN handled["outbound"] : handled["outbound"][i] = handled["outbound"][j] => i = j
    BY <2>1 DEF OrderInv, Once
  <2> QED
    BY <2>2, <2>3 DEF NoSpuriousAnswer
<1> QED
  BY <1>1, AgentInvariant, PTL

\* Nothing comes in once the channels were told to stop and have in time.
THEOREM IngressStaysClosed == RuntimeSpec => IngressClosed
<1>1. ASSUME AgentInv, [RuntimeNext]_allVars, phase \in {"drainLoop", "stopBus"}, ~deadline
      PROVE  accepted'["inbound"] = accepted["inbound"]
  <2> USE DEF AgentInv, RuntimeInv
  <2>1. sending[Source] = Nothing
    BY <1>1 DEF DownInv
  <2>2. ASSUME NEW w \in Worker, Bus!Send(w) PROVE accepted'["inbound"] = accepted["inbound"]
    <3>1. sending[w][1] = "outbound"
      BY <1>1, <2>2 DEF Bus!Send, TurnInv
    <3> QED
      BY <1>1, <2>2, <3>1 DEF Bus!Send, Transport
  <2>3. CASE Bus!BusNext
    BY <1>1, <2>1, <2>2, <2>3 DEF Bus!BusNext, Bus!Publish, Bus!CheckStopped, Bus!Send, Bus!SendCancelled, Bus!SendPanics,
       Bus!Dispatch, Bus!Take, Bus!HandlerReturns, Bus!ExitLoop, Bus!CloseTopic, Bus!BeginStop, Bus!StopDone, Bus!StopExpires
  <2>4. CASE UNCHANGED busVars
    BY <2>4 DEF busVars
  <2> QED
    BY <1>1, <2>3, <2>4, StepOfBus
<1>2. AgentInv /\ [RuntimeNext]_allVars =>
        [(phase \in {"drainLoop", "stopBus"} /\ ~deadline) => accepted'["inbound"] = accepted["inbound"]]_allVars
  BY <1>1
<1> QED
  BY <1>2, AgentInvariant, PTL DEF RuntimeSpec, IngressClosed
=============================================================================
