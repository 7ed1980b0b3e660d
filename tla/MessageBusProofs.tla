-------------------------- MODULE MessageBusProofs --------------------------
(***************************************************************************)
(* Proofs about MessageBus, for any topics, publishers, messages and queue *)
(* size: what a topic takes is delivered once and in order, and a Stop     *)
(* that returns nil has drained every topic.                               *)
(***************************************************************************)
EXTENDS MessageBus, TLAPS

\* A dispatch goroutine that ended left nothing behind, and Stop reports
\* success only when all of them ended.
ExitedInv ==
  /\ exited \subseteq closed
  /\ \A t \in exited : queues[t] = <<>> /\ handling[t] = Nothing
  /\ stopResult = "done" => exited = Topic

\* The inductive invariant of the bus.
BusInv == BusTypeOK /\ FifoDelivery /\ ExitedInv

-----------------------------------------------------------------------------
(* Sequences.                                                              *)

\* Moving the head of the second part to the end of the first changes nothing.
LEMMA MoveHead ==
  ASSUME NEW S, NEW s \in Seq(S), NEW q \in Seq(S), q # <<>>
  PROVE  /\ Head(q) \in S
         /\ Tail(q) \in Seq(S)
         /\ Len(Tail(q)) = Len(q) - 1
         /\ Append(s, Head(q)) \o Tail(q) = s \o q
<1>1. Head(q) \in S /\ Tail(q) \in Seq(S) /\ Len(Tail(q)) = Len(q) - 1
  OBVIOUS
<1>2. \A i \in 1..Len(s) + Len(q) : (Append(s, Head(q)) \o Tail(q))[i] = (s \o q)[i]
  BY <1>1
<1>3. Len(Append(s, Head(q)) \o Tail(q)) = Len(s) + Len(q) /\ Len(s \o q) = Len(s) + Len(q)
  BY <1>1
<1>4. Append(s, Head(q)) \o Tail(q) \in Seq(S) /\ s \o q \in Seq(S)
  BY <1>1
<1> QED
  BY <1>1, <1>2, <1>3, <1>4

-----------------------------------------------------------------------------
(* Steps.                                                                  *)

\* The invariant holds before anything was published.
LEMMA InitBusInv == BusInit => BusInv
<1> SUFFICES ASSUME BusInit PROVE BusInv
  OBVIOUS
<1> USE BusAssumption DEF BusInit
<1>1. BusTypeOK
  <2>1. /\ queues \in [Topic -> Seq(Msg)]
        /\ accepted \in [Topic -> Seq(Msg)]
        /\ handled \in [Topic -> Seq(Msg)]
        /\ \A t \in Topic : Len(queues[t]) =< QueueSize
    BY SMT
  <2>2. /\ sending \in [Publisher -> (Topic \X Msg) \cup {Nothing}]
        /\ handling \in [Topic -> Msg \cup {Nothing}]
    BY Zenon
  <2> QED
    BY <2>1, <2>2, Zenon DEF BusTypeOK
<1>2. FifoDelivery
  <2>1. <<>> = <<>> \o <<>>
    OBVIOUS
  <2>2. \A t \in Topic : accepted[t] = <<>> /\ handled[t] = <<>> /\ queues[t] = <<>>
    OBVIOUS
  <2> QED
    BY <2>1, <2>2, Zenon DEF FifoDelivery
<1>3. ExitedInv
  BY DEF ExitedInv
<1> QED
  BY <1>1, <1>2, <1>3 DEF BusInv

\* A publisher's step keeps the invariant; only Send adds to a history.
LEMMA PublishStep ==
  ASSUME BusInv, NEW p \in Publisher, Publish(p)
  PROVE  BusInv'
<1> USE DEF BusInv, BusTypeOK, FifoDelivery, ExitedInv, stopVars, dispatchVars
<1>1. ASSUME NEW t \in Topic, NEW m \in Msg, CheckStopped(p, t, m) PROVE BusInv'
  BY <1>1 DEF CheckStopped
<1>2. CASE Send(p)
  <2> DEFINE t == sending[p][1]
             m == sending[p][2]
  <2>1. t \in Topic /\ m \in Msg
    BY <1>2 DEF Send
  <2>2. /\ t \notin closed /\ Len(queues[t]) < QueueSize
        /\ queues' = [queues EXCEPT ![t] = Append(@, m)]
        /\ accepted' = [accepted EXCEPT ![t] = Append(@, m)]
        /\ UNCHANGED <<stopVars, dispatchVars>>
    BY <1>2 DEF Send
  <2>3. BusTypeOK'
    <3>1. sending' \in [Publisher -> (Topic \X Msg) \cup {Nothing}] /\ panicked' \in SUBSET Publisher
      BY <1>2 DEF Send
    <3>2. queues' \in [Topic -> Seq(Msg)] /\ accepted' \in [Topic -> Seq(Msg)]
      BY <2>1, <2>2
    <3>3. \A u \in Topic : Len(queues'[u]) =< QueueSize
      BY <2>1, <2>2, BusAssumption
    <3> QED
      BY <2>2, <3>1, <3>2, <3>3
  <2>4. FifoDelivery'
    <3> HIDE DEF t, m
    <3>0. handled[t] \in Seq(Msg) /\ queues[t] \in Seq(Msg)
      BY <2>1
    <3>1. Append(handled[t] \o queues[t], m) = handled[t] \o Append(queues[t], m)
      <4>1. PICK s, q, e : s = handled[t] /\ q = queues[t] /\ e = m
        OBVIOUS
      <4>2. s \in Seq(Msg) /\ q \in Seq(Msg) /\ e \in Msg
        BY <2>1, <3>0, <4>1
      <4>3. Append(s \o q, e) = s \o Append(q, e)
        BY ONLY <4>2
      <4> QED
        BY <4>1, <4>3
    <3>2. accepted'[t] = handled'[t] \o queues'[t]
      BY <2>1, <2>2, <3>1
    <3>3. \A u \in Topic \ {t} : accepted'[u] = handled'[u] \o queues'[u]
      BY <2>1, <2>2
    <3> QED
      BY <3>2, <3>3
  <2>5. ExitedInv'
    BY <2>1, <2>2
  <2> QED
    BY <2>3, <2>4, <2>5 DEF BusInv
<1>3. CASE SendCancelled(p) \/ SendPanics(p)
  BY <1>3 DEF SendCancelled, SendPanics
<1> QED
  BY <1>1, <1>2, <1>3 DEF Publish

\* A step of a dispatch goroutine keeps the invariant.
LEMMA DispatchStep ==
  ASSUME BusInv, NEW t \in Topic, Dispatch(t)
  PROVE  BusInv'
<1> USE DEF BusInv, BusTypeOK, FifoDelivery, ExitedInv, stopVars
<1>1. CASE Take(t)
  <2>1. /\ t \notin exited /\ queues[t] # <<>>
        /\ handling' = [handling EXCEPT ![t] = Head(queues[t])]
        /\ handled' = [handled EXCEPT ![t] = Append(@, Head(queues[t]))]
        /\ queues' = [queues EXCEPT ![t] = Tail(@)]
        /\ UNCHANGED <<stopVars, sending, panicked, exited, accepted>>
    BY <1>1 DEF Take
  <2>2. /\ Head(queues[t]) \in Msg
        /\ Tail(queues[t]) \in Seq(Msg)
        /\ Len(Tail(queues[t])) = Len(queues[t]) - 1
        /\ Append(handled[t], Head(queues[t])) \o Tail(queues[t]) = handled[t] \o queues[t]
    BY <2>1, MoveHead
  <2>3. BusTypeOK'
    BY <2>1, <2>2, BusAssumption
  <2>4. FifoDelivery'
    BY <2>1, <2>2
  <2>5. ExitedInv'
    BY <2>1
  <2> QED
    BY <2>3, <2>4, <2>5
<1>2. CASE HandlerReturns(t)
  BY <1>2 DEF HandlerReturns
<1>3. CASE ExitLoop(t)
  BY <1>3 DEF ExitLoop
<1> QED
  BY <1>1, <1>2, <1>3 DEF Dispatch

\* A step of Stop keeps the invariant; no step closes a topic before Stop began.
LEMMA StopStep ==
  ASSUME BusInv,
         \/ \E t \in Topic : CloseTopic(t)
         \/ BeginStop \/ StopDone \/ StopExpires
  PROVE  BusInv'
<1> USE DEF BusInv, BusTypeOK, FifoDelivery, ExitedInv, dispatchVars
<1>1. ASSUME NEW t \in Topic, CloseTopic(t) PROVE BusInv'
  BY <1>1 DEF CloseTopic
<1>2. CASE BeginStop
  BY <1>2 DEF BeginStop
<1>3. CASE StopDone \/ StopExpires
  BY <1>3 DEF StopDone, StopExpires
<1> QED
  BY <1>1, <1>2, <1>3

\* A step of the bus, or of something else, keeps the invariant.
LEMMA BusStep ==
  ASSUME BusInv, [BusNext]_busVars
  PROVE  BusInv'
<1>1. CASE BusNext
  BY <1>1, PublishStep, DispatchStep, StopStep DEF BusNext
<1>2. CASE UNCHANGED busVars
  BY <1>2 DEF busVars, BusInv, BusTypeOK, FifoDelivery, ExitedInv
<1> QED
  BY <1>1, <1>2

-----------------------------------------------------------------------------
(* Theorems.                                                               *)

\* BusInv holds in every state the bus can reach.
THEOREM BusInvariant == BusSpec => []BusInv
<1>1. BusInv /\ [BusNext]_busVars => BusInv'
  BY BusStep
<1> QED
  BY InitBusInv, <1>1, PTL DEF BusSpec

\* Every variable of the transport keeps its type, and no buffer outgrows the
\* channel it stands for.
THEOREM BusTypes == BusSpec => []BusTypeOK
<1>1. BusInv => BusTypeOK
  BY DEF BusInv
<1> QED
  BY <1>1, BusInvariant, PTL

\* Delivery on a topic is exactly-once and first in, first out.
THEOREM DeliveryIsFifo == BusSpec => []FifoDelivery
<1>1. BusInv => FifoDelivery
  BY DEF BusInv
<1> QED
  BY <1>1, BusInvariant, PTL

\* Where Stop has returned nil, every dispatch goroutine ended with its queue empty.
LEMMA DoneIsDrained ==
  ASSUME BusInv
  PROVE  StopDrains
<1> SUFFICES ASSUME stopResult = "done"
             PROVE  handled = accepted /\ \A t \in Topic : handling[t] = Nothing
  BY DEF StopDrains
<1>1. \A t \in Topic : queues[t] = <<>> /\ handling[t] = Nothing
  BY DEF BusInv, ExitedInv
<1>2. \A t \in Topic : accepted[t] = handled[t]
  <2> TAKE t \in Topic
  <2>1. accepted[t] = handled[t] \o <<>> /\ handled[t] \in Seq(Msg)
    BY <1>1 DEF BusInv, BusTypeOK, FifoDelivery
  <2> QED
    BY <2>1
<1> QED
  BY <1>1, <1>2 DEF BusInv, BusTypeOK

\* A Stop that returned nil has drained every topic: all that was accepted was
\* handed to its handler, and no handler is at work.
THEOREM StopHasDrained == BusSpec => []StopDrains
  BY DoneIsDrained, BusInvariant, PTL

\* A topic whose channel was closed takes no message any more.
THEOREM ClosedIsClosed == BusSpec => ClosedTakesNothing
<1>1. BusTypeOK /\ [BusNext]_busVars => [\A t \in closed : accepted'[t] = accepted[t]]_busVars
  <2> SUFFICES ASSUME BusTypeOK, BusNext, NEW t \in closed PROVE accepted'[t] = accepted[t]
    OBVIOUS
  <2> USE DEF BusTypeOK
  <2>1. ASSUME NEW p \in Publisher, Send(p) PROVE accepted'[t] = accepted[t]
    BY <2>1 DEF Send
  <2>2. ASSUME NEW p \in Publisher, NEW u \in Topic, NEW m \in Msg,
               CheckStopped(p, u, m)
        PROVE  accepted'[t] = accepted[t]
    BY <2>2 DEF CheckStopped
  <2>3. ASSUME NEW u \in Topic, Dispatch(u) \/ CloseTopic(u) PROVE accepted'[t] = accepted[t]
    BY <2>3 DEF Dispatch, Take, HandlerReturns, ExitLoop, CloseTopic
  <2>4. CASE BeginStop \/ StopDone \/ StopExpires
    BY <2>4 DEF BeginStop, StopDone, StopExpires
  <2>5. ASSUME NEW p \in Publisher, SendCancelled(p) \/ SendPanics(p)
        PROVE  accepted'[t] = accepted[t]
    BY <2>5 DEF SendCancelled, SendPanics
  <2> QED
    BY <2>1, <2>2, <2>3, <2>4, <2>5 DEF BusNext, Publish
<1> QED
  BY <1>1, BusTypes, PTL DEF BusSpec, ClosedTakesNothing
=============================================================================
