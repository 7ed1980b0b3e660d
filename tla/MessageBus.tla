----------------------------- MODULE MessageBus -----------------------------
(***************************************************************************)
(* The in-memory transport, pkg/plugins/transport/memory/plugin.go: one    *)
(* bounded channel and one dispatch goroutine per topic.  Publish first    *)
(* loads the stopped flag and only then sends, so a publisher that found   *)
(* the bus running may still be about to send, or be blocked in the send,  *)
(* when Stop closes the channels.                                          *)
(*                                                                         *)
(* The runtime subscribes one handler to each topic.  Whether it returns   *)
(* nil, an error or panics is only logged by the dispatch goroutine, so a  *)
(* delivery is a begin and an end.                                         *)
(***************************************************************************)
EXTENDS Integers, Sequences

CONSTANTS
  Topic,       \* entity.TopicInbound, entity.TopicOutbound
  Publisher,   \* goroutines that publish
  Msg,         \* messages
  QueueSize,   \* cfg.QueueSize
  Nothing      \* no message, no send under way

ASSUME BusAssumption ==
  /\ QueueSize \in Nat \ {0}
  /\ Nothing \notin Msg
  /\ Nothing \notin Topic \X Msg

VARIABLES
  queues,      \* p.queues: what is buffered in each topic's channel
  closed,      \* topics whose channel Stop closed
  stopped,     \* p.stopped
  stopResult,  \* where Stop is
  sending,     \* the send each publisher has passed the stopped check for
  panicked,    \* publishers that sent on a closed channel
  handling,    \* the message each dispatch goroutine's handler works on
  exited,      \* topics whose dispatch goroutine ended
  accepted,    \* history: what each topic's channel took, in order
  handled      \* history: what each topic's handler was given, in order

busVars == <<queues, closed, stopped, stopResult, sending, panicked, handling,
             exited, accepted, handled>>

stopVars == <<stopped, stopResult, closed>>
dispatchVars == <<handling, exited, handled>>

BusInit ==
  /\ queues = [t \in Topic |-> <<>>]
  /\ closed = {}
  /\ stopped = FALSE
  /\ stopResult = "running"
  /\ sending = [p \in Publisher |-> Nothing]
  /\ panicked = {}
  /\ handling = [t \in Topic |-> Nothing]
  /\ exited = {}
  /\ accepted = [t \in Topic |-> <<>>]
  /\ handled = [t \in Topic |-> <<>>]

-----------------------------------------------------------------------------
(* Publish.  A publisher that finds the bus stopped gets ErrBusStopped and *)
(* changes nothing here.                                                   *)

CanPublish(p) == p \notin panicked /\ sending[p] = Nothing

CheckStopped(p, t, m) ==
  /\ CanPublish(p)
  /\ ~stopped
  /\ sending' = [sending EXCEPT ![p] = <<t, m>>]
  /\ UNCHANGED <<queues, stopVars, panicked, dispatchVars, accepted>>

\* Mutant: a full queue makes the send drop the message instead of waiting.
SendOrDrop(p) ==
  /\ sending[p] # Nothing
  /\ sending[p][1] \notin closed
  /\ accepted' = [accepted EXCEPT ![sending[p][1]] = Append(@, sending[p][2])]
  /\ queues' = [queues EXCEPT ![sending[p][1]] =
                  IF Len(@) < QueueSize THEN Append(@, sending[p][2]) ELSE @]
  /\ sending' = [sending EXCEPT ![p] = Nothing]
  /\ UNCHANGED <<stopVars, panicked, dispatchVars>>

\* ch <- msg
Send(p) ==
  /\ sending[p] # Nothing
  /\ LET t == sending[p][1]
         m == sending[p][2]
     IN /\ t \notin closed
        /\ Len(queues[t]) < QueueSize
        /\ queues' = [queues EXCEPT ![t] = Append(@, m)]
        /\ accepted' = [accepted EXCEPT ![t] = Append(@, m)]
  /\ sending' = [sending EXCEPT ![p] = Nothing]
  /\ UNCHANGED <<stopVars, panicked, dispatchVars>>

\* <-ctx.Done()
SendCancelled(p) ==
  /\ sending[p] # Nothing
  /\ sending' = [sending EXCEPT ![p] = Nothing]
  /\ UNCHANGED <<queues, stopVars, panicked, dispatchVars, accepted>>

\* The channel was closed after the check, or while the send was blocked.
SendPanics(p) ==
  /\ sending[p] # Nothing
  /\ sending[p][1] \in closed
  /\ sending' = [sending EXCEPT ![p] = Nothing]
  /\ panicked' = panicked \cup {p}
  /\ UNCHANGED <<queues, stopVars, dispatchVars, accepted>>

-----------------------------------------------------------------------------
(* dispatchLoop                                                            *)

\* Mutant: the loop looks at the closed flag before it drains the channel.
TakeUnlessClosed(t) ==
  /\ t \notin exited
  /\ handling[t] = Nothing
  /\ queues[t] # <<>>
  /\ t \notin closed
  /\ handling' = [handling EXCEPT ![t] = Head(queues[t])]
  /\ handled' = [handled EXCEPT ![t] = Append(@, Head(queues[t]))]
  /\ queues' = [queues EXCEPT ![t] = Tail(@)]
  /\ UNCHANGED <<stopVars, sending, panicked, exited, accepted>>

\* for msg := range ch; a closed channel still yields what it holds.
Take(t) ==
  /\ t \notin exited
  /\ handling[t] = Nothing
  /\ queues[t] # <<>>
  /\ handling' = [handling EXCEPT ![t] = Head(queues[t])]
  /\ handled' = [handled EXCEPT ![t] = Append(@, Head(queues[t]))]
  /\ queues' = [queues EXCEPT ![t] = Tail(@)]
  /\ UNCHANGED <<stopVars, sending, panicked, exited, accepted>>

HandlerReturns(t) ==
  /\ handling[t] # Nothing
  /\ handling' = [handling EXCEPT ![t] = Nothing]
  /\ UNCHANGED <<queues, stopVars, sending, panicked, exited, handled, accepted>>

\* Mutant: the goroutine ends as soon as its channel is closed.
ExitEarly(t) ==
  /\ t \in closed \ exited
  /\ handling[t] = Nothing
  /\ exited' = exited \cup {t}
  /\ UNCHANGED <<queues, stopVars, sending, panicked, handling, handled, accepted>>

ExitLoop(t) ==
  /\ t \in closed \ exited
  /\ queues[t] = <<>>
  /\ handling[t] = Nothing
  /\ exited' = exited \cup {t}
  /\ UNCHANGED <<queues, stopVars, sending, panicked, handling, handled, accepted>>

-----------------------------------------------------------------------------
(* Stop: compare and swap, close every channel, wait for the goroutines.   *)

BeginStop ==
  /\ ~stopped
  /\ stopped' = TRUE
  /\ stopResult' = "closing"
  /\ UNCHANGED <<queues, closed, sending, panicked, dispatchVars, accepted>>

CloseTopic(t) ==
  /\ stopResult = "closing"
  /\ t \notin closed
  /\ closed' = closed \cup {t}
  /\ stopResult' = IF closed' = Topic THEN "waiting" ELSE "closing"
  /\ UNCHANGED <<queues, stopped, sending, panicked, dispatchVars, accepted>>

\* <-p.done
StopDone ==
  /\ stopResult = "waiting"
  /\ exited = Topic
  /\ stopResult' = "done"
  /\ UNCHANGED <<queues, closed, stopped, sending, panicked, dispatchVars, accepted>>

\* <-ctx.Done()
StopExpires ==
  /\ stopResult = "waiting"
  /\ stopResult' = "expired"
  /\ UNCHANGED <<queues, closed, stopped, sending, panicked, dispatchVars, accepted>>

-----------------------------------------------------------------------------

\* A message has an ID of its own and is published to a topic once.
Unpublished(t, m) ==
  /\ \A i \in DOMAIN accepted[t] : accepted[t][i] # m
  /\ \A p \in Publisher : sending[p] # <<t, m>>

Publish(p) ==
  \/ \E t \in Topic, m \in Msg : Unpublished(t, m) /\ CheckStopped(p, t, m)
  \/ Send(p) \/ SendCancelled(p) \/ SendPanics(p)

Dispatch(t) == Take(t) \/ HandlerReturns(t) \/ ExitLoop(t)

BusNext ==
  \/ \E p \in Publisher : Publish(p)
  \/ \E t \in Topic : Dispatch(t) \/ CloseTopic(t)
  \/ BeginStop \/ StopDone \/ StopExpires

BusSpec == BusInit /\ [][BusNext]_busVars

\* Dispatch goroutines run and handlers return; Stop closes what it has to.
\* Publishers owe nothing, and the shutdown context need not end.
BusFairness ==
  /\ \A t \in Topic : WF_busVars(Dispatch(t)) /\ WF_busVars(CloseTopic(t))
  /\ WF_busVars(StopDone)

BusFairSpec == BusSpec /\ BusFairness

-----------------------------------------------------------------------------
(* Properties.                                                             *)

\* Every variable has the type its Go counterpart has; no buffer holds more
\* than its channel's capacity.
BusTypeOK ==
  /\ queues \in [Topic -> Seq(Msg)]
  /\ \A t \in Topic : Len(queues[t]) =< QueueSize
  /\ closed \in SUBSET Topic
  /\ stopped \in BOOLEAN
  /\ stopResult \in {"running", "closing", "waiting", "done", "expired"}
  /\ sending \in [Publisher -> (Topic \X Msg) \cup {Nothing}]
  /\ panicked \in SUBSET Publisher
  /\ handling \in [Topic -> Msg \cup {Nothing}]
  /\ exited \in SUBSET Topic
  /\ accepted \in [Topic -> Seq(Msg)]
  /\ handled \in [Topic -> Seq(Msg)]

\* Nothing a topic took is lost, duplicated or overtaken: what was handled,
\* followed by what is buffered, is exactly what was accepted, in order.
FifoDelivery == \A t \in Topic : accepted[t] = handled[t] \o queues[t]

\* "Stop signals all dispatch goroutines to drain remaining messages and exit"
\* (plugin.go:123): when Stop returns nil every message ever accepted has been
\* given to its handler and no handler is still at work.
StopDrains ==
  stopResult = "done" =>
    /\ handled = accepted
    /\ \A t \in Topic : handling[t] = Nothing

\* Once Stop has closed the channels no topic takes a message any more.
ClosedTakesNothing ==
  [][\A t \in closed : accepted'[t] = accepted[t]]_busVars

\* "After Stop, Publish returns ErrBusStopped" (plugin.go:124): a publisher
\* either gets its message accepted or is told that the bus is stopped.
PublishNeverPanics == panicked = {}

\* Stop returns once it was called: closed channels drain and their goroutines
\* end, whatever the publishers do.
StopReturns == stopped ~> (stopResult \in {"done", "expired"})

\* Whatever a topic took is handed to its handler, stopped or not.
AcceptedIsHandled ==
  \A t \in Topic, m \in Msg :
    (\E i \in DOMAIN queues[t] : queues[t][i] = m)
      ~> (\E i \in DOMAIN handled[t] : handled[t][i] = m)
=============================================================================
