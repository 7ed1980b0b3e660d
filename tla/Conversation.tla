---------------------------- MODULE Conversation ----------------------------
(***************************************************************************)
(* Which conversation a message is filed in: the conversation service      *)
(* (internal/domain/service/conversation/service.go) as its callers use    *)
(* it.  The inbound handlers of the channels (internal/app/agent/          *)
(* runtime.go) switch and resolve the conversation of a message before     *)
(* they publish it; the dispatch goroutine runs the "/new" command         *)
(* (pkg/plugins/middleware/command/plugin.go) and the turns of the agent   *)
(* loop; the scheduler publishes messages with a conversation of its own.  *)
(*                                                                         *)
(* Every operation on one of the service's three sync.Maps is a step, as   *)
(* is every call to the store.  What the maps hold is gone after a         *)
(* restart; what the store holds stays.  There is one tenant.              *)
(***************************************************************************)
EXTENDS Integers, Sequences, FiniteSets

CONSTANTS
  Chat,        \* chats
  Handler,     \* goroutines that run inbound handlers of channels
  Dispatcher,  \* the dispatch goroutine of the inbound topic
  Kinds,       \* kinds of input: "user", "reply", "aside", "new", "once", "recurring"
  MaxConv,     \* bounds the conversation IDs that are minted
  MaxClock,    \* bounds the messages that are created
  MaxLife,     \* bounds the runs of the process
  None         \* a key a map does not hold; no message

ASSUME ConversationAssumption ==
  /\ Dispatcher \notin Handler
  /\ Kinds \subseteq {"user", "reply", "aside", "new", "once", "recurring"}
  /\ {MaxConv, MaxClock} \subseteq Nat
  /\ MaxLife \in Nat \ {0}
  /\ None \notin Chat \cup Nat \cup Nat \X Nat

Conv == 1..MaxConv
Proc == Handler \cup {Dispatcher}

VARIABLES
  cache,      \* s.cache: chat -> conversation
  reverse,    \* s.reverse: conversation -> chat
  tenants,    \* s.tenants: conversations whose tenant is known
  newest,     \* store: per chat, <<created, conversation>> of its newest message
  filed,      \* store: the messages saved so far
  inbound,    \* the queue of the inbound topic
  pc,         \* where each goroutine is
  job,        \* the message it works on
  conv,       \* convID in the function it executes
  old,        \* oldConvID of a switch; the conversation a "/new" resolved
  ret,        \* where storeMapping returns to
  minted,     \* conversation IDs generated so far
  clock,      \* messages created so far; IDs and created_at grow with it
  life,       \* the current run of the process
  retired,    \* history: per chat, <<conversation, life>> the user was told is over
  steered     \* history: chats that a reply, "/new" or a cron entry touched

maps == <<cache, reverse, tenants>>
store == <<newest, filed>>
local == <<job, conv, old, ret>>
global == <<minted, clock, life>>
history == <<retired, steered>>
vars == <<maps, store, inbound, pc, local, global, history>>

ConvInit ==
  /\ cache = [c \in Chat |-> None]
  /\ reverse = [v \in Conv |-> None]
  /\ tenants = {}
  /\ newest = [c \in Chat |-> None]
  /\ filed = {}
  /\ inbound = <<>>
  /\ pc = [p \in Proc |-> "idle"]
  /\ job = [p \in Proc |-> None]
  /\ conv = [p \in Proc |-> None]
  /\ old = [p \in Proc |-> None]
  /\ ret = [p \in Proc |-> "idle"]
  /\ minted = 0
  /\ clock = 0
  /\ life = 1
  /\ retired = [c \in Chat |-> {}]
  /\ steered = {}

Goto(p, from, to) ==
  /\ pc[p] = from
  /\ pc' = [pc EXCEPT ![p] = to]

Mint ==
  /\ minted < MaxConv
  /\ minted' = minted + 1

\* avoid is a history field: what the user was told is over when this was sent.
Message(k, c, v) ==
  [kind |-> k, chat |-> c, conv |-> v, created |-> clock', avoid |-> retired[c], life |-> life]

Tick ==
  /\ clock < MaxClock
  /\ clock' = clock + 1

\* Conversations of a chat a user can reply in, or create a cron entry in.
Known(c) == {f.conv : f \in {g \in filed : g.chat = c}}

-----------------------------------------------------------------------------
(* storeMapping                                                            *)

StoreCache(p) ==
  /\ Goto(p, "storeCache", "storeReverse")
  /\ cache' = [cache EXCEPT ![job[p].chat] = conv[p]]
  /\ UNCHANGED <<reverse, tenants, store, inbound, local, global, history>>

StoreReverse(p) ==
  /\ Goto(p, "storeReverse", "storeTenant")
  /\ reverse' = [reverse EXCEPT ![conv[p]] = job[p].chat]
  /\ UNCHANGED <<cache, tenants, store, inbound, local, global, history>>

StoreTenant(p) ==
  /\ Goto(p, "storeTenant", ret[p])
  /\ tenants' = tenants \cup {conv[p]}
  /\ UNCHANGED <<cache, reverse, store, inbound, local, global, history>>

StoreMapping(p) == StoreCache(p) \/ StoreReverse(p) \/ StoreTenant(p)

-----------------------------------------------------------------------------
(* ResolveConversation.  It returns to "publish" in an inbound handler and *)
(* to "reset" in the command.                                              *)

AfterResolve(p) == IF p \in Handler THEN "publish" ELSE "reset"

ResolveFromCache(p) ==
  /\ pc[p] = "resolve"
  /\ LET v == cache[job[p].chat]
     IN /\ pc' = [pc EXCEPT ![p] = IF v = None THEN "lookup" ELSE AfterResolve(p)]
        /\ conv' = [conv EXCEPT ![p] = v]
  /\ UNCHANGED <<maps, store, inbound, job, old, ret, global, history>>

\* Mutant: the query for the last conversation does not ask for the chat.
ResolveFromAnyChat(p) ==
  /\ Goto(p, "lookup", "storeCache")
  /\ ret' = [ret EXCEPT ![p] = AfterResolve(p)]
  /\ \/ \E c \in Chat : /\ newest[c] # None
                        /\ conv' = [conv EXCEPT ![p] = newest[c][2]]
                        /\ UNCHANGED minted
     \/ /\ \A c \in Chat : newest[c] = None
        /\ Mint
        /\ conv' = [conv EXCEPT ![p] = minted']
  /\ UNCHANGED <<maps, store, inbound, job, old, clock, life, history>>

\* Mutant: a cache miss starts a new conversation without asking the store.
ResolveMints(p) ==
  /\ Goto(p, "lookup", "storeCache")
  /\ ret' = [ret EXCEPT ![p] = AfterResolve(p)]
  /\ Mint
  /\ conv' = [conv EXCEPT ![p] = minted']
  /\ UNCHANGED <<maps, store, inbound, job, old, clock, life, history>>

\* GetLastConversationID, or a new ID if the chat has no message.
ResolveFromStore(p) ==
  /\ Goto(p, "lookup", "storeCache")
  /\ ret' = [ret EXCEPT ![p] = AfterResolve(p)]
  /\ LET last == newest[job[p].chat]
     IN \/ /\ last # None
           /\ conv' = [conv EXCEPT ![p] = last[2]]
           /\ UNCHANGED minted
        \/ /\ last = None
           /\ Mint
           /\ conv' = [conv EXCEPT ![p] = minted']
  /\ UNCHANGED <<maps, store, inbound, job, old, clock, life, history>>

-----------------------------------------------------------------------------
(* SwitchConversation and ResetConversation                                *)

SwitchLoad(p) ==
  /\ pc[p] = "switch"
  /\ LET v == cache[job[p].chat]
     IN /\ old' = [old EXCEPT ![p] = v]
        /\ pc' = [pc EXCEPT ![p] = IF v = None THEN "storeCache" ELSE "deleteReverse"]
  /\ conv' = [conv EXCEPT ![p] = job[p].conv]
  /\ ret' = [ret EXCEPT ![p] = "resolve"]
  /\ UNCHANGED <<maps, store, inbound, job, global, history>>

\* An unknown conversation is a no-op.
ResetLoadReverse(p) ==
  /\ pc[p] = "reset"
  /\ old' = [old EXCEPT ![p] = conv[p]]
  /\ pc' = [pc EXCEPT ![p] = IF reverse[conv[p]] = None THEN "told" ELSE "resetTenant"]
  /\ UNCHANGED <<maps, store, inbound, job, conv, ret, global, history>>

ResetLoadTenant(p) ==
  /\ pc[p] = "resetTenant"
  /\ pc' = [pc EXCEPT ![p] = IF conv[p] \in tenants THEN "resetCache" ELSE "told"]
  /\ UNCHANGED <<maps, store, inbound, local, global, history>>

\* key is what reverse held when it was loaded; a conversation keeps its chat.
ResetDeleteCache(p) ==
  /\ Goto(p, "resetCache", "deleteReverse")
  /\ cache' = [cache EXCEPT ![job[p].chat] = None]
  /\ UNCHANGED <<reverse, tenants, store, inbound, local, global, history>>

DeleteReverse(p) ==
  /\ Goto(p, "deleteReverse", "deleteTenant")
  /\ reverse' = [reverse EXCEPT ![old[p]] = None]
  /\ UNCHANGED <<cache, tenants, store, inbound, local, global, history>>

\* A switch goes on with its target, a reset with a new ID.
DeleteTenant(p) ==
  /\ Goto(p, "deleteTenant", "storeCache")
  /\ tenants' = tenants \ {old[p]}
  /\ \/ /\ p \in Handler
        /\ UNCHANGED <<conv, ret, minted>>
     \/ /\ p = Dispatcher
        /\ Mint
        /\ conv' = [conv EXCEPT ![p] = minted']
        /\ ret' = [ret EXCEPT ![p] = "told"]
  /\ UNCHANGED <<cache, reverse, store, inbound, job, old, clock, life, history>>

-----------------------------------------------------------------------------
(* Inbound handlers.                                                       *)

\* The mapper creates the message; a reply names the conversation of the
\* message it quotes, which the user thereby takes up again.
Receive(p, k, c) ==
  /\ pc[p] = "idle"
  /\ Tick
  /\ \/ /\ k \in {"user", "aside", "new"}
        /\ pc' = [pc EXCEPT ![p] = "resolve"]
        /\ job' = [job EXCEPT ![p] = Message(k, c, None)]
        /\ UNCHANGED retired
     \/ /\ k = "reply"
        /\ \E v \in Known(c) :
             /\ pc' = [pc EXCEPT ![p] = "switch"]
             /\ job' = [job EXCEPT ![p] = [Message(k, c, v) EXCEPT !.avoid = {}]]
             /\ retired' = [retired EXCEPT ![c] = {r \in @ : r[1] # v}]
  /\ steered' = IF k \in {"reply", "new"} THEN steered \cup {c} ELSE steered
  /\ UNCHANGED <<maps, store, inbound, conv, old, ret, minted, life>>

Stamped(p) == [job[p] EXCEPT !.conv = conv[p]]

Save(m) ==
  /\ filed' = filed \cup {m}
  /\ newest' = [newest EXCEPT ![m.chat] =
       IF newest[m.chat] = None THEN <<m.created, m.conv>>
       ELSE IF newest[m.chat][1] < m.created THEN <<m.created, m.conv>> ELSE @]

PublishInbound(p) ==
  /\ Goto(p, "publish", "idle")
  /\ job[p].kind # "aside"
  /\ inbound' = Append(inbound, Stamped(p))
  /\ UNCHANGED <<maps, store, local, global, history>>

\* A group message that does not mention the bot is saved, not published.
SaveAside(p) ==
  /\ Goto(p, "publish", "idle")
  /\ job[p].kind = "aside"
  /\ Save(Stamped(p))
  /\ UNCHANGED <<maps, inbound, local, global, history>>

-----------------------------------------------------------------------------
(* The scheduler.  A recurring entry gets a new ID at each firing, a       *)
(* one-shot entry keeps the conversation it was created in.                *)

Fire(k, c) ==
  /\ Known(c) # {}
  /\ Tick
  /\ \/ /\ k = "recurring"
        /\ Mint
        /\ inbound' = Append(inbound, Message(k, c, minted'))
     \/ /\ k = "once"
        /\ \E v \in Known(c) : inbound' = Append(inbound, Message(k, c, v))
        /\ UNCHANGED minted
  /\ steered' = steered \cup {c}
  /\ UNCHANGED <<maps, store, pc, local, life, retired>>

-----------------------------------------------------------------------------
(* The dispatch goroutine: the command and the turns.                      *)

TakeMessage(p) ==
  /\ pc[p] = "idle"
  /\ inbound # <<>>
  /\ job' = [job EXCEPT ![p] = Head(inbound)]
  /\ inbound' = Tail(inbound)
  /\ pc' = [pc EXCEPT ![p] = IF Head(inbound).kind = "new" THEN "resolve" ELSE "register"]
  /\ UNCHANGED <<maps, store, conv, old, ret, global, history>>

\* "Session reset. Starting fresh."
Told(p) ==
  /\ Goto(p, "told", "idle")
  /\ retired' = [retired EXCEPT ![job[p].chat] = @ \cup {<<old[p], life>>}]
  /\ UNCHANGED <<maps, store, inbound, local, global, steered>>

Register(p) ==
  /\ Goto(p, "register", "append")
  /\ tenants' = tenants \cup {job[p].conv}
  /\ UNCHANGED <<cache, reverse, store, inbound, local, global, history>>

AppendInbound(p) ==
  /\ Goto(p, "append", "history")
  /\ Save(job[p])
  /\ UNCHANGED <<maps, inbound, local, global, history>>

\* Build reads the history; the assistant's message is created and saved.
Answer(p) ==
  /\ Goto(p, "history", "idle")
  /\ Tick
  /\ Save([Message("assistant", job[p].chat, job[p].conv) EXCEPT !.avoid = {}])
  /\ UNCHANGED <<maps, inbound, local, minted, life, history>>

\* The turn ends in an error response, which is not saved.
TurnFails(p) ==
  /\ Goto(p, "history", "idle")
  /\ UNCHANGED <<maps, store, inbound, local, global, history>>

-----------------------------------------------------------------------------
(* The process stops, orderly or not, and starts again.                    *)

Restart ==
  /\ life < MaxLife
  /\ life' = life + 1
  /\ cache' = [c \in Chat |-> None]
  /\ reverse' = [v \in Conv |-> None]
  /\ tenants' = {}
  /\ inbound' = <<>>
  /\ pc' = [p \in Proc |-> "idle"]
  /\ job' = [p \in Proc |-> None]
  /\ conv' = [p \in Proc |-> None]
  /\ old' = [p \in Proc |-> None]
  /\ ret' = [p \in Proc |-> "idle"]
  /\ UNCHANGED <<store, minted, clock, history>>

-----------------------------------------------------------------------------

Service(p) ==
  \/ StoreMapping(p)
  \/ ResolveFromCache(p) \/ ResolveFromStore(p)
  \/ SwitchLoad(p)
  \/ ResetLoadReverse(p) \/ ResetLoadTenant(p) \/ ResetDeleteCache(p)
  \/ DeleteReverse(p) \/ DeleteTenant(p)

Inbound(p) ==
  \/ \E k \in Kinds, c \in Chat : Receive(p, k, c)
  \/ PublishInbound(p) \/ SaveAside(p)

DispatchStep(p) ==
  \/ TakeMessage(p) \/ Told(p)
  \/ Register(p) \/ AppendInbound(p) \/ Answer(p) \/ TurnFails(p)

ConvNext ==
  \/ \E p \in Proc : Service(p)
  \/ \E p \in Handler : Inbound(p)
  \/ \E k \in Kinds, c \in Chat : Fire(k, c)
  \/ DispatchStep(Dispatcher)
  \/ Restart

ConvSpec == ConvInit /\ [][ConvNext]_vars

-----------------------------------------------------------------------------
(* Properties.                                                             *)

MessageType ==
  [kind : Kinds \cup {"assistant"}, chat : Chat, conv : Conv \cup {None},
   created : 1..MaxClock, avoid : SUBSET (Conv \X (1..MaxLife)), life : 1..MaxLife]

\* A message that was published or saved names its conversation.
Filed == {m \in MessageType : m.conv # None}

Place ==
  {"idle", "resolve", "lookup", "switch", "reset", "resetTenant", "resetCache", "deleteReverse",
   "deleteTenant", "storeCache", "storeReverse", "storeTenant", "publish", "told", "register",
   "append", "history"}

\* Every variable has its type.
ConvTypeOK ==
  /\ cache \in [Chat -> Conv \cup {None}]
  /\ reverse \in [Conv -> Chat \cup {None}]
  /\ tenants \in SUBSET Conv
  /\ newest \in [Chat -> ((1..MaxClock) \X Conv) \cup {None}]
  /\ filed \in SUBSET Filed
  /\ inbound \in Seq(Filed)
  /\ pc \in [Proc -> Place]
  /\ job \in [Proc -> MessageType \cup {None}]
  /\ conv \in [Proc -> Conv \cup {None}]
  /\ old \in [Proc -> Conv \cup {None}]
  /\ ret \in [Proc -> Place]
  /\ minted \in 0..MaxConv
  /\ clock \in 0..MaxClock
  /\ life \in 1..MaxLife
  /\ retired \in [Chat -> SUBSET (Conv \X (1..MaxLife))]
  /\ steered \in SUBSET Chat

Busy == {"switch", "lookup", "resetTenant", "resetCache", "deleteReverse", "deleteTenant",
         "storeCache", "storeReverse", "storeTenant"}

\* The three maps are updated one by one, without a lock, by handlers and
\* commands that overtake each other; whenever no update is under way, the
\* conversation a chat is mapped to can be reset (its reverse entry is there)
\* and read (its tenant is there).
MapsAgree ==
  \A c \in Chat :
    /\ cache[c] # None
    /\ \A p \in Proc : pc[p] \notin Busy
    => reverse[cache[c]] = c /\ cache[c] \in tenants

\* A conversation never mixes the messages of two chats, and the maps agree on
\* the chat it belongs to.
OneChatPerConversation ==
  /\ \A f, g \in filed : f.conv = g.conv => f.chat = g.chat
  /\ MapsAgree

\* A chat nobody steers elsewhere keeps to one conversation, also across
\* restarts: the cache may be lost at any moment, but not the conversation.
NoSplit ==
  \A f, g \in filed :
    f.chat = g.chat /\ f.chat \notin steered => f.conv = g.conv

\* "ResetConversation invalidates the cached conversation ID and generates a
\* new one" (service.go:116): once the user was told that the session was
\* reset, what that user sends afterwards is not filed in the old one.
ResetTakesEffect ==
  \A f \in filed : \A r \in f.avoid : r[1] = f.conv => r[2] # f.life

\* "Resolve conversation (DB-backed, survives restart)" (loop.go:196): a reset
\* the user was told of before a restart still holds after it.
ResetSurvivesRestart ==
  \A f \in filed : \A r \in f.avoid : r[1] = f.conv => r[2] >= f.life

\* "each run is its own isolated session" (scheduler.go:168): what a user
\* sends without replying to it is not filed in the session of a cron run.
CronRunIsolated ==
  \A f, g \in filed :
    f.kind = "recurring" /\ g.kind \in {"user", "aside"} => f.conv # g.conv

\* "makes a conversation ID known to the service ... so that GetHistory can
\* resolve the tenant" (service.go:62): while a turn builds its prompts, the
\* history it asks for, with the message it just saved, is found.
TurnSeesHistory ==
  \A p \in Proc : pc[p] = "history" => job[p].conv \in tenants
=============================================================================
