----------------------------- MODULE Lifecycle ------------------------------
(***************************************************************************)
(* How the process comes up and goes down (runServe, Runtime.Start and     *)
(* Shutdown): the registry with its replacements (infra/loader), the       *)
(* configuration of each plugin, the manager that inits, starts and stops  *)
(* them by kind, and the parts that are not plugins.  A plugin is named by *)
(* its place in the order of loading, the built-in ones first.             *)
(***************************************************************************)
EXTENDS Naturals, Sequences, FiniteSets, SequencesExt

CONSTANTS
  Builtins,   \* the built-in tools and middleware: [id, kind, config]
  Configs     \* the config files: [entries, routes, chain, wellFormed]

ASSUME LifecycleAssumption ==
  /\ Builtins \in Seq([id : STRING, kind : {"tool", "middleware"}, config : BOOLEAN])
  /\ \A i, j \in DOMAIN Builtins : Builtins[i].id = Builtins[j].id => i = j
  /\ \A c \in Configs : \A i \in DOMAIN c.entries :       \* QualifyID: an ID begins with the kind
       /\ \A j \in DOMAIN c.entries : c.entries[i].id = c.entries[j].id => c.entries[i].kind = c.entries[j].kind
       /\ \A j \in DOMAIN Builtins : c.entries[i].id = Builtins[j].id => c.entries[i].kind = Builtins[j].kind
  /\ \A c \in Configs : \A i \in DOMAIN c.chain :         \* the transport's names are qualified
       /\ \A j \in DOMAIN c.entries : c.entries[j].id = c.chain[i] => c.entries[j].kind = "middleware"
       /\ \A j \in DOMAIN Builtins : Builtins[j].id = c.chain[i] => Builtins[j].kind = "middleware"
  /\ \A c \in Configs :
       /\ c.entries \in Seq([id : STRING, enabled : BOOLEAN,
            kind : {"store", "transport", "llm", "sandbox", "tool", "middleware", "channel"}])
       /\ c.routes \subseteq STRING      \* endpoints of the primary, the fallbacks, the compaction
       /\ c.chain \in Seq(STRING)        \* the middleware the transport names, in this order
       /\ c.wellFormed \in BOOLEAN       \* keys, paths, IDs, limits are what they must be

VARIABLES
  stage,      \* how far the process has got
  config,     \* its config file
  loaded,     \* how many of its entries the loader is through with
  byID, byKind,
  given,      \* the entry whose config a plugin was given, 0 for none
  injected,   \* the plugins with their store, transport, resetter, sandbox
  chain,      \* the middleware of the transport
  handlers,   \* the channels with a message handler
  topics,     \* the topics that have a subscriber
  started,    \* the started list of the manager
  running,    \* the plugins that were started and not stopped
  stops,      \* how often each was stopped
  scheduler, loop, gateway

lifecycleVars == <<stage, config, loaded, byID, byKind, given, injected, chain, handlers, topics,
                   started, running, stops, scheduler, loop, gateway>>

registryVars == <<config, loaded, byID, byKind>>
wiringVars == <<given, injected, chain, handlers, topics>>
runVars == <<started, running, stops, scheduler, loop, gateway>>
services == <<scheduler, loop, gateway>>

entries == config.entries

B == Len(Builtins)
Plugin == 1..(B + Len(entries))

IdOf(p) == IF p <= B THEN Builtins[p].id ELSE entries[p - B].id
KindOf(p) == IF p <= B THEN Builtins[p].kind ELSE entries[p - B].kind

\* kindInitOrder.  Mutant: channels before those that serve them.
InitOrderChannelsEarly == <<"store", "transport", "channel", "llm", "sandbox", "tool", "middleware">>

InitOrder == <<"store", "transport", "llm", "sandbox", "tool", "middleware", "channel">>

Rank(p) == CHOOSE r \in 1..Len(InitOrder) : InitOrder[r] = KindOf(p)

Before(p, q) == Rank(p) < Rank(q) \/ (Rank(p) = Rank(q) /\ p < q)

First(todo) == CHOOSE p \in todo : \A q \in todo \ {p} : Before(p, q)

Channels == {p \in byKind : KindOf(p) = "channel"}

-----------------------------------------------------------------------------
(* The registry.                                                           *)

\* register: the last one of an ID replaces the others.  Mutant: in the map
\* only.
KeptAll(kinds, p) == kinds \cup {p}

Kept(kinds, p) == {q \in kinds : IdOf(q) # IdOf(p)} \cup {p}

Register(p) ==
  /\ byID' = [id \in DOMAIN byID \cup {IdOf(p)} |-> IF id = IdOf(p) THEN p ELSE byID[id]]
  /\ byKind' = Kept(byKind, p)

LifecycleInit ==
  /\ stage = "config"
  /\ config \in Configs
  /\ loaded = 0
  /\ byID = [id \in {Builtins[i].id : i \in 1..B} |-> CHOOSE i \in 1..B : Builtins[i].id = id]
  /\ byKind = 1..B
  /\ given = <<>> /\ injected = {} /\ chain = <<>> /\ handlers = {} /\ topics = {}
  /\ started = <<>> /\ running = {} /\ stops = [p \in Plugin |-> 0]
  /\ scheduler = "none" /\ loop = "none" /\ gateway = "none"

\* What fails before the first Start ends the process; nothing is stopped.
Fails(s) ==
  /\ stage = s
  /\ stage' = "exit"
  /\ UNCHANGED <<registryVars, wiringVars, runVars>>

\* validate: one transport, store and sandbox, no endpoint twice, and every
\* route is that of an enabled endpoint.  Any other ID may come twice.
Valid ==
  /\ config.wellFormed
  /\ \A kind \in {"transport", "store", "sandbox"} :
       Cardinality({i \in DOMAIN entries : entries[i].kind = kind}) = 1
  /\ \A i, j \in DOMAIN entries :
       i # j /\ entries[i].kind = "llm" => entries[i].id # entries[j].id
  /\ config.routes # {}
  /\ \A id \in config.routes : \E i \in DOMAIN entries :
       entries[i].kind = "llm" /\ entries[i].id = id /\ entries[i].enabled

LoadConfig ==
  /\ stage = "config"
  /\ stage' = IF Valid THEN "load" ELSE "exit"
  /\ UNCHANGED <<registryVars, wiringVars, runVars>>

\* LoadInto: the enabled entries in their order.
LoadPlugin ==
  /\ stage = "load"
  /\ loaded < Len(entries)
  /\ loaded' = loaded + 1
  /\ IF entries[loaded'].enabled THEN Register(B + loaded') ELSE UNCHANGED <<byID, byKind>>
  /\ UNCHANGED <<stage, config, wiringVars, runVars>>

LoadEnds ==
  /\ stage = "load"
  /\ loaded = Len(entries)
  /\ stage' = "init"
  /\ UNCHANGED <<registryVars, wiringVars, runVars>>

\* ConfigsByID: of the entries of an ID, enabled or not, the last; and the
\* configs of the built-in tools over all of them.
ConfigFor(id) ==
  LET of == {p \in Plugin : IdOf(p) = id /\ p > B}
      builtin == {p \in 1..B : IdOf(p) = id /\ Builtins[p].config}
  IN IF builtin # {} THEN CHOOSE p \in builtin : TRUE
     ELSE IF of = {} THEN 0 ELSE CHOOSE p \in of : \A q \in of : q <= p

InitPlugin ==
  /\ stage = "init"
  /\ byKind \ DOMAIN given # {}
  /\ LET p == First(byKind \ DOMAIN given) IN
     given' = [q \in DOMAIN given \cup {p} |-> IF q = p THEN ConfigFor(IdOf(p)) ELSE given[q]]
  /\ UNCHANGED <<stage, registryVars, injected, chain, handlers, topics, runVars>>

InitEnds ==
  /\ stage = "init"
  /\ byKind \subseteq DOMAIN given
  /\ stage' = "wire"
  /\ UNCHANGED <<registryVars, wiringVars, runVars>>

-----------------------------------------------------------------------------
(* The wiring.                                                             *)

\* The unified loop over registry.All().  Mutant: the tools only.
AwareTools == {byID[id] : id \in {i \in DOMAIN byID : KindOf(byID[i]) = "tool"}}

Aware == {byID[id] : id \in DOMAIN byID}

\* The n-th of a set of numbers.
Nth(n, S) == CHOOSE x \in S : Cardinality({y \in S : y < x}) = n - 1

\* The middleware that the config does not name.
Unnamed ==
  {p \in byKind : KindOf(p) = "middleware" /\ \A i \in DOMAIN config.chain : config.chain[i] # IdOf(p)}

\* The middleware the config names, as far as there is one, and then the rest.
Slots ==
  {i \in DOMAIN config.chain : config.chain[i] \in DOMAIN byID}
  \cup {Len(config.chain) + p : p \in Unnamed}

InSlot(s) == IF s <= Len(config.chain) THEN byID[config.chain[s]] ELSE s - Len(config.chain)

Chain == [n \in 1..Cardinality(Slots) |-> InSlot(Nth(n, Slots))]

Inject ==
  /\ stage = "wire"
  /\ \E p \in byKind : KindOf(p) = "llm"
  /\ injected' = Aware
  /\ chain' = Chain
  /\ stage' = "handlers"
  /\ UNCHANGED <<registryVars, given, handlers, topics, runVars>>

SetHandlers ==
  /\ stage = "handlers"
  /\ handlers' = Channels
  /\ stage' = "outbound"
  /\ UNCHANGED <<registryVars, given, injected, chain, topics, runVars>>

SubscribeOutbound ==
  /\ stage = "outbound"
  /\ topics' = topics \cup {"outbound"}
  /\ stage' = "services"
  /\ UNCHANGED <<registryVars, given, injected, chain, handlers, runVars>>

\* The router, the prompt builder, the loop; any may refuse its config.
SubscribeInbound ==
  /\ stage = "services"
  /\ topics' = topics \cup {"inbound"}
  /\ loop' = "serving"
  /\ stage' = "start"
  /\ UNCHANGED <<registryVars, given, injected, chain, handlers, started, running, stops, scheduler, gateway>>

-----------------------------------------------------------------------------
(* Start and stop of the plugins.                                          *)

StartPlugin ==
  /\ stage = "start"
  /\ byKind \ running # {}
  /\ LET p == First(byKind \ running) IN
     /\ started' = Append(started, p)
     /\ running' = running \cup {p}
  /\ UNCHANGED <<stage, registryVars, wiringVars, stops, services>>

\* stopStarted and then cleanup, which finds the list empty.
StartFails ==
  /\ stage = "start"
  /\ byKind \ running # {}
  /\ stage' = "undo"
  /\ UNCHANGED <<registryVars, wiringVars, runVars>>

StartScheduler ==
  /\ stage = "start"
  /\ byKind \subseteq running
  /\ scheduler' = "running"
  /\ stage' = "gateway"
  /\ UNCHANGED <<registryVars, wiringVars, started, running, stops, loop, gateway>>

\* It listens in the background: that it cannot is only logged.
StartGateway ==
  /\ stage = "gateway"
  /\ gateway' \in {"listening", "failed"}
  /\ stage' = "ready"
  /\ UNCHANGED <<registryVars, wiringVars, started, running, stops, scheduler, loop>>

StopOf(p) ==
  /\ running' = running \ {p}
  /\ stops' = [stops EXCEPT ![p] = @ + 1]

\* Mutant: the list is not reset, and the clean-up goes through it again.
RestAll(list) == list

Rest(list) == Front(list)

\* stopStarted, from the last to the first; an error does not end it.
StopPlugin ==
  /\ stage \in {"undo", "plugins"}
  /\ started # <<>>
  /\ StopOf(Last(started))
  /\ started' = Rest(started)
  /\ UNCHANGED <<stage, registryVars, wiringVars, services>>

Exit ==
  /\ stage \in {"undo", "plugins"}
  /\ started = <<>>
  /\ stage' = "exit"
  /\ UNCHANGED <<registryVars, wiringVars, runVars>>

-----------------------------------------------------------------------------
(* Signals and the shutdown.                                               *)

\* No handler is installed before the process is ready, and the second signal
\* does not wait.
Killed ==
  /\ stage # "exit"
  /\ stage # "ready"
  /\ stage' = "killed"
  /\ UNCHANGED <<registryVars, wiringVars, runVars>>

\* The gateway is stopped first: it listens no more, and its Stop waits for the
\* requests in flight, at most until the deadline.
GatewayAfter == {"stopped"} \cup (IF gateway = "listening" THEN {"expired"} ELSE {})

Signal ==
  /\ stage = "ready"
  /\ gateway' \in GatewayAfter
  /\ stage' = "channels"
  /\ UNCHANGED <<registryVars, wiringVars, started, running, stops, scheduler, loop>>

StopChannel(p) ==
  /\ stage = "channels"
  /\ p \in Channels
  /\ stops[p] = 0
  /\ StopOf(p)
  /\ UNCHANGED <<stage, registryVars, wiringVars, started, services>>

ToStopFirst == Channels

StopScheduler ==
  /\ stage = "channels"
  /\ \A p \in ToStopFirst : stops[p] = 1
  /\ scheduler' = "stopped"
  /\ stage' = "drain"
  /\ UNCHANGED <<registryVars, wiringVars, started, running, stops, loop, gateway>>

\* Drained, or the deadline has passed.
DrainLoop ==
  /\ stage = "drain"
  /\ loop' = "drained"
  /\ stage' = "plugins"
  /\ UNCHANGED <<registryVars, wiringVars, started, running, stops, scheduler, gateway>>

-----------------------------------------------------------------------------
LifecycleNext ==
  \/ LoadPlugin \/ LoadEnds \/ InitPlugin \/ InitEnds
  \/ \E s \in {"load", "init", "wire", "outbound", "services"} : Fails(s)
  \/ LoadConfig \/ Inject \/ SetHandlers \/ SubscribeOutbound \/ SubscribeInbound
  \/ StartPlugin \/ StartFails \/ StartScheduler \/ StartGateway
  \/ StopPlugin \/ Exit
  \/ Killed \/ Signal \/ StopScheduler \/ DrainLoop
  \/ \E p \in Plugin : StopChannel(p)

LifecycleSpec == LifecycleInit /\ [][LifecycleNext]_lifecycleVars

-----------------------------------------------------------------------------
Stages ==
  {"config", "load", "init", "wire", "handlers", "outbound", "services", "start", "gateway", "ready",
   "channels", "drain", "plugins", "undo", "exit", "killed"}

\* Every variable has its type; a plugin is stopped twice at most.
LifecycleTypeOK ==
  /\ stage \in Stages
  /\ config \in Configs
  /\ loaded \in 0..Len(entries)
  /\ byKind \subseteq Plugin
  /\ \A id \in DOMAIN byID : byID[id] \in Plugin
  /\ DOMAIN given \subseteq Plugin
  /\ injected \subseteq Plugin /\ handlers \subseteq Plugin /\ running \subseteq Plugin
  /\ topics \subseteq {"inbound", "outbound"}
  /\ started \in Seq(Plugin)
  /\ stops \in [Plugin -> 0..2]
  /\ scheduler \in {"none", "running", "stopped"}
  /\ loop \in {"none", "serving", "drained"}
  /\ gateway \in {"none", "listening", "failed", "stopped", "expired"}

\* While a plugin runs, so does every plugin of the kinds before its own, on
\* the way up, after a Start that failed and on the way down; it is the plugin
\* of its ID, and it was given what it works with.
RunsOnItsGround ==
  \A p \in running :
    /\ \A q \in byKind : Rank(q) < Rank(p) => q \in running
    /\ byID[IdOf(p)] = p
    /\ p \in injected

Ingress == scheduler = "running" \/ gateway = "listening" \/ running \cap Channels # {}

\* What brings messages, the webhooks among it, runs only while the loop serves
\* them: a channel has its handler, both topics have a subscriber, every route
\* its plugin, and the loop does not drain.  A request that is in flight when the
\* gateway's deadline ends is none of these: see RequestsAreServed.
IngressIsServed ==
  Ingress =>
    /\ running \cap Channels \subseteq handlers
    /\ gateway = "listening" => Channels \subseteq running
    /\ \A id \in config.routes : id \in DOMAIN byID /\ byID[id] \in running
    /\ topics = {"inbound", "outbound"}
    /\ loop = "serving"
    /\ \A p \in byKind : KindOf(p) \in {"store", "transport", "sandbox"} => p \in running

\* Every middleware then has its place, and one only if the config names none
\* twice.
ChainIsWhole ==
  Ingress =>
    /\ {p \in byKind : KindOf(p) = "middleware"} = {chain[i] : i \in DOMAIN chain}
    /\ IsInjective(config.chain) => IsInjective(chain)

\* The order of the kinds holds at every moment of the life of the process,
\* the loop being the ground that the channels and the scheduler stand on.
OrderOfKinds == RunsOnItsGround /\ IngressIsServed /\ ChainIsWhole

\* Stop is called only of what was started, of all of it before an orderly
\* exit, and twice of no plugin but a channel.
StopsMatchStarts ==
  /\ \A p \in Plugin : stops[p] = 2 => KindOf(p) = "channel"
  /\ \A p \in Plugin : stops[p] > 0 => p \in byKind /\ p \notin running
  /\ stage = "exit" => running = {}

\* Violated: a request in flight, which the gateway gave up waiting for at the
\* deadline (main.go:154), still finds the channel that it came for.
RequestsAreServed == gateway = "expired" => Channels \subseteq running

\* Violated: a plugin is given the config of its own entry, or none.
OwnConfig == \A p \in DOMAIN given : given[p] \in {0, p}
=============================================================================
