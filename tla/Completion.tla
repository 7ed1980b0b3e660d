----------------------------- MODULE Completion -----------------------------
(***************************************************************************)
(* The completion service, internal/domain/service/llm/completion.go, and  *)
(* the model router it asks, router.go: a request is tried on a chain of   *)
(* endpoint+model routes, and a route that answered with a provider error  *)
(* is left alone until its cool-down has passed.  The callers are the      *)
(* turns of the agent loop, whose requests name no model but may have      *)
(* overrides put before the chain, and the compaction service, whose       *)
(* requests name a route ("endpoint:model") or only a model.               *)
(*                                                                         *)
(* Time is a counter; a cool-down is compared with it as with time.Now().  *)
(***************************************************************************)
EXTENDS Integers, Sequences

CONSTANTS
  Caller,       \* goroutines that call Complete
  Route,        \* <<endpoint, model>> pairs
  Plugin,       \* s.plugins: endpoints that have a plugin
  Chain,        \* r.chain: the primary route and its fallbacks
  Overrides,    \* sequences of routes a ModelOverride holder may have
  Pinned,       \* routes named by a compaction request
  Bare,         \* models named without an endpoint
  RetryAfter,   \* delays a ProviderError may carry; 0 is "none given"
  DefaultCD,    \* s.defaultCD
  MaxTime,      \* bounds the clock
  Unset

ASSUME CompletionAssumption ==
  /\ \A o \in Overrides \cup {Chain} : o \in Seq(Route)
  /\ Len(Chain) > 0
  /\ Pinned \subseteq Route
  /\ \A r \in Route : r = <<r[1], r[2]>>
  /\ Bare \subseteq {r[2] : r \in Route}
  /\ Unset \notin Route \cup {r[2] : r \in Route} \cup Nat
  /\ RetryAfter \subseteq Nat
  /\ DefaultCD \in Nat \ {0}
  /\ MaxTime \in Nat

VARIABLES
  now,        \* the clock
  cooldown,   \* s.cooldown: route -> end of its cool-down
  at,         \* where each call of Complete is
  chain,      \* chain, as Complete computed it
  pos,        \* index of sel in chain
  model,      \* req.Model
  pin,        \* the route the request named
  tried,      \* history: routes the call used, or skipped as cooled down
  notBefore,  \* history: when a provider said a route may be used again
  shortened   \* history: routes whose last answer asked for less than that

call == <<chain, pin>>
asked == <<notBefore, shortened>>
completionVars == <<now, cooldown, at, chain, pos, model, pin, tried, notBefore, shortened>>

Endpoint == {r[1] : r \in Route}
Model == {r[2] : r \in Route}
Never == -1

CompletionInit ==
  /\ now = 0
  /\ cooldown = [k \in Endpoint \X Model |-> Unset]
  /\ at = [p \in Caller |-> "idle"]
  /\ chain = [p \in Caller |-> Chain]
  /\ pos = [p \in Caller |-> 1]
  /\ model = [p \in Caller |-> Unset]
  /\ pin = [p \in Caller |-> Unset]
  /\ tried = [p \in Caller |-> {}]
  /\ notBefore = [k \in Endpoint \X Model |-> Never]
  /\ shortened = {}

-----------------------------------------------------------------------------
(* Complete.                                                               *)

\* Select: the overrides, if the holder has any, then the chain.
Select(o) == o \o Chain

Start(p, s, m, r) ==
  /\ at[p] = "idle"
  /\ at' = [at EXCEPT ![p] = "route"]
  /\ chain' = [chain EXCEPT ![p] = s]
  /\ model' = [model EXCEPT ![p] = m]
  /\ pin' = [pin EXCEPT ![p] = r]
  /\ UNCHANGED <<now, cooldown, pos, tried, asked>>

\* A turn names no model.
Turn(p) == \E o \in Overrides : Start(p, Select(o), Unset, Unset)

\* Mutant: a named route only puts its model in front of the chain.
NamedRouteKeepsChain(p) == \E r \in Pinned : Start(p, Select(<<>>), r[2], r)

NamedRoute(p) == \E r \in Pinned : Start(p, <<r>>, r[2], r)

NamedModel(p) == \E m \in Bare : Start(p, Select(<<>>), m, Unset)

Sel(p) == chain[p][pos[p]]
Key(p) == <<Sel(p)[1], IF model[p] = Unset THEN Sel(p)[2] ELSE model[p]>>

InCoolDown(k) == cooldown[k] # Unset /\ cooldown[k] >= now

\* isCooledDown removes an expired entry.
Evict(k) ==
  cooldown' = IF cooldown[k] # Unset /\ cooldown[k] < now
                THEN [cooldown EXCEPT ![k] = Unset] ELSE cooldown

NextRoute(p) == pos' = [pos EXCEPT ![p] = @ + 1]

\* The route is cooled down, or its endpoint has no plugin.
Skip(p) ==
  /\ at[p] = "route"
  /\ pos[p] =< Len(chain[p])
  /\ LET k == Key(p)
     IN /\ InCoolDown(k) \/ k[1] \notin Plugin
        /\ Evict(k)
        /\ tried' = [tried EXCEPT ![p] = @ \cup {k}]
  /\ NextRoute(p)
  /\ UNCHANGED <<now, at, model, call, asked>>

\* req.Model = model; plugin.Complete(ctx, req)
Call(p) ==
  /\ at[p] = "route"
  /\ pos[p] =< Len(chain[p])
  /\ LET k == Key(p)
     IN /\ ~InCoolDown(k)
        /\ k[1] \in Plugin
        /\ Evict(k)
        /\ model' = [model EXCEPT ![p] = k[2]]
        /\ tried' = [tried EXCEPT ![p] = @ \cup {k}]
  /\ at' = [at EXCEPT ![p] = "call"]
  /\ UNCHANGED <<now, pos, call, asked>>

\* The locals of a call that is over are forgotten.
Return(p) ==
  /\ at' = [at EXCEPT ![p] = "idle"]
  /\ chain' = [chain EXCEPT ![p] = Chain]
  /\ pos' = [pos EXCEPT ![p] = 1]
  /\ model' = [model EXCEPT ![p] = Unset]
  /\ pin' = [pin EXCEPT ![p] = Unset]
  /\ tried' = [tried EXCEPT ![p] = {}]
  /\ UNCHANGED <<now, cooldown, asked>>

\* A response, or an error once the context has ended, ends the call.
Returns(p) == at[p] = "call" /\ Return(p)

\* A network error or a broken stream: the next route.
Fails(p) ==
  /\ at[p] = "call"
  /\ at' = [at EXCEPT ![p] = "route"]
  /\ NextRoute(p)
  /\ UNCHANGED <<now, cooldown, model, call, tried, asked>>

Later(s, t) == IF s < t THEN t ELSE s

\* A provider's answer d is remembered for the route k.
Asked(k, d) ==
  LET until == now + (IF d = 0 THEN DefaultCD ELSE d)
  IN /\ notBefore' = [notBefore EXCEPT ![k] = Later(@, until)]
     /\ shortened' = IF until < notBefore[k] THEN shortened \cup {k} ELSE shortened \ {k}

SetCoolDown(k, d) ==
  cooldown' = [cooldown EXCEPT ![k] = now + (IF d = 0 THEN DefaultCD ELSE d)]

\* Mutant: the cool-down is that of the configured route, not of the model sent.
ProviderErrorOfRoute(p, d) ==
  /\ at[p] = "call"
  /\ SetCoolDown(Sel(p), d)
  /\ Asked(Key(p), d)
  /\ at' = [at EXCEPT ![p] = "route"]
  /\ NextRoute(p)
  /\ UNCHANGED <<now, model, call, tried>>

\* The provider answered with an error: setCoolDown, then the next route.
ProviderError(p, d) ==
  /\ at[p] = "call"
  /\ SetCoolDown(Key(p), d)
  /\ Asked(Key(p), d)
  /\ at' = [at EXCEPT ![p] = "route"]
  /\ NextRoute(p)
  /\ UNCHANGED <<now, model, call, tried>>

\* "all LLM providers exhausted"
Exhausted(p) ==
  /\ at[p] = "route"
  /\ pos[p] > Len(chain[p])
  /\ at' = [at EXCEPT ![p] = "exhausted"]
  /\ UNCHANGED <<now, cooldown, pos, model, call, tried, asked>>

Leave(p) == at[p] = "exhausted" /\ Return(p)

TimePasses ==
  /\ now < MaxTime
  /\ now' = now + 1
  /\ UNCHANGED <<cooldown, at, pos, model, call, tried, asked>>

Complete(p) ==
  \/ Turn(p) \/ NamedRoute(p) \/ NamedModel(p)
  \/ Skip(p) \/ Call(p) \/ Returns(p) \/ Fails(p) \/ Exhausted(p) \/ Leave(p)
  \/ \E d \in RetryAfter : ProviderError(p, d)

CompletionNext == TimePasses \/ \E p \in Caller : Complete(p)

CompletionSpec == CompletionInit /\ [][CompletionNext]_completionVars

-----------------------------------------------------------------------------
(* Properties.                                                             *)

\* Every variable has its type; a call never looks past the end of its chain.
CompletionTypeOK ==
  /\ now \in 0..MaxTime
  /\ cooldown \in [Endpoint \X Model -> Nat \cup {Unset}]
  /\ at \in [Caller -> {"idle", "route", "call", "exhausted"}]
  /\ chain \in [Caller -> Seq(Route)]
  /\ pos \in [Caller -> Nat]
  /\ \A p \in Caller : pos[p] \in 1..Len(chain[p]) + 1
  /\ model \in [Caller -> Model \cup {Unset}]
  /\ pin \in [Caller -> Route \cup {Unset}]
  /\ tried \in [Caller -> SUBSET (Endpoint \X Model)]
  /\ notBefore \in [Endpoint \X Model -> Nat \cup {Never}]
  /\ shortened \subseteq Endpoint \X Model

\* "cooldown ... earliest retry" (completion.go:24): a route is not called
\* before the time its provider asked for has passed.
RetryAfterHonoured ==
  [][\A p \in Caller :
       at[p] = "route" /\ at'[p] = "call" => now > notBefore[Key(p)]]_completionVars

\* What a provider asked for is kept for the model that was sent to it, although
\* any other call may evict the entry or write it again: a route is called before
\* a provider's time only when its last answer was another, shorter delay, which
\* setCoolDown lets overwrite the longer one (completion.go:128).
CooldownHonoured ==
  [][\A p \in Caller :
       at[p] = "route" /\ at'[p] = "call"
         => now > notBefore[Key(p)] \/ Key(p) \in shortened]_completionVars

\* A request that names a route is sent to that endpoint and model or fails;
\* it never falls over to the chain that was configured for turns.
NamedRouteIsKept ==
  \A p \in Caller : pin[p] # Unset /\ at[p] = "call" => Key(p) = pin[p]

\* "the ordered chain of endpoint+model pairs to try" (router.go:19): a turn is
\* told that all providers are exhausted only when each pair of its chain was
\* tried or was in cool-down.
EveryRouteTried ==
  \A p \in Caller :
    /\ at[p] = "exhausted"
    /\ pin[p] = Unset
    => \A i \in DOMAIN chain[p] : chain[p][i] \in tried[p]
=============================================================================
