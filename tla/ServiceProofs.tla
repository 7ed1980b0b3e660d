---------------------------- MODULE ServiceProofs ----------------------------
(***************************************************************************)
(* Proofs about the two services the turns stand on, for any number of     *)
(* callers, routes, chats and conversations: Completion and Conversation.  *)
(***************************************************************************)
EXTENDS Conversation, Completion, TLAPS

-----------------------------------------------------------------------------
(* Completion.                                                             *)

\* What the locals of a call of Complete are worth: they are reset when it is
\* over, and a request that names a route has a chain of that route alone.
CallInv ==
  \A p \in Caller :
    /\ at[p] = "idle" => pos[p] = 1
    /\ at[p] = "call" => pos[p] =< Len(chain[p])
    /\ pin[p] # Unset => chain[p] = <<pin[p]>> /\ model[p] = pin[p][2]

CompletionInv == CompletionTypeOK /\ CallInv

\* A route of the chain has an endpoint and a model, and so has what is sent for
\* it, whatever model the request names.
LEMMA KeyIsRoute ==
  ASSUME CompletionTypeOK, NEW p \in Caller, pos[p] =< Len(chain[p])
  PROVE  Sel(p) \in Route /\ Key(p) \in Endpoint \X Model
<1>1. chain[p] \in Seq(Route) /\ pos[p] \in 1..Len(chain[p])
  BY DEF CompletionTypeOK
<1>2. Sel(p) \in Route
  BY <1>1 DEF Sel
<1> QED
  BY <1>2 DEF Key, CompletionTypeOK, Endpoint, Model

\* Chains that Select makes are chains, and not empty.
LEMMA SelectChain ==
  ASSUME NEW o, o \in Overrides \/ o = <<>>
  PROVE  Select(o) \in Seq(Route) /\ Len(Select(o)) > 0
<1>1. Chain \in Seq(Route) /\ Len(Chain) > 0
  BY CompletionAssumption
<1>2. o \in Seq(Route)
  <2>1. CASE o \in Overrides BY <2>1, CompletionAssumption
  <2>2. CASE o = <<>> BY <2>2
  <2> QED BY <2>1, <2>2
<1> QED
  BY <1>1, <1>2 DEF Select

\* Complete starts with the locals a call that is over has left behind.
LEMMA StartStep ==
  ASSUME CompletionInv, NEW p \in Caller, NEW s \in Seq(Route), Len(s) > 0,
         NEW m \in Model \cup {Unset}, NEW r \in Route \cup {Unset},
         r # Unset => s = <<r>> /\ m = r[2],
         Start(p, s, m, r)
  PROVE  CompletionInv'
<1> USE DEF CompletionInv, Start, asked
<1>1. /\ chain' \in [Caller -> Seq(Route)]
      /\ at' \in [Caller -> {"idle", "route", "call", "exhausted"}]
      /\ model' \in [Caller -> Model \cup {Unset}]
      /\ pin' \in [Caller -> Route \cup {Unset}]
  BY DEF CompletionTypeOK
<1>2. \A q \in Caller : pos'[q] \in 1..Len(chain'[q]) + 1
  BY <1>1 DEF CompletionTypeOK, CallInv
<1>3. CompletionTypeOK'
  BY <1>1, <1>2 DEF CompletionTypeOK
<1>4. CallInv'
  BY <1>1 DEF CompletionTypeOK, CallInv
<1> QED
  BY <1>3, <1>4

\* Every step of a call of Complete, and the passing of time, keeps its invariant.
LEMMA CompletionStep ==
  ASSUME CompletionInv, [CompletionNext]_completionVars
  PROVE  CompletionInv'
<1> USE DEF CompletionInv
<1>1. CASE TimePasses
  <2>1. /\ now' \in 0..MaxTime
        /\ UNCHANGED <<cooldown, at, pos, model, chain, pin, tried, notBefore, shortened>>
    BY <1>1, CompletionAssumption DEF TimePasses, CompletionTypeOK, call, asked
  <2> QED
    BY <2>1 DEF CompletionTypeOK, CallInv
<1>2. ASSUME NEW p \in Caller, Turn(p) \/ NamedRoute(p) \/ NamedModel(p)
      PROVE  CompletionInv'
  <2>1. CASE Turn(p)
    BY <2>1, StartStep, SelectChain, CompletionAssumption DEF Turn
  <2>2. CASE NamedRoute(p)
    <3>1. PICK r \in Pinned : Start(p, <<r>>, r[2], r)
      BY <2>2 DEF NamedRoute
    <3>2. r \in Route /\ r[2] \in Model /\ <<r>> \in Seq(Route) /\ Len(<<r>>) > 0
      BY CompletionAssumption DEF Model
    <3>3. r[2] \in Model \cup {Unset} /\ r \in Route \cup {Unset}
      BY <3>2
    <3> QED
      BY <3>1, <3>2, <3>3, StartStep
  <2>3. CASE NamedModel(p)
    <3>1. PICK m \in Bare : Start(p, Select(<<>>), m, Unset)
      BY <2>3 DEF NamedModel
    <3>2. m \in Model
      BY CompletionAssumption DEF Model
    <3> QED
      BY <3>1, <3>2, StartStep, SelectChain
  <2> QED
    BY <1>2, <2>1, <2>2, <2>3
<1>3. ASSUME NEW p \in Caller, Skip(p) PROVE CompletionInv'
  <2>1. Key(p) \in Endpoint \X Model /\ pos[p] =< Len(chain[p])
    BY <1>3, KeyIsRoute DEF Skip
  <2>2. /\ cooldown' \in [Endpoint \X Model -> Nat \cup {Unset}]
        /\ tried' \in [Caller -> SUBSET (Endpoint \X Model)]
        /\ pos' = [pos EXCEPT ![p] = @ + 1]
        /\ at[p] = "route"
        /\ UNCHANGED <<now, at, model, chain, pin, notBefore, shortened>>
    BY <1>3, <2>1 DEF Skip, Evict, NextRoute, CompletionTypeOK, call, asked
  <2>3. /\ pos' \in [Caller -> Nat]
        /\ \A q \in Caller : pos'[q] \in 1..Len(chain[q]) + 1
    BY <2>1, <2>2 DEF CompletionTypeOK
  <2>4. CompletionTypeOK'
    BY <2>2, <2>3 DEF CompletionTypeOK
  <2>5. CallInv'
    BY <2>2 DEF CompletionTypeOK, CallInv
  <2> QED
    BY <2>4, <2>5
<1>4. ASSUME NEW p \in Caller, Call(p) PROVE CompletionInv'
  <2>1. Key(p) \in Endpoint \X Model /\ pos[p] =< Len(chain[p])
    BY <1>4, KeyIsRoute DEF Call
  <2>2. /\ cooldown' \in [Endpoint \X Model -> Nat \cup {Unset}]
        /\ tried' \in [Caller -> SUBSET (Endpoint \X Model)]
        /\ model' = [model EXCEPT ![p] = Key(p)[2]]
        /\ at[p] = "route"
        /\ at' = [at EXCEPT ![p] = "call"]
        /\ UNCHANGED <<now, pos, chain, pin, notBefore, shortened>>
    BY <1>4, <2>1 DEF Call, Evict, CompletionTypeOK, call, asked
  <2>3. model' \in [Caller -> Model \cup {Unset}]
    BY <2>1, <2>2 DEF CompletionTypeOK
  <2>4. CompletionTypeOK'
    BY <2>2, <2>3 DEF CompletionTypeOK
  <2>5. pin[p] # Unset => Key(p)[2] = pin[p][2]
    <3>1. model[p] # Unset => Key(p)[2] = model[p]
      BY DEF Key
    <3>2. pin[p] # Unset => pin[p] \in Route /\ pin[p][2] # Unset
      BY CompletionAssumption DEF CompletionTypeOK
    <3> QED
      BY <3>1, <3>2 DEF CallInv
  <2>6. CallInv'
    BY <2>1, <2>2, <2>3, <2>5 DEF CompletionTypeOK, CallInv
  <2> QED
    BY <2>4, <2>6
<1>5. ASSUME NEW p \in Caller, Returns(p) \/ Leave(p) PROVE CompletionInv'
  <2>1. /\ at' = [at EXCEPT ![p] = "idle"]
        /\ chain' = [chain EXCEPT ![p] = Chain]
        /\ pos' = [pos EXCEPT ![p] = 1]
        /\ model' = [model EXCEPT ![p] = Unset]
        /\ pin' = [pin EXCEPT ![p] = Unset]
        /\ tried' = [tried EXCEPT ![p] = {}]
        /\ UNCHANGED <<now, cooldown, notBefore, shortened>>
    BY <1>5 DEF Returns, Leave, Return, asked
  <2>2. Chain \in Seq(Route) /\ Len(Chain) \in Nat
    BY CompletionAssumption
  <2>3. /\ chain' \in [Caller -> Seq(Route)]
        /\ pos' \in [Caller -> Nat]
        /\ tried' \in [Caller -> SUBSET (Endpoint \X Model)]
    BY <2>1, <2>2 DEF CompletionTypeOK
  <2>4. \A q \in Caller : pos'[q] \in 1..Len(chain'[q]) + 1
    BY <2>1, <2>2 DEF CompletionTypeOK
  <2>5. CompletionTypeOK'
    BY <2>1, <2>3, <2>4 DEF CompletionTypeOK
  <2>6. CallInv'
    BY <2>1 DEF CompletionTypeOK, CallInv
  <2> QED
    BY <2>5, <2>6
<1>6. ASSUME NEW p \in Caller, Fails(p) \/ \E d \in RetryAfter : ProviderError(p, d)
      PROVE  CompletionInv'
  <2>1. Key(p) \in Endpoint \X Model /\ pos[p] =< Len(chain[p])
    BY <1>6, KeyIsRoute DEF Fails, ProviderError, CallInv
  <2>2. /\ at[p] = "call"
        /\ at' = [at EXCEPT ![p] = "route"]
        /\ pos' = [pos EXCEPT ![p] = @ + 1]
        /\ UNCHANGED <<now, model, chain, pin, tried>>
    BY <1>6 DEF Fails, ProviderError, NextRoute, call
  <2>3. /\ cooldown' \in [Endpoint \X Model -> Nat \cup {Unset}]
        /\ notBefore' \in [Endpoint \X Model -> Nat \cup {Never}]
        /\ shortened' \subseteq Endpoint \X Model
    <3>1. CASE Fails(p)
      BY <3>1 DEF Fails, asked, CompletionTypeOK
    <3>2. ASSUME NEW d \in RetryAfter, ProviderError(p, d)
          PROVE  /\ cooldown' \in [Endpoint \X Model -> Nat \cup {Unset}]
                 /\ notBefore' \in [Endpoint \X Model -> Nat \cup {Never}]
                 /\ shortened' \subseteq Endpoint \X Model
      <4> DEFINE until == now + (IF d = 0 THEN DefaultCD ELSE d)
      <4>1. until \in Nat
        BY CompletionAssumption DEF CompletionTypeOK
      <4>2. Later(notBefore[Key(p)], until) \in Nat \cup {Never}
        BY <2>1, <4>1 DEF Later, CompletionTypeOK
      <4>3. /\ cooldown' = [cooldown EXCEPT ![Key(p)] = until]
            /\ notBefore' = [notBefore EXCEPT ![Key(p)] = Later(@, until)]
            /\ shortened' = shortened \cup {Key(p)} \/ shortened' = shortened \ {Key(p)}
        BY <3>2 DEF ProviderError, SetCoolDown, Asked
      <4> HIDE DEF until
      <4> QED
        BY <2>1, <4>1, <4>2, <4>3 DEF CompletionTypeOK
    <3> QED
      BY <1>6, <3>1, <3>2
  <2>4. /\ pos' \in [Caller -> Nat]
        /\ \A q \in Caller : pos'[q] \in 1..Len(chain[q]) + 1
    BY <2>1, <2>2 DEF CompletionTypeOK
  <2>5. CompletionTypeOK'
    BY <2>2, <2>3, <2>4 DEF CompletionTypeOK
  <2>6. CallInv'
    BY <2>2 DEF CompletionTypeOK, CallInv
  <2> QED
    BY <2>5, <2>6
<1>7. ASSUME NEW p \in Caller, Exhausted(p) PROVE CompletionInv'
  <2>1. /\ at' = [at EXCEPT ![p] = "exhausted"]
        /\ UNCHANGED <<now, cooldown, pos, model, chain, pin, tried, notBefore, shortened>>
    BY <1>7 DEF Exhausted, call, asked
  <2> QED
    BY <2>1 DEF CompletionTypeOK, CallInv
<1>8. CASE UNCHANGED completionVars
  BY <1>8 DEF completionVars, CompletionTypeOK, CallInv
<1> QED
  BY <1>1, <1>2, <1>3, <1>4, <1>5, <1>6, <1>7, <1>8 DEF CompletionNext, Complete

\* Before any call nothing is in cool-down, and every caller is at rest.
LEMMA CompletionInitial == CompletionInit => CompletionInv
<1> SUFFICES ASSUME CompletionInit PROVE CompletionInv
  OBVIOUS
<1>1. Chain \in Seq(Route) /\ Len(Chain) \in Nat /\ MaxTime \in Nat
  BY CompletionAssumption
<1>2. CompletionTypeOK
  BY <1>1 DEF CompletionInit, CompletionTypeOK, Never
<1>3. CallInv
  BY DEF CompletionInit, CallInv
<1> QED
  BY <1>2, <1>3 DEF CompletionInv

\* Completion keeps CompletionInv.
THEOREM CompletionInvariant == CompletionSpec => []CompletionInv
  BY CompletionInitial, CompletionStep, PTL DEF CompletionSpec

\* Type correctness; in particular no call looks past the end of its chain.
THEOREM CompletionTypes == CompletionSpec => []CompletionTypeOK
  BY CompletionInvariant, PTL DEF CompletionInv

\* A request that names a route is sent to that endpoint and model or fails
\* (Complete of completion.go): the chain computed for it has no other route,
\* and the model it names is not replaced while the chain is tried.
THEOREM NamedRouteKept == CompletionSpec => []NamedRouteIsKept
<1>1. CompletionInv => NamedRouteIsKept
  <2> SUFFICES ASSUME CompletionInv, NEW p \in Caller, pin[p] # Unset, at[p] = "call"
               PROVE  Key(p) = pin[p]
    BY DEF NamedRouteIsKept
  <2>1. chain[p] = <<pin[p]>> /\ model[p] = pin[p][2] /\ pos[p] =< Len(chain[p])
    BY DEF CompletionInv, CallInv
  <2>2. pos[p] = 1
    BY <2>1 DEF CompletionInv, CompletionTypeOK
  <2>3. pin[p] \in Route /\ pin[p] = <<pin[p][1], pin[p][2]>> /\ pin[p][2] # Unset
    BY CompletionAssumption DEF CompletionInv, CompletionTypeOK
  <2> QED
    BY <2>1, <2>2, <2>3 DEF Key, Sel
<1> QED
  BY CompletionInvariant, <1>1, PTL

\* The table holds what the last provider asked for: as long as no shorter delay
\* followed a longer one, an entry is the time the route may be used again, and a
\* route without an entry is past that time.
RetryInv ==
  \A k \in Endpoint \X Model : k \notin shortened =>
    IF cooldown[k] # Unset THEN cooldown[k] = notBefore[k] ELSE notBefore[k] < now

\* An entry that isCooledDown evicts is past, and its time is not asked for any more.
LEMMA EvictStep ==
  ASSUME CompletionInv, RetryInv, NEW q \in Endpoint \X Model, Evict(q),
         UNCHANGED <<now, notBefore, shortened>>
  PROVE  RetryInv'
<1> SUFFICES ASSUME NEW k \in Endpoint \X Model, k \notin shortened
             PROVE  IF cooldown'[k] # Unset THEN cooldown'[k] = notBefore[k] ELSE notBefore[k] < now
  BY DEF RetryInv
<1>1. IF cooldown[k] # Unset THEN cooldown[k] = notBefore[k] ELSE notBefore[k] < now
  BY DEF RetryInv
<1>2. \/ cooldown'[k] = cooldown[k]
      \/ cooldown[k] # Unset /\ cooldown[k] < now /\ cooldown'[k] = Unset
  BY DEF Evict, CompletionInv, CompletionTypeOK
<1> QED
  BY <1>1, <1>2

\* A provider's answer is written for the model that was sent, over whatever the
\* table holds for it.
LEMMA ProviderErrorStep ==
  ASSUME CompletionInv, RetryInv, NEW p \in Caller, NEW d \in RetryAfter, ProviderError(p, d)
  PROVE  RetryInv'
<1> DEFINE until == now + (IF d = 0 THEN DefaultCD ELSE d)
<1>1. Key(p) \in Endpoint \X Model
  BY KeyIsRoute DEF ProviderError, CompletionInv, CallInv
<1>2. until \in Nat /\ until # Unset
  BY CompletionAssumption DEF CompletionInv, CompletionTypeOK
<1>3. /\ cooldown' = [cooldown EXCEPT ![Key(p)] = until]
      /\ notBefore' = [notBefore EXCEPT ![Key(p)] = Later(@, until)]
      /\ shortened' = IF until < notBefore[Key(p)] THEN shortened \cup {Key(p)}
                                                   ELSE shortened \ {Key(p)}
      /\ now' = now
  BY DEF ProviderError, SetCoolDown, Asked
<1> HIDE DEF until
<1> SUFFICES ASSUME NEW k \in Endpoint \X Model, k \notin shortened'
             PROVE  IF cooldown'[k] # Unset THEN cooldown'[k] = notBefore'[k]
                                            ELSE notBefore'[k] < now'
  BY DEF RetryInv
<1>4. CASE k = Key(p)
  <2>1. notBefore[k] \in Nat \cup {-1} /\ ~(until < notBefore[k])
    BY <1>3, <1>4 DEF CompletionInv, CompletionTypeOK, Never
  <2>2. cooldown'[k] = until /\ notBefore'[k] = Later(notBefore[k], until)
    BY <1>1, <1>3, <1>4 DEF CompletionInv, CompletionTypeOK
  <2> QED
    BY <1>2, <2>1, <2>2 DEF Later
<1>5. CASE k # Key(p)
  <2>1. k \notin shortened
    BY <1>3, <1>5
  <2>2. cooldown'[k] = cooldown[k] /\ notBefore'[k] = notBefore[k]
    BY <1>1, <1>3, <1>5 DEF CompletionInv, CompletionTypeOK
  <2> QED
    BY <1>3, <2>1, <2>2 DEF RetryInv
<1> QED
  BY <1>4, <1>5

\* Every other step leaves the table alone, and time only moves on.
LEMMA RetryStep ==
  ASSUME CompletionInv, RetryInv, [CompletionNext]_completionVars
  PROVE  RetryInv'
<1>1. ASSUME NEW p \in Caller, Skip(p) \/ Call(p) PROVE RetryInv'
  <2>1. Key(p) \in Endpoint \X Model
    BY <1>1, KeyIsRoute DEF Skip, Call, CompletionInv
  <2>2. Evict(Key(p)) /\ UNCHANGED <<now, notBefore, shortened>>
    BY <1>1 DEF Skip, Call, asked
  <2> QED
    BY <2>1, <2>2, EvictStep
<1>2. ASSUME NEW p \in Caller, NEW d \in RetryAfter, ProviderError(p, d) PROVE RetryInv'
  BY <1>2, ProviderErrorStep
<1>3. ASSUME NEW p \in Caller, Turn(p) \/ NamedRoute(p) \/ NamedModel(p) \/ Returns(p)
                              \/ Fails(p) \/ Exhausted(p) \/ Leave(p)
      PROVE  RetryInv'
  <2>1. UNCHANGED <<now, cooldown, notBefore, shortened>>
    BY <1>3 DEF Turn, NamedRoute, NamedModel, Start, Returns, Fails, Exhausted, Leave, Return,
                asked
  <2> QED
    BY <2>1 DEF RetryInv
<1>4. CASE TimePasses
  <2>1. now' = now + 1 /\ UNCHANGED <<cooldown, notBefore, shortened>>
    BY <1>4 DEF TimePasses, asked
  <2>2. now \in Nat /\ \A k \in Endpoint \X Model : notBefore[k] \in Nat \cup {-1}
    BY CompletionAssumption DEF CompletionInv, CompletionTypeOK, Never
  <2> QED
    BY <2>1, <2>2 DEF RetryInv
<1>5. CASE UNCHANGED completionVars
  BY <1>5 DEF completionVars, RetryInv
<1> QED
  BY <1>1, <1>2, <1>3, <1>4, <1>5 DEF CompletionNext, Complete

\* Before any call no provider asked for anything.
LEMMA RetryInitial == CompletionInit => RetryInv
  BY DEF CompletionInit, RetryInv, Never

\* The step that calls a route is taken by one caller, which found no cool-down.
LEMMA CallsWhenFree ==
  ASSUME CompletionInv, CompletionNext, NEW p \in Caller, at[p] = "route", at'[p] = "call"
  PROVE  Call(p)
<1>1. at \in [Caller -> {"idle", "route", "call", "exhausted"}]
  BY DEF CompletionInv, CompletionTypeOK
<1>2. ASSUME NEW q \in Caller, Complete(q) PROVE Call(p)
  <2>1. CASE Call(q)
    BY <1>1, <2>1 DEF Call
  <2>2. CASE Turn(q) \/ NamedRoute(q) \/ NamedModel(q)
    BY <1>1, <2>2 DEF Turn, NamedRoute, NamedModel, Start
  <2>3. CASE Skip(q) \/ Returns(q) \/ Leave(q)
    BY <1>1, <2>3 DEF Skip, Returns, Leave, Return
  <2>4. CASE Fails(q) \/ Exhausted(q) \/ \E d \in RetryAfter : ProviderError(q, d)
    BY <1>1, <2>4 DEF Fails, Exhausted, ProviderError
  <2> QED
    BY <1>2, <2>1, <2>2, <2>3, <2>4 DEF Complete
<1>3. ~TimePasses
  BY DEF TimePasses
<1> QED
  BY <1>2, <1>3 DEF CompletionNext

\* What a provider asked for is honoured for the model that was sent to it, however
\* many callers evict and rewrite the table (isCooledDown, setCoolDown), unless a
\* shorter delay of a later answer has overwritten it.
THEOREM CooldownsHonoured == CompletionSpec => CooldownHonoured
<1>1. ASSUME CompletionInv, RetryInv, CompletionNext, NEW p \in Caller,
             at[p] = "route", at'[p] = "call", Key(p) \notin shortened
      PROVE  now > notBefore[Key(p)]
  <2>1. Call(p)
    BY <1>1, CallsWhenFree
  <2>2. Key(p) \in Endpoint \X Model /\ ~InCoolDown(Key(p))
    BY <1>1, <2>1, KeyIsRoute DEF Call, CompletionInv
  <2>3. PICK k \in Endpoint \X Model : k = Key(p)
    BY <2>2
  <2>4. IF cooldown[k] # Unset THEN cooldown[k] = notBefore[k] ELSE notBefore[k] < now
    BY <1>1, <2>3 DEF RetryInv
  <2>5. now \in Nat /\ notBefore[k] \in Nat \cup {-1}
    BY <1>1, CompletionAssumption DEF CompletionInv, CompletionTypeOK, Never
  <2> QED
    BY <2>2, <2>3, <2>4, <2>5 DEF InCoolDown
<1>2. CompletionInv /\ RetryInv /\ [CompletionNext]_completionVars
        => [\A p \in Caller : at[p] = "route" /\ at'[p] = "call"
              => now > notBefore[Key(p)] \/ Key(p) \in shortened]_completionVars
  BY <1>1
<1>3. CompletionSpec => []RetryInv
  BY RetryInitial, RetryStep, CompletionInvariant, PTL DEF CompletionSpec
<1> QED
  BY CompletionInvariant, <1>2, <1>3, PTL DEF CompletionSpec, CooldownHonoured

\* Where no answer was shortened, CooldownHonoured says all that RetryAfterHonoured says.
LEMMA HonouredUnlessShortened ==
  CompletionSpec /\ [](shortened = {}) => RetryAfterHonoured
<1>1. [\A p \in Caller : at[p] = "route" /\ at'[p] = "call"
          => now > notBefore[Key(p)] \/ Key(p) \in shortened]_completionVars /\ shortened = {}
        => [\A p \in Caller : at[p] = "route" /\ at'[p] = "call"
              => now > notBefore[Key(p)]]_completionVars
  OBVIOUS
<1> QED
  BY CooldownsHonoured, <1>1, PTL DEF CooldownHonoured, RetryAfterHonoured

\* An answer is shortened only by one that asks for less than what is left of it.
LEMMA ShortenedBy ==
  ASSUME CompletionInv, shortened = {}, CompletionNext,
         \A p \in Caller, d \in RetryAfter :
           ProviderError(p, d) =>
             ~(now + (IF d = 0 THEN DefaultCD ELSE d) < notBefore[Key(p)])
  PROVE  shortened' = {}
<1>1. ASSUME NEW p \in Caller, NEW d \in RetryAfter, ProviderError(p, d)
      PROVE  shortened' = {}
  BY <1>1 DEF ProviderError, Asked
<1>2. ASSUME NEW p \in Caller, Turn(p) \/ NamedRoute(p) \/ NamedModel(p) \/ Skip(p) \/ Call(p)
                              \/ Returns(p) \/ Fails(p) \/ Exhausted(p) \/ Leave(p)
      PROVE  shortened' = {}
  BY <1>2 DEF Turn, NamedRoute, NamedModel, Start, Skip, Call, Returns, Fails, Exhausted,
              Leave, Return, asked
<1>3. CASE TimePasses
  BY <1>3 DEF TimePasses, asked
<1> QED
  BY <1>1, <1>2, <1>3 DEF CompletionNext, Complete

\* Where every provider asks for the default delay or names none, a later answer
\* never asks for an earlier time, and every cool-down is honoured outright,
\* however many callers there are.
THEOREM EqualDelaysHonoured ==
  ASSUME \A d \in RetryAfter : d \in {0, DefaultCD}
  PROVE  CompletionSpec => RetryAfterHonoured
<1> DEFINE Near == /\ shortened = {}
                   /\ \A k \in Endpoint \X Model : notBefore[k] =< now + DefaultCD
<1>1. CompletionInit => Near
  BY CompletionAssumption DEF CompletionInit, Never
<1>2. CompletionInv /\ Near /\ [CompletionNext]_completionVars => Near'
  <2> SUFFICES ASSUME CompletionInv, Near, [CompletionNext]_completionVars PROVE Near'
    OBVIOUS
  <2>1. now \in Nat /\ \A k \in Endpoint \X Model : notBefore[k] \in Nat \cup {-1}
    BY CompletionAssumption DEF CompletionInv, CompletionTypeOK, Never
  <2>2. ASSUME NEW p \in Caller, NEW d \in RetryAfter, ProviderError(p, d)
        PROVE  /\ ~(now + (IF d = 0 THEN DefaultCD ELSE d) < notBefore[Key(p)])
               /\ \A k \in Endpoint \X Model : notBefore'[k] =< now' + DefaultCD
    <3>1. Key(p) \in Endpoint \X Model
      BY <2>2, KeyIsRoute DEF ProviderError, CompletionInv, CallInv
    <3>2. (IF d = 0 THEN DefaultCD ELSE d) = DefaultCD
      OBVIOUS
    <3>3. /\ notBefore' = [notBefore EXCEPT ![Key(p)] = Later(@, now + DefaultCD)]
          /\ now' = now
      BY <2>2, <3>2 DEF ProviderError, Asked
    <3>4. PICK q \in Endpoint \X Model : q = Key(p)
      BY <3>1
    <3>5. notBefore[q] =< now + DefaultCD
      BY <3>4
    <3>6. DefaultCD \in Nat
      BY CompletionAssumption
    <3>7. Later(notBefore[q], now + DefaultCD) = now + DefaultCD
      BY <2>1, <3>5, <3>6 DEF Later
    <3>8. ~(now + (IF d = 0 THEN DefaultCD ELSE d) < notBefore[Key(p)])
      BY <2>1, <3>2, <3>4, <3>5, <3>6
    <3>9. ASSUME NEW k \in Endpoint \X Model PROVE notBefore'[k] =< now' + DefaultCD
      <4>1. notBefore'[k] = IF k = q THEN now + DefaultCD ELSE notBefore[k]
        BY <3>3, <3>4, <3>7 DEF CompletionInv, CompletionTypeOK
      <4>2. notBefore[k] =< now + DefaultCD
        OBVIOUS
      <4> QED
        BY <2>1, <3>3, <3>6, <4>1, <4>2
    <3> QED
      BY <3>8, <3>9
  <2>3. CASE CompletionNext
    <3>1. shortened' = {}
      BY <2>2, <2>3, ShortenedBy
    <3>2. ASSUME NEW p \in Caller,
                 Turn(p) \/ NamedRoute(p) \/ NamedModel(p) \/ Skip(p) \/ Call(p)
                 \/ Returns(p) \/ Fails(p) \/ Exhausted(p) \/ Leave(p)
          PROVE  now' = now /\ notBefore' = notBefore
      BY <3>2 DEF Turn, NamedRoute, NamedModel, Start, Skip, Call, Returns, Fails, Exhausted,
                  Leave, Return, asked
    <3>3. TimePasses => now' = now + 1 /\ notBefore' = notBefore
      BY DEF TimePasses, asked
    <3>4. \A k \in Endpoint \X Model : notBefore'[k] =< now' + DefaultCD
      BY <2>1, <2>2, <2>3, <3>2, <3>3, CompletionAssumption DEF CompletionNext, Complete
    <3> QED
      BY <3>1, <3>4
  <2>4. CASE UNCHANGED completionVars
    BY <2>4 DEF completionVars
  <2> QED
    BY <2>3, <2>4
<1>3. CompletionSpec => []Near
  BY <1>1, <1>2, CompletionInvariant, PTL DEF CompletionSpec
<1>4. Near => shortened = {}
  OBVIOUS
<1> QED
  BY <1>3, <1>4, HonouredUnlessShortened, PTL

\* One call at a time honours every cool-down, whatever its length: the route it
\* is told to leave alone is one it was free to call.
THEOREM OneCallHonoured ==
  ASSUME \A p, q \in Caller : p = q
  PROVE  CompletionSpec => RetryAfterHonoured
<1> DEFINE Free == /\ shortened = {}
                   /\ \A p \in Caller : at[p] = "call" => notBefore[Key(p)] < now
<1>1. CompletionInit => Free
  BY DEF CompletionInit
<1>2. CompletionInv /\ RetryInv /\ Free /\ [CompletionNext]_completionVars => Free'
  <2> SUFFICES ASSUME CompletionInv, RetryInv, Free, [CompletionNext]_completionVars
               PROVE  Free'
    OBVIOUS
  <2>1. now \in Nat /\ \A k \in Endpoint \X Model : notBefore[k] \in Nat \cup {-1}
    BY CompletionAssumption DEF CompletionInv, CompletionTypeOK, Never
  <2>2. \A p \in Caller, d \in RetryAfter : ProviderError(p, d) =>
          ~(now + (IF d = 0 THEN DefaultCD ELSE d) < notBefore[Key(p)])
    <3> SUFFICES ASSUME NEW p \in Caller, NEW d \in RetryAfter, ProviderError(p, d)
                 PROVE  ~(now + (IF d = 0 THEN DefaultCD ELSE d) < notBefore[Key(p)])
      OBVIOUS
    <3>1. PICK q \in Endpoint \X Model : q = Key(p)
      BY KeyIsRoute DEF ProviderError, CompletionInv, CallInv
    <3>2. notBefore[q] < now
      BY <3>1 DEF ProviderError
    <3> QED
      BY <2>1, <3>1, <3>2, CompletionAssumption
  <2>3. CASE CompletionNext
    <3>1. shortened' = {}
      BY <2>2, <2>3, ShortenedBy
    <3>2. ASSUME NEW p \in Caller, at'[p] = "call" PROVE notBefore'[Key(p)'] < now'
      <4>1. CASE at[p] = "route"
        <5>1. Call(p)
          BY <2>3, <3>2, <4>1, CallsWhenFree
        <5>2. Key(p) \in Endpoint \X Model /\ ~InCoolDown(Key(p))
          BY <5>1, KeyIsRoute DEF Call, CompletionInv
        <5>3. PICK k \in Endpoint \X Model : k = Key(p)
          BY <5>2
        <5>4. notBefore[k] < now
          BY <2>1, <5>2, <5>3 DEF RetryInv, InCoolDown
        <5>5. Key(p)' = k
          <6>1. Sel(p)' = Sel(p) /\ model'[p] = k[2]
            BY <5>1, <5>3 DEF Call, call, Sel, CompletionInv, CompletionTypeOK
          <6>2. k = <<Sel(p)[1], k[2]>>
            BY <5>3 DEF Key
          <6>3. Unset \notin Model
            BY CompletionAssumption DEF Model
          <6> QED
            BY <6>1, <6>2, <6>3 DEF Key, Model
        <5> QED
          BY <5>1, <5>4, <5>5 DEF Call, asked
      <4>2. CASE at[p] # "route"
        <5>1. at \in [Caller -> {"idle", "route", "call", "exhausted"}]
          BY DEF CompletionInv, CompletionTypeOK
        <5>2. ASSUME NEW q \in Caller, Complete(q) PROVE FALSE
          <6>1. q = p
            OBVIOUS
          <6> QED
            BY <3>2, <4>2, <5>1, <5>2, <6>1
               DEF Complete, Turn, NamedRoute, NamedModel, Start, Skip, Call, Returns, Leave,
                   Return, Fails, Exhausted, ProviderError
        <5>3. TimePasses
          BY <2>3, <5>2 DEF CompletionNext
        <5>4. now' = now + 1 /\ UNCHANGED <<at, notBefore>> /\ Key(p)' = Key(p)
          BY <5>3 DEF TimePasses, asked, call, Key, Sel
        <5>5. PICK k \in Endpoint \X Model : k = Key(p)
          BY <3>2, <5>4, KeyIsRoute DEF CompletionInv, CallInv
        <5> QED
          BY <2>1, <3>2, <5>4, <5>5
      <4> QED
        BY <4>1, <4>2
    <3> QED
      BY <3>1, <3>2
  <2>4. CASE UNCHANGED completionVars
    BY <2>4 DEF completionVars, Key, Sel
  <2> QED
    BY <2>3, <2>4
<1>3. CompletionSpec => []RetryInv
  BY RetryInitial, RetryStep, CompletionInvariant, PTL DEF CompletionSpec
<1>4. CompletionSpec => []Free
  BY <1>1, <1>2, <1>3, CompletionInvariant, PTL DEF CompletionSpec
<1>5. Free => shortened = {}
  OBVIOUS
<1> QED
  BY <1>4, <1>5, HonouredUnlessShortened, PTL

-----------------------------------------------------------------------------
(* Conversation: what each goroutine holds.                                *)

HandlerPlace ==
  {"idle", "resolve", "lookup", "switch", "deleteReverse", "deleteTenant",
   "storeCache", "storeReverse", "storeTenant", "publish"}

DispatcherPlace ==
  {"idle", "resolve", "lookup", "reset", "resetTenant", "resetCache", "deleteReverse",
   "deleteTenant", "storeCache", "storeReverse", "storeTenant", "told",
   "register", "append", "history"}

Storing == {"storeCache", "storeReverse", "storeTenant"}
Resetting == {"reset", "resetTenant", "resetCache"}
Deleting == {"deleteReverse", "deleteTenant"}

\* Where conv[p], old[p] and job[p].conv are conversations of the job's chat.
HoldsConv(p) ==
  \/ pc[p] \in Storing \cup Resetting \cup {"publish"}
  \/ p \in Handler /\ pc[p] \in Deleting
HoldsOld(p) ==
  \/ pc[p] \in Deleting \cup {"resetTenant", "resetCache", "told"}
  \/ pc[p] \in Storing /\ ret[p] = "told"
HoldsNamed(p) == pc[p] \in {"switch", "register", "append", "history"}

LocalInv ==
  \A p \in Proc :
    /\ IF p = Dispatcher
         THEN pc[p] \in DispatcherPlace /\ ret[p] \in {"idle", "reset", "told"}
         ELSE pc[p] \in HandlerPlace /\ ret[p] \in {"idle", "publish", "resolve"}
    /\ pc[p] # "idle" => job[p] \in MessageType
    /\ pc[p] \in Storing => ret[p] # "idle"
    /\ p \in Handler /\ pc[p] \in Deleting => ret[p] # "idle"
    /\ HoldsConv(p) => conv[p] \in Conv
    /\ HoldsOld(p) => old[p] \in Conv
    /\ HoldsNamed(p) => job[p].conv \in Conv

(* A conversation v is used for a chat c where the two occur together.     *)

InMaps(v, c) == cache[c] = v \/ reverse[v] = c

InStore(v, c) ==
  \/ newest[c] # None /\ newest[c][2] = v
  \/ \E m \in filed : m.chat = c /\ m.conv = v

Queued(v, c) == \E i \in DOMAIN inbound : inbound[i].chat = c /\ inbound[i].conv = v

Held(p, v, c) ==
  /\ pc[p] # "idle"
  /\ job[p].chat = c
  /\ \/ HoldsConv(p) /\ conv[p] = v
     \/ HoldsOld(p) /\ old[p] = v
     \/ job[p].conv = v

Used(v, c) == InMaps(v, c) \/ InStore(v, c) \/ Queued(v, c) \/ \E p \in Proc : Held(p, v, c)

\* A conversation is used for one chat, and only once it was minted.
OwnerInv ==
  \A v \in Conv, c \in Chat :
    Used(v, c) => v =< minted /\ \A d \in Chat : Used(v, d) => d = c

\* The map entries of a chat's conversation are there, or the goroutine that
\* will write them, for this conversation or for another one, is on its way.
WillReverse(p, c) ==
  /\ \/ pc[p] \in {"deleteTenant", "storeCache"}
     \/ pc[p] = "storeReverse" /\ conv[p] = cache[c]
  /\ job[p].chat = c

ReverseInv ==
  \A c \in Chat :
    cache[c] # None /\ reverse[cache[c]] # c => \E p \in Proc : WillReverse(p, c)

WillTenant(p, c) ==
  /\ \/ pc[p] = "storeCache"
     \/ pc[p] \in {"storeReverse", "storeTenant"} /\ conv[p] = cache[c]
  /\ job[p].chat = c

TenantInv ==
  \A c \in Chat :
    cache[c] # None /\ cache[c] \notin tenants => \E p \in Proc : WillTenant(p, c)

\* The store knows the newest message of every chat that has one.
StoreInv == \A m \in filed : newest[m.chat] # None

ConvInv ==
  /\ ConvTypeOK
  /\ LocalInv
  /\ StoreInv
  /\ OwnerInv
  /\ ReverseInv
  /\ TenantInv

-----------------------------------------------------------------------------
(* Conversation: types and places.                                         *)

\* The messages that are created have the type of messages.
LEMMA MessageTyped ==
  ASSUME ConvTypeOK, NEW k \in Kinds \cup {"assistant"}, NEW c \in Chat,
         NEW v \in Conv \cup {None}, Tick
  PROVE  /\ Message(k, c, v) \in MessageType
         /\ Message(k, c, v).conv = v
         /\ Message(k, c, v).chat = c
         /\ Message(k, c, v).kind = k
         /\ clock' \in 1..MaxClock
<1>1. clock' \in 1..MaxClock /\ retired[c] \in SUBSET (Conv \X (1..MaxLife)) /\ life \in 1..MaxLife
  BY ConversationAssumption DEF ConvTypeOK, Tick
<1> QED
  BY <1>1 DEF Message, MessageType

\* No conversation, chat or identifier is None.
LEMMA ConvNotNone == Conv \subseteq Nat \ {None} /\ None \notin Chat /\ None \notin (1..MaxClock) \X Conv
  BY ConversationAssumption DEF Conv

\* A conversation ID that is minted is a new one.
LEMMA MintTyped ==
  ASSUME ConvTypeOK, Mint
  PROVE  minted' \in Conv /\ minted' \in 0..MaxConv /\ minted' = minted + 1
  BY ConversationAssumption DEF ConvTypeOK, Mint, Conv

\* Saving a message keeps the types of the store.
LEMMA SaveTyped ==
  ASSUME ConvTypeOK, NEW m \in Filed, Save(m)
  PROVE  /\ filed' \in SUBSET Filed
         /\ newest' \in [Chat -> ((1..MaxClock) \X Conv) \cup {None}]
<1>1. <<m.created, m.conv>> \in (1..MaxClock) \X Conv /\ m.chat \in Chat
  BY DEF Filed, MessageType
<1> QED
  BY <1>1 DEF Save, ConvTypeOK

\* The operations of the service keep types and places.
LEMMA ServiceTypes ==
  ASSUME ConvTypeOK, LocalInv, NEW p \in Proc, Service(p)
  PROVE  ConvTypeOK' /\ LocalInv'
<1> USE ConvNotNone DEF Goto, maps, store, local, global, history,
            HoldsConv, HoldsOld, HoldsNamed, Storing, Resetting, Deleting
<1>1. CASE StoreCache(p)
  <2>1. conv[p] \in Conv /\ job[p].chat \in Chat /\ p \in Proc
    BY <1>1 DEF StoreCache, LocalInv, MessageType
  <2>2. ConvTypeOK'
    BY <1>1, <2>1 DEF StoreCache, ConvTypeOK, Place
  <2>3. LocalInv'
    BY <1>1, <2>1 DEF StoreCache, ConvTypeOK, LocalInv, HandlerPlace, DispatcherPlace
  <2> QED
    BY <2>2, <2>3
<1>2. CASE StoreReverse(p)
  <2>1. conv[p] \in Conv /\ job[p].chat \in Chat
    BY <1>2 DEF StoreReverse, LocalInv, MessageType
  <2>2. ConvTypeOK'
    BY <1>2, <2>1 DEF StoreReverse, ConvTypeOK, Place
  <2>3. LocalInv'
    BY <1>2, <2>1 DEF StoreReverse, ConvTypeOK, LocalInv, HandlerPlace, DispatcherPlace
  <2> QED
    BY <2>2, <2>3
<1>3. CASE StoreTenant(p)
  <2>1. conv[p] \in Conv
    BY <1>3 DEF StoreTenant, LocalInv
  <2>2. ConvTypeOK'
    BY <1>3, <2>1 DEF StoreTenant, ConvTypeOK, Place
  <2>3. LocalInv'
    BY <1>3, <2>1 DEF StoreTenant, ConvTypeOK, LocalInv, HandlerPlace, DispatcherPlace
  <2> QED
    BY <2>2, <2>3
<1>4. CASE ResolveFromCache(p)
  <2>1. job[p].chat \in Chat
    BY <1>4 DEF ResolveFromCache, LocalInv, MessageType
  <2>2. ConvTypeOK'
    BY <1>4, <2>1 DEF ResolveFromCache, ConvTypeOK, Place, AfterResolve
  <2>3. LocalInv'
    BY <1>4, <2>1, ConversationAssumption DEF ResolveFromCache, ConvTypeOK, LocalInv, HandlerPlace, DispatcherPlace,
       AfterResolve, Proc
  <2> QED
    BY <2>2, <2>3
<1>5. CASE ResolveFromStore(p)
  <2>1. job[p].chat \in Chat
    BY <1>5 DEF ResolveFromStore, LocalInv, MessageType
  <2>2. PICK v \in Conv : conv' = [conv EXCEPT ![p] = v] /\ minted' \in 0..MaxConv
    <3>1. CASE newest[job[p].chat] # None /\ UNCHANGED minted
      <4>1. newest[job[p].chat][2] \in Conv
        BY <2>1, <3>1 DEF ConvTypeOK
      <4> QED
        BY <1>5, <3>1, <4>1, MintTyped DEF ResolveFromStore, ConvTypeOK
    <3>2. CASE newest[job[p].chat] = None /\ Mint
      BY <1>5, <3>2, MintTyped DEF ResolveFromStore
    <3> QED
      BY <1>5, <3>1, <3>2 DEF ResolveFromStore
  <2>3. AfterResolve(p) \in {"publish", "reset"} /\ (p = Dispatcher <=> AfterResolve(p) = "reset")
    BY ConversationAssumption DEF AfterResolve, Proc
  <2>4. ConvTypeOK'
    BY <1>5, <2>2, <2>3 DEF ResolveFromStore, ConvTypeOK, Place
  <2>5. LocalInv'
    BY <1>5, <2>2, <2>3 DEF ResolveFromStore, ConvTypeOK, LocalInv, HandlerPlace, DispatcherPlace
  <2> QED
    BY <2>4, <2>5
<1>6. CASE SwitchLoad(p)
  <2>1. job[p].chat \in Chat /\ job[p].conv \in Conv
    BY <1>6 DEF SwitchLoad, LocalInv, MessageType
  <2>2. ConvTypeOK'
    BY <1>6, <2>1 DEF SwitchLoad, ConvTypeOK, Place
  <2>3. LocalInv'
    BY <1>6, <2>1 DEF SwitchLoad, ConvTypeOK, LocalInv, HandlerPlace, DispatcherPlace
  <2> QED
    BY <2>2, <2>3
<1>7. CASE ResetLoadReverse(p)
  BY <1>7 DEF ResetLoadReverse, ConvTypeOK, LocalInv, Place, HandlerPlace, DispatcherPlace
<1>8. CASE ResetLoadTenant(p)
  BY <1>8 DEF ResetLoadTenant, ConvTypeOK, LocalInv, Place, HandlerPlace, DispatcherPlace
<1>9. CASE ResetDeleteCache(p)
  <2>0. p = Dispatcher /\ p \notin Handler
    BY <1>9, ConversationAssumption DEF ResetDeleteCache, LocalInv, HandlerPlace
  <2>1. ConvTypeOK'
    BY <1>9 DEF ResetDeleteCache, ConvTypeOK, Place
  <2>2. LocalInv'
    BY <1>9, <2>0 DEF ResetDeleteCache, ConvTypeOK, LocalInv, HandlerPlace, DispatcherPlace
  <2> QED
    BY <2>1, <2>2
<1>10. CASE DeleteReverse(p)
  BY <1>10 DEF DeleteReverse, ConvTypeOK, LocalInv, Place, HandlerPlace, DispatcherPlace
<1>11. CASE DeleteTenant(p)
  <2>1. p \in Handler <=> p # Dispatcher
    BY ConversationAssumption DEF Proc
  <2>2. CASE p \in Handler /\ UNCHANGED <<conv, ret, minted>>
    <3>1. ConvTypeOK'
      BY <1>11, <2>2 DEF DeleteTenant, ConvTypeOK, Place
    <3>2. LocalInv'
      BY <1>11, <2>1, <2>2 DEF DeleteTenant, ConvTypeOK, LocalInv, HandlerPlace, DispatcherPlace
    <3> QED
      BY <3>1, <3>2
  <2>3. CASE p = Dispatcher /\ Mint /\ conv' = [conv EXCEPT ![p] = minted']
             /\ ret' = [ret EXCEPT ![p] = "told"]
    <3>1. ConvTypeOK'
      BY <1>11, <2>3, MintTyped DEF DeleteTenant, ConvTypeOK, Place
    <3>2. LocalInv'
      BY <1>11, <2>1, <2>3, MintTyped DEF DeleteTenant, ConvTypeOK, LocalInv, HandlerPlace, DispatcherPlace
    <3> QED
      BY <3>1, <3>2
  <2> QED
    BY <1>11, <2>2, <2>3 DEF DeleteTenant
<1> QED
  BY <1>1, <1>2, <1>3, <1>4, <1>5, <1>6, <1>7, <1>8, <1>9, <1>10, <1>11 DEF Service, StoreMapping

\* Handlers, the scheduler, the dispatch goroutine and a restart keep them too.
LEMMA InboundTypes ==
  ASSUME ConvTypeOK, LocalInv, NEW p \in Handler, Inbound(p)
  PROVE  ConvTypeOK' /\ LocalInv'
<1> USE ConvNotNone DEF Goto, maps, store, local, global, history,
            HoldsConv, HoldsOld, HoldsNamed, Storing, Resetting, Deleting
<1>1. p \in Proc /\ p # Dispatcher
  BY ConversationAssumption DEF Proc
<1>2. ASSUME NEW k \in Kinds, NEW c \in Chat, Receive(p, k, c)
      PROVE  ConvTypeOK' /\ LocalInv'
  <2>1. Tick /\ clock' \in 0..MaxClock /\ steered' \in SUBSET Chat
    BY <1>2, MessageTyped DEF Receive, ConvTypeOK
  <2>2. PICK m \in MessageType, place \in {"resolve", "switch"} :
          /\ job' = [job EXCEPT ![p] = m]
          /\ pc' = [pc EXCEPT ![p] = place]
          /\ place = "switch" => m.conv \in Conv
          /\ retired' \in [Chat -> SUBSET (Conv \X (1..MaxLife))]
    <3>1. CASE k \in {"user", "aside", "new"} /\ pc' = [pc EXCEPT ![p] = "resolve"]
               /\ job' = [job EXCEPT ![p] = Message(k, c, None)] /\ UNCHANGED retired
      BY <2>1, <3>1, MessageTyped DEF ConvTypeOK
    <3>2. ASSUME NEW v \in Known(c), pc' = [pc EXCEPT ![p] = "switch"],
                 job' = [job EXCEPT ![p] = [Message(k, c, v) EXCEPT !.avoid = {}]],
                 retired' = [retired EXCEPT ![c] = {r \in @ : r[1] # v}]
          PROVE  \E m \in MessageType, place \in {"resolve", "switch"} :
                   /\ job' = [job EXCEPT ![p] = m]
                   /\ pc' = [pc EXCEPT ![p] = place]
                   /\ place = "switch" => m.conv \in Conv
                   /\ retired' \in [Chat -> SUBSET (Conv \X (1..MaxLife))]
      <4>1. v \in Conv
        BY <3>2 DEF Known, ConvTypeOK, Filed, MessageType
      <4>2. Message(k, c, v) \in MessageType /\ Message(k, c, v).conv \in Conv
        BY <2>1, <4>1, MessageTyped
      <4> DEFINE m == [Message(k, c, v) EXCEPT !.avoid = {}]
      <4>3. m \in MessageType /\ m.conv \in Conv
        BY <4>2 DEF MessageType
      <4>4. retired' \in [Chat -> SUBSET (Conv \X (1..MaxLife))]
        BY <3>2 DEF ConvTypeOK
      <4> QED
        BY <3>2, <4>3, <4>4
    <3> QED
      BY <1>2, <3>1, <3>2 DEF Receive
  <2>3. ConvTypeOK'
    BY <1>1, <1>2, <2>1, <2>2 DEF Receive, ConvTypeOK, Place
  <2>4. LocalInv'
    BY <1>1, <1>2, <2>2 DEF Receive, ConvTypeOK, LocalInv, HandlerPlace, DispatcherPlace
  <2> QED
    BY <2>3, <2>4
<1>3. CASE PublishInbound(p)
  <2>1. Stamped(p) \in Filed
    BY <1>1, <1>3 DEF PublishInbound, Stamped, LocalInv, MessageType, Filed
  <2>2. ConvTypeOK'
    BY <1>1, <1>3, <2>1 DEF PublishInbound, ConvTypeOK, Place
  <2>3. LocalInv'
    BY <1>1, <1>3 DEF PublishInbound, ConvTypeOK, LocalInv, HandlerPlace, DispatcherPlace
  <2> QED
    BY <2>2, <2>3
<1>4. CASE SaveAside(p)
  <2>1. Stamped(p) \in Filed
    BY <1>1, <1>4 DEF SaveAside, Stamped, LocalInv, MessageType, Filed
  <2>2. filed' \in SUBSET Filed /\ newest' \in [Chat -> ((1..MaxClock) \X Conv) \cup {None}]
    BY <1>4, <2>1, SaveTyped DEF SaveAside
  <2>3. ConvTypeOK'
    BY <1>1, <1>4, <2>2 DEF SaveAside, ConvTypeOK, Place
  <2>4. LocalInv'
    BY <1>1, <1>4 DEF SaveAside, ConvTypeOK, LocalInv, HandlerPlace, DispatcherPlace
  <2> QED
    BY <2>3, <2>4
<1> QED
  BY <1>2, <1>3, <1>4 DEF Inbound

\* A firing of the scheduler stamps a conversation of the right type on its message.
LEMMA FireTypes ==
  ASSUME ConvTypeOK, LocalInv, NEW k \in Kinds, NEW c \in Chat, Fire(k, c)
  PROVE  ConvTypeOK' /\ LocalInv'
<1> USE DEF maps, store, local
<1>1. clock' \in 0..MaxClock /\ steered' \in SUBSET Chat
  <2>1. clock' \in 0..MaxClock
    BY ConversationAssumption DEF Fire, Tick, ConvTypeOK
  <2>2. steered' = steered \cup {c} /\ steered \in SUBSET Chat
    BY DEF Fire, ConvTypeOK
  <2> QED
    BY <2>1, <2>2
<1>2. inbound' \in Seq(Filed) /\ minted' \in 0..MaxConv
  <2>1. CASE k = "recurring" /\ Mint /\ inbound' = Append(inbound, Message(k, c, minted'))
    <3>1. minted' \in Conv /\ minted' \in 0..MaxConv
      BY <2>1, MintTyped
    <3>2. Message(k, c, minted') \in MessageType /\ Message(k, c, minted').conv = minted'
      BY <3>1, MessageTyped DEF Fire
    <3>3. Message(k, c, minted') \in Filed
      BY <3>1, <3>2, ConvNotNone DEF Filed
    <3>4. inbound \in Seq(Filed)
      BY DEF ConvTypeOK
    <3> QED
      BY <2>1, <3>1, <3>3, <3>4
  <2>2. CASE k = "once" /\ UNCHANGED minted
             /\ \E v \in Known(c) : inbound' = Append(inbound, Message(k, c, v))
    <3>1. Known(c) \subseteq Conv
      BY DEF Known, ConvTypeOK, Filed, MessageType
    <3>2. PICK v \in Known(c) : inbound' = Append(inbound, Message(k, c, v))
      BY <2>2
    <3>3. Message(k, c, v) \in MessageType /\ Message(k, c, v).conv = v
      BY <3>1, MessageTyped DEF Fire
    <3>4. Message(k, c, v) \in Filed
      BY <3>1, <3>3, ConvNotNone DEF Filed
    <3> QED
      BY <2>2, <3>2, <3>4 DEF ConvTypeOK
  <2> QED
    BY <2>1, <2>2 DEF Fire
<1>3. ConvTypeOK'
  BY <1>1, <1>2 DEF Fire, ConvTypeOK
<1>4. LocalInv'
  BY DEF Fire, LocalInv, HoldsConv, HoldsOld, HoldsNamed
<1> QED
  BY <1>3, <1>4

\* The dispatch goroutine, which handles /new and the turns, keeps the types.
LEMMA DispatchTypes ==
  ASSUME ConvTypeOK, LocalInv, DispatchStep(Dispatcher)
  PROVE  ConvTypeOK' /\ LocalInv'
<1> DEFINE p == Dispatcher
<1> USE ConvNotNone DEF Goto, maps, store, local, global, history,
            HoldsConv, HoldsOld, HoldsNamed, Storing, Resetting, Deleting
<1>1. p \in Proc /\ p \notin Handler
  BY ConversationAssumption DEF Proc
<1>2. CASE TakeMessage(p)
  <2>1. Head(inbound) \in Filed /\ Tail(inbound) \in Seq(Filed)
    BY <1>2 DEF TakeMessage, ConvTypeOK
  <2>2. Head(inbound) \in MessageType /\ Head(inbound).conv \in Conv
    BY <2>1 DEF Filed, MessageType
  <2>3. ConvTypeOK'
    BY <1>1, <1>2, <2>1, <2>2 DEF TakeMessage, ConvTypeOK, Place
  <2>4. LocalInv'
    BY <1>1, <1>2, <2>2 DEF TakeMessage, ConvTypeOK, LocalInv, HandlerPlace, DispatcherPlace
  <2> QED
    BY <2>3, <2>4
<1>3. CASE Told(p)
  <2>0. <<old[p], life>> \in Conv \X (1..MaxLife)
    BY <1>1, <1>3 DEF Told, ConvTypeOK, LocalInv
  <2>1. retired' \in [Chat -> SUBSET (Conv \X (1..MaxLife))]
    BY <1>3, <2>0 DEF Told, ConvTypeOK
  <2>2. ConvTypeOK'
    BY <1>1, <1>3, <2>1 DEF Told, ConvTypeOK, Place
  <2>3. LocalInv'
    BY <1>1, <1>3 DEF Told, ConvTypeOK, LocalInv, HandlerPlace, DispatcherPlace
  <2> QED
    BY <2>2, <2>3
<1>4. CASE Register(p)
  <2>0. job[p].conv \in Conv
    BY <1>1, <1>4 DEF Register, LocalInv
  <2>1. ConvTypeOK'
    BY <1>1, <1>4, <2>0 DEF Register, ConvTypeOK, Place
  <2>2. LocalInv'
    BY <1>1, <1>4 DEF Register, ConvTypeOK, LocalInv, HandlerPlace, DispatcherPlace
  <2> QED
    BY <2>1, <2>2
<1>5. CASE AppendInbound(p)
  <2>1. job[p] \in Filed
    BY <1>1, <1>5 DEF AppendInbound, LocalInv, Filed
  <2>2. filed' \in SUBSET Filed /\ newest' \in [Chat -> ((1..MaxClock) \X Conv) \cup {None}]
    BY <1>5, <2>1, SaveTyped DEF AppendInbound
  <2>3. ConvTypeOK'
    BY <1>1, <1>5, <2>2 DEF AppendInbound, ConvTypeOK, Place
  <2>4. LocalInv'
    BY <1>1, <1>5 DEF AppendInbound, ConvTypeOK, LocalInv, HandlerPlace, DispatcherPlace
  <2> QED
    BY <2>3, <2>4
<1>6. CASE Answer(p)
  <2> DEFINE m == Message("assistant", job[p].chat, job[p].conv)
  <2>1. job[p].chat \in Chat /\ job[p].conv \in Conv
    BY <1>1, <1>6 DEF Answer, LocalInv, MessageType
  <2>2. m \in MessageType /\ m.conv \in Conv /\ clock' \in 0..MaxClock
    BY <1>6, <2>1, MessageTyped DEF Answer
  <2>3. [m EXCEPT !.avoid = {}] \in Filed
    BY <2>2 DEF Filed, MessageType
  <2>4. filed' \in SUBSET Filed /\ newest' \in [Chat -> ((1..MaxClock) \X Conv) \cup {None}]
    BY <1>6, <2>3, SaveTyped DEF Answer
  <2> HIDE DEF m
  <2>5. ConvTypeOK'
    BY <1>1, <1>6, <2>2, <2>4 DEF Answer, ConvTypeOK, Place
  <2>6. LocalInv'
    BY <1>1, <1>6 DEF Answer, ConvTypeOK, LocalInv, HandlerPlace, DispatcherPlace
  <2> QED
    BY <2>5, <2>6
<1>7. CASE TurnFails(p)
  <2>1. ConvTypeOK'
    BY <1>1, <1>7 DEF TurnFails, ConvTypeOK, Place
  <2>2. LocalInv'
    BY <1>1, <1>7 DEF TurnFails, ConvTypeOK, LocalInv, HandlerPlace, DispatcherPlace
  <2> QED
    BY <2>1, <2>2
<1> QED
  BY <1>2, <1>3, <1>4, <1>5, <1>6, <1>7 DEF DispatchStep

\* A restart empties the maps and the calls, and keeps the types.
LEMMA RestartTypes ==
  ASSUME ConvTypeOK, Restart
  PROVE  ConvTypeOK' /\ LocalInv'
<1>1. ConvTypeOK'
  <2>1. life' \in 1..MaxLife
    BY ConversationAssumption DEF Restart, ConvTypeOK
  <2> QED
    BY <2>1 DEF Restart, ConvTypeOK, Place, store, history
<1>2. LocalInv'
  BY DEF Restart, LocalInv, HandlerPlace, DispatcherPlace, HoldsConv, HoldsOld, HoldsNamed,
         Storing, Resetting, Deleting
<1> QED
  BY <1>1, <1>2

-----------------------------------------------------------------------------
(* Conversation: every conversation has one chat.                          *)

\* A step uses nothing new, or it mints a conversation and uses that for one chat.
NothingNew ==
  /\ minted' = minted
  /\ \A v \in Conv, c \in Chat : Used(v, c)' => Used(v, c)

OneNew(d) ==
  /\ Mint
  /\ \A v \in Conv, c \in Chat : Used(v, c)' => Used(v, c) \/ (v = minted' /\ c = d)

\* Either way every conversation keeps its chat.
LEMMA OwnersKept ==
  ASSUME ConvTypeOK, OwnerInv, NothingNew \/ \E d \in Chat : OneNew(d)
  PROVE  OwnerInv'
<1>1. CASE NothingNew
  BY <1>1 DEF OwnerInv, NothingNew
<1>2. ASSUME NEW d \in Chat, OneNew(d) PROVE OwnerInv'
  <2>1. minted' = minted + 1 /\ minted \in Nat /\ Conv \subseteq Nat
    BY <1>2, MintTyped, ConvNotNone DEF ConvTypeOK, OneNew
  <2>2. \A v \in Conv, c \in Chat : Used(v, c) => v # minted'
    BY <2>1 DEF OwnerInv
  <2> QED
    BY <1>2, <2>1, <2>2 DEF OwnerInv, OneNew
<1> QED
  BY <1>1, <1>2

\* The operations of the service work on a job, and leave it as it is.
LEMMA ServiceJob ==
  ASSUME ConvInv, NEW p \in Proc, Service(p)
  PROVE  job[p].chat \in Chat /\ pc[p] # "idle" /\ job' = job
  BY DEF Service, StoreMapping, StoreCache, StoreReverse, StoreTenant, ResolveFromCache, ResolveFromStore,
         SwitchLoad, ResetLoadReverse, ResetLoadTenant, ResetDeleteCache, DeleteReverse,
         DeleteTenant, ConvInv, LocalInv, MessageType, Goto, local

\* The operations of the service use a conversation only for the chat of their
\* job.
LEMMA ServiceUses ==
  ASSUME ConvInv, NEW p \in Proc, Service(p)
  PROVE  \/ NothingNew
         \/ /\ OneNew(job[p].chat)
            /\ p = Dispatcher \/ (pc[p] = "lookup" /\ newest[job[p].chat] = None)
<1> USE DEF Goto, maps, store, local, global, history, ConvInv,
            HoldsConv, HoldsOld, HoldsNamed, Storing, Resetting, Deleting
<1> DEFINE d == job[p].chat
<1>1. d \in Chat /\ pc[p] # "idle" /\ job' = job
  BY ServiceJob
<1>2. \A q \in Proc \ {p}, v \in Conv, c \in Chat : Held(q, v, c)' => Held(q, v, c)
  BY DEF Service, StoreMapping, StoreCache, StoreReverse, StoreTenant, ResolveFromCache, ResolveFromStore,
         SwitchLoad, ResetLoadReverse, ResetLoadTenant, ResetDeleteCache, DeleteReverse,
         DeleteTenant, Held, ConvTypeOK
<1>3. \A v \in Conv, c \in Chat :
        /\ InStore(v, c)' => InStore(v, c)
        /\ Queued(v, c)' => Queued(v, c)
  BY DEF Service, StoreMapping, StoreCache, StoreReverse, StoreTenant, ResolveFromCache, ResolveFromStore,
         SwitchLoad, ResetLoadReverse, ResetLoadTenant, ResetDeleteCache, DeleteReverse,
         DeleteTenant, InStore, Queued
<1> DEFINE Old == /\ minted' = minted
                  /\ \A v \in Conv, c \in Chat :
                       /\ InMaps(v, c)' => InMaps(v, c) \/ Held(p, v, c)
                       /\ Held(p, v, c)' => Used(v, c)
           New == /\ Mint
                  /\ \A v \in Conv, c \in Chat :
                       /\ InMaps(v, c)' => InMaps(v, c)
                       /\ Held(p, v, c)' => Used(v, c) \/ (v = minted' /\ c = d)
                  /\ p = Dispatcher \/ (pc[p] = "lookup" /\ newest[d] = None)
<1>4. SUFFICES Old \/ New
  <2>1. CASE Old
    <3>1. ASSUME NEW v \in Conv, NEW c \in Chat, Used(v, c)' PROVE Used(v, c)
      <4>1. \A q \in Proc : Held(q, v, c)' => Used(v, c)
        BY <1>2, <2>1 DEF Used
      <4>2. InMaps(v, c)' => Used(v, c)
        BY <2>1 DEF Used
      <4>3. InStore(v, c)' \/ Queued(v, c)' => Used(v, c)
        BY <1>3 DEF Used
      <4>4. InMaps(v, c)' \/ InStore(v, c)' \/ Queued(v, c)' \/ \E q \in Proc : Held(q, v, c)'
        BY <3>1 DEF Used
      <4> QED
        BY <4>1, <4>2, <4>3, <4>4
    <3> QED
      BY <2>1, <3>1 DEF NothingNew
  <2>2. CASE New
    <3>1. ASSUME NEW v \in Conv, NEW c \in Chat, Used(v, c)'
          PROVE  Used(v, c) \/ (v = minted' /\ c = d)
      <4>1. \A q \in Proc : Held(q, v, c)' => Used(v, c) \/ (v = minted' /\ c = d)
        BY <1>2, <2>2 DEF Used
      <4>2. InMaps(v, c)' => Used(v, c)
        BY <2>2 DEF Used
      <4>3. InStore(v, c)' \/ Queued(v, c)' => Used(v, c)
        BY <1>3 DEF Used
      <4>4. InMaps(v, c)' \/ InStore(v, c)' \/ Queued(v, c)' \/ \E q \in Proc : Held(q, v, c)'
        BY <3>1 DEF Used
      <4> QED
        BY <4>1, <4>2, <4>3, <4>4
    <3> QED
      BY <1>1, <2>2, <3>1 DEF OneNew
  <2> QED
    BY <1>4, <2>1, <2>2
<1>5. CASE StoreCache(p)
  BY <1>1, <1>5 DEF StoreCache, InMaps, Held, Used, ConvTypeOK, LocalInv
<1>6. CASE StoreReverse(p)
  BY <1>1, <1>6 DEF StoreReverse, InMaps, Held, Used, ConvTypeOK, LocalInv
<1>7. CASE StoreTenant(p)
  BY <1>1, <1>7 DEF StoreTenant, InMaps, Held, Used, ConvTypeOK, LocalInv
<1>8. CASE ResolveFromCache(p)
  BY <1>1, <1>8 DEF ResolveFromCache, InMaps, Held, Used, ConvTypeOK, LocalInv, AfterResolve
<1>9. CASE ResolveFromStore(p)
  BY <1>1, <1>9 DEF ResolveFromStore, InMaps, InStore, Held, Used, ConvTypeOK, LocalInv, AfterResolve
<1>10. CASE SwitchLoad(p)
  BY <1>1, <1>10 DEF SwitchLoad, InMaps, Held, Used, ConvTypeOK, LocalInv
<1>11. CASE ResetLoadReverse(p)
  BY <1>1, <1>11 DEF ResetLoadReverse, InMaps, Held, Used, ConvTypeOK, LocalInv
<1>12. CASE ResetLoadTenant(p)
  BY <1>1, <1>12 DEF ResetLoadTenant, InMaps, Held, Used, ConvTypeOK, LocalInv
<1>13. CASE ResetDeleteCache(p)
  BY <1>1, <1>13, ConvNotNone DEF ResetDeleteCache, InMaps, Held, Used, ConvTypeOK, LocalInv
<1>14. CASE DeleteReverse(p)
  BY <1>1, <1>14, ConvNotNone DEF DeleteReverse, InMaps, Held, Used, ConvTypeOK, LocalInv
<1>15. CASE DeleteTenant(p)
  BY <1>1, <1>15 DEF DeleteTenant, InMaps, Held, Used, ConvTypeOK, LocalInv
<1> QED
  BY <1>5, <1>6, <1>7, <1>8, <1>9, <1>10, <1>11, <1>12, <1>13, <1>14, <1>15 DEF Service, StoreMapping

\* What is saved is used in the store, nothing else.
LEMMA SaveUses ==
  ASSUME ConvTypeOK, NEW m \in Filed, Save(m), NEW v \in Conv, NEW c \in Chat, InStore(v, c)'
  PROVE  InStore(v, c) \/ (m.chat = c /\ m.conv = v)
  BY DEF Save, InStore, ConvTypeOK

\* What a handler is told to work on was filed for its chat, or names nothing.
LEMMA InboundUses ==
  ASSUME ConvInv, NEW p \in Handler, Inbound(p)
  PROVE  NothingNew
<1> USE DEF Goto, maps, store, local, global, history, ConvInv,
            HoldsConv, HoldsOld, HoldsNamed, Storing, Resetting, Deleting
<1>1. p \in Proc /\ p # Dispatcher
  BY ConversationAssumption DEF Proc
<1>2. ASSUME NEW k \in Kinds, NEW d \in Chat, Receive(p, k, d) PROVE NothingNew
  <2>1. Tick /\ minted' = minted
    BY <1>2 DEF Receive
  <2>2. PICK v0 \in Conv \cup {None} :
          /\ job'[p].chat = d /\ job'[p].conv = v0
          /\ v0 = None \/ v0 \in Known(d)
          /\ pc'[p] \in {"resolve", "switch"}
    <3>1. CASE pc' = [pc EXCEPT ![p] = "resolve"] /\ job' = [job EXCEPT ![p] = Message(k, d, None)]
      BY <1>1, <2>1, <3>1, MessageTyped DEF ConvTypeOK
    <3>2. ASSUME NEW v \in Known(d), pc' = [pc EXCEPT ![p] = "switch"],
                 job' = [job EXCEPT ![p] = [Message(k, d, v) EXCEPT !.avoid = {}]]
          PROVE  v \in Conv /\ job'[p].chat = d /\ job'[p].conv = v /\ pc'[p] = "switch"
      <4>1. v \in Conv
        BY <3>2 DEF Known, ConvTypeOK, Filed, MessageType
      <4>2. Message(k, d, v).conv = v /\ Message(k, d, v).chat = d /\ Message(k, d, v) \in MessageType
        BY <2>1, <4>1, MessageTyped
      <4> QED
        BY <1>1, <3>2, <4>1, <4>2 DEF ConvTypeOK, MessageType
    <3> QED
      BY <1>2, <3>1, <3>2 DEF Receive
  <2>3. \A q \in Proc \ {p} : job'[q] = job[q] /\ pc'[q] = pc[q]
    BY <1>2 DEF Receive, ConvTypeOK
  <2>4. ASSUME NEW v \in Conv, NEW c \in Chat, Used(v, c)' PROVE Used(v, c)
    <3>1. \A q \in Proc \ {p} : Held(q, v, c)' => Held(q, v, c)
      BY <1>2, <2>3 DEF Receive, Held
    <3>2. Held(p, v, c)' => InStore(v, c)
      <4>1. Held(p, v, c)' => job'[p].chat = c /\ job'[p].conv = v
        BY <2>2, <1>1, ConversationAssumption DEF Held
      <4>2. v # None /\ \A w \in Known(c) : \E m \in filed : m.chat = c /\ m.conv = w
        BY ConvNotNone DEF Known
      <4> QED
        BY <2>2, <4>1, <4>2 DEF InStore
    <3>3. InMaps(v, c)' = InMaps(v, c) /\ InStore(v, c)' = InStore(v, c) /\ Queued(v, c)' = Queued(v, c)
      BY <1>2 DEF Receive, InMaps, InStore, Queued
    <3> QED
      BY <2>4, <3>1, <3>2, <3>3 DEF Used
  <2> QED
    BY <2>1, <2>4 DEF NothingNew
<1>3. CASE PublishInbound(p) \/ SaveAside(p)
  <2>1. job[p].chat \in Chat /\ minted' = minted
    BY <1>1, <1>3 DEF PublishInbound, SaveAside, LocalInv, MessageType
  <2>2. Stamped(p) \in Filed /\ Stamped(p).chat = job[p].chat /\ Stamped(p).conv = conv[p]
    <3>1. pc[p] = "publish"
      BY <1>3 DEF PublishInbound, SaveAside
    <3>2. job[p] \in MessageType /\ conv[p] \in Conv
      BY <1>1, <3>1 DEF LocalInv
    <3>3. PICK m, v : m = job[p] /\ v = conv[p]
      OBVIOUS
    <3>4. m \in MessageType /\ v \in Conv /\ v # None
      BY <3>2, <3>3, ConvNotNone
    <3>5. [m EXCEPT !.conv = v] \in MessageType
      BY <3>4 DEF MessageType
    <3>6. [m EXCEPT !.conv = v].conv = v /\ [m EXCEPT !.conv = v].chat = m.chat
      BY <3>4 DEF MessageType
    <3>7. [m EXCEPT !.conv = v] \in Filed
      BY <3>4, <3>5, <3>6 DEF Filed
    <3>8. Stamped(p) = [m EXCEPT !.conv = v]
      BY <3>3 DEF Stamped
    <3> QED
      BY <3>3, <3>6, <3>7, <3>8
  <2>3. Held(p, conv[p], job[p].chat)
    BY <1>1, <1>3 DEF PublishInbound, SaveAside, Held
  <2>4. ASSUME NEW v \in Conv, NEW c \in Chat, Used(v, c)' PROVE Used(v, c)
    <3>1. \A q \in Proc : Held(q, v, c)' => Held(q, v, c)
      BY <1>1, <1>3 DEF PublishInbound, SaveAside, Held, ConvTypeOK
    <3>2. InMaps(v, c)' => InMaps(v, c)
      BY <1>3 DEF PublishInbound, SaveAside, InMaps
    <3>3. InStore(v, c)' => InStore(v, c) \/ Held(p, v, c)
      BY <1>3, <2>2, <2>3, SaveUses DEF PublishInbound, SaveAside, InStore
    <3>4. Queued(v, c)' => Queued(v, c) \/ Held(p, v, c)
      <4>1. CASE inbound' = Append(inbound, Stamped(p))
        BY <2>2, <2>3, <4>1 DEF Queued, ConvTypeOK
      <4>2. CASE inbound' = inbound
        BY <4>2 DEF Queued
      <4> QED
        BY <1>3, <4>1, <4>2 DEF PublishInbound, SaveAside
    <3> QED
      BY <1>1, <2>4, <3>1, <3>2, <3>3, <3>4 DEF Used
  <2> QED
    BY <2>1, <2>4 DEF NothingNew
<1> QED
  BY <1>2, <1>3 DEF Inbound

\* A cron entry names a conversation of its chat, or one that is minted for it.
LEMMA FireUses ==
  ASSUME ConvInv, NEW k \in Kinds, NEW d \in Chat, Fire(k, d)
  PROVE  NothingNew \/ OneNew(d)
<1> USE DEF maps, store, local, ConvInv
<1>1. \A q \in Proc, v \in Conv, c \in Chat : Held(q, v, c)' = Held(q, v, c)
  BY DEF Fire, Held, HoldsConv, HoldsOld
<1>2. \A v \in Conv, c \in Chat : InMaps(v, c)' = InMaps(v, c) /\ InStore(v, c)' = InStore(v, c)
  BY DEF Fire, InMaps, InStore
<1>3. CASE Mint /\ inbound' = Append(inbound, Message(k, d, minted'))
  <2>1. minted' \in Conv /\ Message(k, d, minted').conv = minted' /\ Message(k, d, minted').chat = d
    BY <1>3, MintTyped, MessageTyped DEF Fire
  <2>2. \A v \in Conv, c \in Chat : Queued(v, c)' => Queued(v, c) \/ (v = minted' /\ c = d)
    BY <1>3, <2>1 DEF Queued, ConvTypeOK
  <2>3. \A v \in Conv, c \in Chat : Used(v, c)' => Used(v, c) \/ (v = minted' /\ c = d)
    BY <1>1, <1>2, <2>2 DEF Used
  <2> QED
    BY <1>3, <2>3 DEF OneNew
<1>4. ASSUME NEW w \in Known(d), UNCHANGED minted, inbound' = Append(inbound, Message(k, d, w))
      PROVE  NothingNew
  <2>1. w \in Conv /\ InStore(w, d)
    BY DEF Known, ConvTypeOK, Filed, MessageType, InStore
  <2>2. Message(k, d, w).conv = w /\ Message(k, d, w).chat = d
    BY <2>1, MessageTyped DEF Fire
  <2>3. \A v \in Conv, c \in Chat : Queued(v, c)' => Queued(v, c) \/ InStore(v, c)
    BY <1>4, <2>1, <2>2 DEF Queued, ConvTypeOK
  <2>4. \A v \in Conv, c \in Chat : Used(v, c)' => Used(v, c)
    BY <1>1, <1>2, <2>3 DEF Used
  <2> QED
    BY <1>4, <2>4 DEF NothingNew
<1> QED
  BY <1>3, <1>4 DEF Fire

\* The dispatch goroutine works on what was queued, and files it and its answer
\* where it belongs.
LEMMA DispatchUses ==
  ASSUME ConvInv, DispatchStep(Dispatcher)
  PROVE  NothingNew
<1> DEFINE p == Dispatcher
<1> USE DEF Goto, maps, store, local, global, history, ConvInv,
            HoldsConv, HoldsOld, HoldsNamed, Storing, Resetting, Deleting
<1>1. p \in Proc /\ p \notin Handler
  BY ConversationAssumption DEF Proc
<1>2. CASE TakeMessage(p)
  <2>1. Head(inbound) \in Filed /\ inbound # <<>> /\ inbound \in Seq(Filed)
    BY <1>2 DEF TakeMessage, ConvTypeOK
  <2>2. Head(inbound).chat \in Chat /\ minted' = minted
    BY <1>2, <2>1 DEF Filed, MessageType, TakeMessage
  <2>3. ASSUME NEW v \in Conv, NEW c \in Chat, Used(v, c)' PROVE Used(v, c)
    <3>1. \A q \in Proc \ {p} : Held(q, v, c)' => Held(q, v, c)
      BY <1>2 DEF TakeMessage, Held, ConvTypeOK
    <3>2. Held(p, v, c)' => Queued(v, c)
      <4>1. Held(p, v, c)' => Head(inbound).chat = c /\ Head(inbound).conv = v
        BY <1>1, <1>2 DEF TakeMessage, Held, ConvTypeOK
      <4>2. Head(inbound) = inbound[1] /\ 1 \in DOMAIN inbound
        BY <2>1
      <4> QED
        BY <4>1, <4>2 DEF Queued
    <3>3. Queued(v, c)' => Queued(v, c)
      BY <1>2, <2>1 DEF TakeMessage, Queued
    <3>4. InMaps(v, c)' = InMaps(v, c) /\ InStore(v, c)' = InStore(v, c)
      BY <1>2 DEF TakeMessage, InMaps, InStore
    <3> QED
      BY <2>3, <3>1, <3>2, <3>3, <3>4 DEF Used
  <2> QED
    BY <2>2, <2>3 DEF NothingNew
<1>3. CASE Told(p) \/ Register(p) \/ TurnFails(p) \/ AppendInbound(p) \/ Answer(p)
  <2>1. job[p].chat \in Chat /\ minted' = minted
    BY <1>1, <1>3 DEF Told, Register, TurnFails, AppendInbound, Answer, LocalInv, MessageType
  <2>2. ASSUME NEW v \in Conv, NEW c \in Chat, Used(v, c)' PROVE Used(v, c)
    <3>1. \A q \in Proc : Held(q, v, c)' => Held(q, v, c)
      BY <1>1, <1>3 DEF Told, Register, TurnFails, AppendInbound, Answer, Held, ConvTypeOK
    <3>2. InMaps(v, c)' => InMaps(v, c)
      BY <1>3 DEF Told, Register, TurnFails, AppendInbound, Answer, InMaps
    <3>3. Queued(v, c)' => Queued(v, c)
      BY <1>3 DEF Told, Register, TurnFails, AppendInbound, Answer, Queued
    <3>4. InStore(v, c)' => InStore(v, c) \/ Held(p, v, c)
      <4>1. CASE Told(p) \/ Register(p) \/ TurnFails(p)
        BY <4>1 DEF Told, Register, TurnFails, InStore
      <4>2. CASE AppendInbound(p)
        <5>1. job[p] \in Filed /\ Save(job[p])
          BY <1>1, <4>2, ConvNotNone DEF AppendInbound, LocalInv, Filed
        <5> QED
          BY <4>2, <5>1, SaveUses DEF AppendInbound, Held
      <4>3. CASE Answer(p)
        <5> DEFINE m == [Message("assistant", job[p].chat, job[p].conv) EXCEPT !.avoid = {}]
        <5>1. job[p].conv \in Conv
          BY <1>1, <4>3 DEF Answer, LocalInv
        <5>2. /\ Message("assistant", job[p].chat, job[p].conv) \in MessageType
              /\ Message("assistant", job[p].chat, job[p].conv).conv = job[p].conv
              /\ Message("assistant", job[p].chat, job[p].conv).chat = job[p].chat
          BY <2>1, <4>3, <5>1, MessageTyped DEF Answer
        <5>3. m \in Filed /\ m.chat = job[p].chat /\ m.conv = job[p].conv
          BY <5>1, <5>2, ConvNotNone DEF Filed, MessageType
        <5>4. Save(m)
          BY <4>3 DEF Answer
        <5> HIDE DEF m
        <5> QED
          BY <4>3, <5>3, <5>4, SaveUses DEF Answer, Held
      <4> QED
        BY <1>3, <4>1, <4>2, <4>3
    <3> QED
      BY <1>1, <2>2, <3>1, <3>2, <3>3, <3>4 DEF Used
  <2> QED
    BY <2>1, <2>2 DEF NothingNew
<1> QED
  BY <1>2, <1>3 DEF DispatchStep

\* Only what the store holds is used after a restart.
LEMMA RestartUses ==
  ASSUME ConvInv, Restart
  PROVE  NothingNew
<1>1. \A v \in Conv, c \in Chat : Used(v, c)' => Used(v, c)
  BY ConvNotNone DEF Restart, Used, InMaps, InStore, Queued, Held, store
<1>2. minted' = minted
  BY DEF Restart
<1> QED
  BY <1>1, <1>2 DEF NothingNew

-----------------------------------------------------------------------------
(* Conversation: the three maps.                                           *)

\* A step that leaves the maps alone, of a goroutine that owes them nothing, and
\* one that only adds tenants, keep what the maps hold together.
LEMMA MapsKept ==
  ASSUME ReverseInv, TenantInv, cache' = cache, reverse' = reverse, tenants \subseteq tenants',
         \A q \in Proc, c \in Chat :
           /\ WillReverse(q, c) => WillReverse(q, c)'
           /\ WillTenant(q, c) => WillTenant(q, c)' \/ cache[c] \in tenants'
  PROVE  ReverseInv' /\ TenantInv'
<1>1. ReverseInv'
  BY DEF ReverseInv
<1>2. TenantInv'
  BY DEF TenantInv
<1> QED
  BY <1>1, <1>2

\* The steps of the service keep the reverse map and the tenants of its conversations.
LEMMA ServiceMaps ==
  ASSUME ConvInv, NEW p \in Proc, Service(p)
  PROVE  ReverseInv' /\ TenantInv'
<1> USE DEF Goto, maps, store, local, global, history, ConvInv
<1> DEFINE d == job[p].chat
<1>1. d \in Chat /\ pc[p] # "idle" /\ job' = job
  BY ServiceJob
<1>2. \A q \in Proc \ {p} : pc'[q] = pc[q] /\ conv'[q] = conv[q]
  BY DEF Service, StoreMapping, StoreCache, StoreReverse, StoreTenant, ResolveFromCache, ResolveFromStore,
         SwitchLoad, ResetLoadReverse, ResetLoadTenant, ResetDeleteCache, DeleteReverse,
         DeleteTenant, ConvTypeOK
<1>3. CASE StoreCache(p)
  <2>1. /\ cache' = [cache EXCEPT ![d] = conv[p]] /\ UNCHANGED <<reverse, tenants, conv>>
        /\ pc[p] = "storeCache" /\ pc'[p] = "storeReverse"
    BY <1>3 DEF StoreCache, ConvTypeOK
  <2>2. WillReverse(p, d)' /\ WillTenant(p, d)'
    BY <1>1, <2>1 DEF WillReverse, WillTenant, ConvTypeOK
  <2>3. \A c \in Chat \ {d} : cache'[c] = cache[c]
    BY <2>1 DEF ConvTypeOK
  <2>4. \A q \in Proc, c \in Chat \ {d} :
          /\ WillReverse(q, c) => WillReverse(q, c)'
          /\ WillTenant(q, c) => WillTenant(q, c)'
    BY <1>1, <1>2, <2>1, <2>3 DEF WillReverse, WillTenant
  <2>5. ASSUME NEW c \in Chat
        PROVE  /\ cache'[c] # None /\ reverse'[cache'[c]] # c => \E q \in Proc : WillReverse(q, c)'
               /\ cache'[c] # None /\ cache'[c] \notin tenants' => \E q \in Proc : WillTenant(q, c)'
    <3>1. CASE c = d
      BY <1>1, <2>2, <3>1
    <3>2. CASE c # d
      BY <2>1, <2>3, <2>4, <3>2 DEF ReverseInv, TenantInv
    <3> QED
      BY <3>1, <3>2
  <2>6. ReverseInv' /\ TenantInv'
    BY <2>5 DEF ReverseInv, TenantInv
  <2> QED
    BY <2>6
<1>4. CASE StoreReverse(p)
  <2>1. /\ reverse' = [reverse EXCEPT ![conv[p]] = d] /\ UNCHANGED <<cache, tenants, conv>>
        /\ pc[p] = "storeReverse" /\ pc'[p] = "storeTenant" /\ conv[p] \in Conv
    BY <1>4 DEF StoreReverse, ConvTypeOK, LocalInv, HoldsConv, Storing
  <2>2. Used(conv[p], d)
    BY <1>1, <2>1 DEF Used, Held, HoldsConv, Storing
  <2>3. ASSUME NEW c \in Chat, cache[c] # None, reverse'[cache[c]] # c
        PROVE  \E q \in Proc : WillReverse(q, c)'
    <3>1. cache[c] \in Conv /\ Used(cache[c], c)
      BY <2>3 DEF ConvTypeOK, Used, InMaps
    <3>2. cache[c] # conv[p]
      BY <1>1, <2>1, <2>2, <2>3, <3>1 DEF OwnerInv, ConvTypeOK
    <3>3. PICK q \in Proc : WillReverse(q, c)
      BY <2>1, <2>3, <3>1, <3>2 DEF ReverseInv, ConvTypeOK
    <3>4. q # p
      BY <2>1, <3>2, <3>3 DEF WillReverse
    <3> QED
      BY <1>1, <1>2, <2>1, <3>3, <3>4 DEF WillReverse
  <2>4. ReverseInv'
    BY <2>1, <2>3 DEF ReverseInv
  <2>5. \A q \in Proc, c \in Chat : WillTenant(q, c) => WillTenant(q, c)'
    BY <1>1, <1>2, <2>1 DEF WillTenant
  <2>6. TenantInv'
    BY <2>1, <2>5 DEF TenantInv
  <2> QED
    BY <2>4, <2>6
<1>5. CASE DeleteReverse(p)
  <2>1. /\ reverse' = [reverse EXCEPT ![old[p]] = None] /\ UNCHANGED <<cache, tenants, conv>>
        /\ pc[p] = "deleteReverse" /\ pc'[p] = "deleteTenant" /\ old[p] \in Conv
    BY <1>5 DEF DeleteReverse, ConvTypeOK, LocalInv, HoldsOld, Deleting
  <2>2. Used(old[p], d) /\ WillReverse(p, d)'
    BY <1>1, <2>1 DEF Used, Held, HoldsOld, Deleting, WillReverse
  <2>3. \A q \in Proc, c \in Chat :
          /\ WillReverse(q, c) => WillReverse(q, c)'
          /\ WillTenant(q, c) => WillTenant(q, c)'
    BY <1>1, <1>2, <2>1 DEF WillReverse, WillTenant
  <2>4. ASSUME NEW c \in Chat, cache[c] # None, reverse'[cache[c]] # c
        PROVE  \E q \in Proc : WillReverse(q, c)'
    <3>1. cache[c] \in Conv /\ Used(cache[c], c)
      BY <2>4 DEF ConvTypeOK, Used, InMaps
    <3>2. CASE cache[c] = old[p]
      BY <1>1, <2>1, <2>2, <3>1, <3>2 DEF OwnerInv
    <3>3. CASE cache[c] # old[p]
      BY <2>1, <2>3, <2>4, <3>1, <3>3 DEF ReverseInv, ConvTypeOK
    <3> QED
      BY <3>2, <3>3
  <2>5. ReverseInv'
    BY <2>1, <2>4 DEF ReverseInv
  <2>6. TenantInv'
    BY <2>1, <2>3 DEF TenantInv
  <2> QED
    BY <2>5, <2>6
<1>6. CASE DeleteTenant(p)
  <2>1. /\ tenants' = tenants \ {old[p]} /\ UNCHANGED <<cache, reverse>>
        /\ pc[p] = "deleteTenant" /\ pc'[p] = "storeCache" /\ old[p] \in Conv
    BY <1>6 DEF DeleteTenant, ConvTypeOK, LocalInv, HoldsOld, Deleting
  <2>2. Used(old[p], d) /\ WillReverse(p, d)' /\ WillTenant(p, d)'
    BY <1>1, <2>1 DEF Used, Held, HoldsOld, Deleting, WillReverse, WillTenant
  <2>3. \A q \in Proc, c \in Chat :
          /\ WillReverse(q, c) => WillReverse(q, c)'
          /\ WillTenant(q, c) => WillTenant(q, c)'
    BY <1>1, <1>2, <2>1 DEF WillReverse, WillTenant
  <2>4. ASSUME NEW c \in Chat, cache[c] # None, cache[c] \notin tenants'
        PROVE  \E q \in Proc : WillTenant(q, c)'
    <3>1. cache[c] \in Conv /\ Used(cache[c], c)
      BY <2>4 DEF ConvTypeOK, Used, InMaps
    <3>2. CASE cache[c] = old[p]
      BY <1>1, <2>1, <2>2, <3>1, <3>2 DEF OwnerInv
    <3>3. CASE cache[c] # old[p]
      BY <2>1, <2>3, <2>4, <3>3 DEF TenantInv
    <3> QED
      BY <3>2, <3>3
  <2>5. ReverseInv'
    BY <2>1, <2>3 DEF ReverseInv
  <2>6. TenantInv'
    BY <2>1, <2>4 DEF TenantInv
  <2> QED
    BY <2>5, <2>6
<1>7. CASE ResetDeleteCache(p)
  <2>1. /\ cache' = [cache EXCEPT ![d] = None] /\ UNCHANGED <<reverse, tenants, conv>>
        /\ pc[p] = "resetCache"
    BY <1>7 DEF ResetDeleteCache
  <2>2. \A c \in Chat : cache'[c] # None => cache'[c] = cache[c]
    BY <2>1 DEF ConvTypeOK
  <2>3. \A q \in Proc, c \in Chat :
          cache'[c] = cache[c] =>
            /\ WillReverse(q, c) => WillReverse(q, c)'
            /\ WillTenant(q, c) => WillTenant(q, c)'
    BY <1>1, <1>2, <2>1 DEF WillReverse, WillTenant
  <2>4. ReverseInv'
    BY <2>1, <2>2, <2>3 DEF ReverseInv
  <2>5. TenantInv'
    BY <2>1, <2>2, <2>3 DEF TenantInv
  <2> QED
    BY <2>4, <2>5
<1>8. CASE StoreTenant(p)
  <2>1. UNCHANGED <<cache, reverse, conv>> /\ tenants' = tenants \cup {conv[p]} /\ pc[p] = "storeTenant"
    BY <1>8 DEF StoreTenant
  <2>2. \A q \in Proc, c \in Chat :
          /\ WillReverse(q, c) => WillReverse(q, c)'
          /\ WillTenant(q, c) => WillTenant(q, c)' \/ cache[c] \in tenants'
    BY <1>1, <1>2, <2>1 DEF WillReverse, WillTenant
  <2> QED
    BY <2>1, <2>2, MapsKept
<1>9. CASE \/ ResolveFromCache(p) \/ ResolveFromStore(p) \/ SwitchLoad(p)
           \/ ResetLoadReverse(p) \/ ResetLoadTenant(p)
  <2>1. UNCHANGED <<cache, reverse, tenants>> /\ pc[p] \in {"resolve", "lookup", "switch", "reset", "resetTenant"}
    BY <1>9 DEF ResolveFromCache, ResolveFromStore, SwitchLoad, ResetLoadReverse, ResetLoadTenant
  <2>2. \A q \in Proc, c \in Chat :
          /\ WillReverse(q, c) => WillReverse(q, c)'
          /\ WillTenant(q, c) => WillTenant(q, c)'
    BY <1>1, <1>2, <2>1 DEF WillReverse, WillTenant
  <2> QED
    BY <2>1, <2>2, MapsKept
<1> QED
  BY <1>3, <1>4, <1>5, <1>6, <1>7, <1>8, <1>9 DEF Service, StoreMapping

\* Nobody else owes the maps anything, or takes anything out of them.
LEMMA OtherMaps ==
  ASSUME ConvInv,
         \/ \E p \in Handler : Inbound(p)
         \/ \E k \in Kinds, c \in Chat : Fire(k, c)
         \/ DispatchStep(Dispatcher)
  PROVE  ReverseInv' /\ TenantInv'
<1> USE DEF Goto, maps, store, local, global, history, ConvInv
<1>1. cache' = cache /\ reverse' = reverse /\ tenants \subseteq tenants'
  BY DEF Inbound, Receive, PublishInbound, SaveAside, Fire, DispatchStep, TakeMessage, Told, Register,
         AppendInbound, Answer, TurnFails
<1>2. \A q \in Proc :
        \/ pc'[q] = pc[q] /\ conv'[q] = conv[q] /\ job'[q] = job[q]
        \/ pc[q] \in {"idle", "publish", "told", "register", "append", "history"}
  BY DEF Inbound, Receive, PublishInbound, SaveAside, Fire, DispatchStep, TakeMessage, Told, Register,
         AppendInbound, Answer, TurnFails, ConvTypeOK
<1>3. \A q \in Proc, c \in Chat :
        /\ WillReverse(q, c) => WillReverse(q, c)'
        /\ WillTenant(q, c) => WillTenant(q, c)'
  BY <1>1, <1>2 DEF WillReverse, WillTenant
<1> QED
  BY <1>1, <1>3, MapsKept

-----------------------------------------------------------------------------

\* Before the first message no conversation is in a map, a call or the store.
LEMMA ConvInitial == ConvInit => ConvInv
<1> SUFFICES ASSUME ConvInit PROVE ConvInv
  OBVIOUS
<1>1. ConvTypeOK
  BY ConversationAssumption DEF ConvInit, ConvTypeOK, Place
<1>2. LocalInv
  BY DEF ConvInit, LocalInv, HandlerPlace, DispatcherPlace, HoldsConv, HoldsOld, HoldsNamed,
         Storing, Resetting, Deleting
<1>3. OwnerInv
  BY ConvNotNone DEF ConvInit, OwnerInv, Used, InMaps, InStore, Queued, Held
<1>4. StoreInv /\ ReverseInv /\ TenantInv
  BY DEF ConvInit, StoreInv, ReverseInv, TenantInv
<1> QED
  BY <1>1, <1>2, <1>3, <1>4 DEF ConvInv

\* A chat that has a newest message keeps having one.
LEMMA NewestKept ==
  ASSUME ConvTypeOK, NEW m \in Filed, Save(m), NEW c \in Chat, newest[c] # None
  PROVE  newest'[c] # None
<1>1. <<m.created, m.conv>> \in (1..MaxClock) \X Conv
  BY ConvNotNone DEF Filed, MessageType
<1>2. <<m.created, m.conv>> # None
  BY <1>1, ConvNotNone
<1> HIDE <1>1
<1> QED
  BY <1>2 DEF Save, ConvTypeOK

\* What is filed has a newest message in its chat.
LEMMA StoreStep ==
  ASSUME ConvTypeOK, ConvTypeOK', StoreInv, [ConvNext]_vars
  PROVE  StoreInv'
<1>1. CASE UNCHANGED <<newest, filed>>
  BY <1>1 DEF StoreInv
<1>2. ASSUME NEW m, Save(m) PROVE StoreInv'
  <2>1. m \in filed' /\ filed \subseteq filed'
    BY <1>2 DEF Save
  <2>2. m.chat \in Chat /\ <<m.created, m.conv>> \in (1..MaxClock) \X Conv
    BY <2>1, ConvNotNone DEF ConvTypeOK, Filed, MessageType
  <2> QED
    BY <1>2, <2>1, <2>2, ConvNotNone DEF Save, StoreInv, ConvTypeOK, Filed, MessageType
<1> QED
  BY <1>1, <1>2 DEF ConvNext, Service, StoreMapping, StoreCache, StoreReverse, StoreTenant,
     ResolveFromCache, ResolveFromStore, SwitchLoad, ResetLoadReverse, ResetLoadTenant,
     ResetDeleteCache, DeleteReverse, DeleteTenant, Inbound, Receive, PublishInbound, SaveAside,
     Fire, DispatchStep, TakeMessage, Told, Register, AppendInbound, Answer, TurnFails, Restart,
     vars, maps, store, local, global, history

\* Every step of a caller keeps the invariant of the conversation service.
LEMMA ConvStep ==
  ASSUME ConvInv, [ConvNext]_vars
  PROVE  ConvInv'
<1> DEFINE Rest == ConvTypeOK /\ LocalInv /\ OwnerInv /\ ReverseInv /\ TenantInv
<1>1. ASSUME NEW p \in Proc, Service(p) PROVE Rest'
  <2>1. OwnerInv'
    <3>1. CASE NothingNew
      BY <3>1, OwnersKept DEF ConvInv
    <3>2. CASE OneNew(job[p].chat)
      <4>1. job[p].chat \in Chat
        BY <1>1, ServiceJob
      <4> QED
        BY <3>2, <4>1, OwnersKept DEF ConvInv
    <3> QED
      BY <1>1, <3>1, <3>2, ServiceUses
  <2> QED
    BY <1>1, <2>1, ServiceTypes, ServiceMaps DEF ConvInv
<1>2. ASSUME NEW p \in Handler, Inbound(p) PROVE Rest'
  BY <1>2, InboundTypes, InboundUses, OwnersKept, OtherMaps DEF ConvInv
<1>3. ASSUME NEW k \in Kinds, NEW c \in Chat, Fire(k, c) PROVE Rest'
  BY <1>3, FireTypes, FireUses, OwnersKept, OtherMaps DEF ConvInv
<1>4. ASSUME DispatchStep(Dispatcher) PROVE Rest'
  BY <1>4, DispatchTypes, DispatchUses, OwnersKept, OtherMaps DEF ConvInv
<1>5. ASSUME Restart PROVE Rest'
  <2>1. ReverseInv' /\ TenantInv'
    BY <1>5 DEF Restart, ReverseInv, TenantInv
  <2> QED
    BY <1>5, <2>1, RestartTypes, RestartUses, OwnersKept DEF ConvInv
<1>6. ASSUME UNCHANGED vars PROVE Rest'
  <2>1. ConvTypeOK' /\ LocalInv'
    BY <1>6 DEF vars, maps, store, local, global, history, ConvInv, ConvTypeOK, LocalInv,
                HoldsConv, HoldsOld, HoldsNamed
  <2>2. OwnerInv'
    BY <1>6 DEF vars, maps, store, local, global, history, ConvInv, OwnerInv, Used, InMaps, InStore,
                Queued, Held, HoldsConv, HoldsOld
  <2>3. ReverseInv' /\ TenantInv'
    BY <1>6 DEF vars, maps, store, local, global, history, ConvInv, ReverseInv, TenantInv,
                WillReverse, WillTenant
  <2> QED
    BY <2>1, <2>2, <2>3 DEF ConvInv
<1>7. Rest'
  BY <1>1, <1>2, <1>3, <1>4, <1>5, <1>6 DEF ConvNext
<1>8. StoreInv'
  BY <1>7, StoreStep DEF ConvInv
<1> QED
  BY <1>7, <1>8 DEF ConvInv

\* Conversation keeps ConvInv.
THEOREM ConvInvariant == ConvSpec => []ConvInv
  BY ConvInitial, ConvStep, PTL DEF ConvSpec

\* Type correctness of Conversation.
THEOREM ConvTypes == ConvSpec => []ConvTypeOK
  BY ConvInvariant, PTL DEF ConvInv

\* A conversation never mixes the messages of two chats, and whenever no update
\* of the three maps is under way they agree on the chat it belongs to, however
\* the handlers, the "/new" command and the scheduler overtake each other
\* (conversation/service.go).
THEOREM OneChat == ConvSpec => []OneChatPerConversation
<1>1. ASSUME ConvInv PROVE \A f, g \in filed : f.conv = g.conv => f.chat = g.chat
  <2>1. \A f \in filed : f.conv \in Conv /\ f.chat \in Chat /\ Used(f.conv, f.chat)
    BY <1>1 DEF ConvInv, ConvTypeOK, Filed, MessageType, Used, InStore
  <2> QED
    BY <1>1, <2>1 DEF ConvInv, OwnerInv
<1>2. ASSUME ConvInv PROVE MapsAgree
  BY <1>2 DEF ConvInv, ReverseInv, TenantInv, WillReverse, WillTenant, MapsAgree, Busy
<1> QED
  BY ConvInvariant, <1>1, <1>2, PTL DEF OneChatPerConversation

-----------------------------------------------------------------------------
(* Conversation: a chat nobody steers keeps to one conversation.           *)

\* A job for a chat nobody steers never switches or resets its conversation.
Plain(p) ==
  /\ job[p].kind # "new"
  /\ IF p = Dispatcher
       THEN pc[p] \in {"register", "append", "history"}
       ELSE /\ pc[p] \in {"resolve", "lookup", "storeCache", "storeReverse", "storeTenant", "publish"}
            /\ pc[p] \in {"storeCache", "storeReverse", "storeTenant"} => ret[p] = "publish"

\* Such a chat has one conversation, which the cache or the store knows, unless the
\* handler that minted it is about to say so; and a handler asks the store only
\* while the cache does not know it.
Steady(c) ==
  /\ \A v, w \in Conv : Used(v, c) /\ Used(w, c) => v = w
  /\ cache[c] = None /\ (\E v \in Conv : Used(v, c)) =>
       \/ newest[c] # None
       \/ \E p \in Handler : pc[p] = "storeCache" /\ job[p].chat = c
  /\ \A p \in Proc : pc[p] # "idle" /\ job[p].chat = c => Plain(p)
  /\ \A p \in Handler : pc[p] = "lookup" /\ job[p].chat = c => cache[c] = None
  /\ \A i \in DOMAIN inbound : inbound[i].chat = c => inbound[i].kind # "new"

SteadyInv == \A c \in Chat \ steered : Steady(c)

\* A step after which the chat uses no other conversation than before keeps it
\* steady if goroutines and queue stay plain and it is not forgotten.
LEMMA SteadyKept ==
  ASSUME NEW c \in Chat, Steady(c),
         \A v \in Conv : Used(v, c)' => Used(v, c),
         newest[c] # None => newest'[c] # None,
         \/ cache'[c] # None
         \/ newest'[c] # None
         \/ /\ cache[c] = None
            /\ \A p \in Handler :
                 pc[p] = "storeCache" /\ job[p].chat = c => pc'[p] = "storeCache" /\ job'[p].chat = c,
         \A p \in Proc : pc'[p] # "idle" /\ job'[p].chat = c => Plain(p)',
         \A p \in Handler : pc'[p] = "lookup" /\ job'[p].chat = c => cache'[c] = None,
         \A i \in DOMAIN inbound' : inbound'[i].chat = c => inbound'[i].kind # "new"
  PROVE  Steady(c)'
  BY DEF Steady

\* What the service does for a chat that is steady keeps it steady, with one
\* handler at a time.
LEMMA ServiceSteady ==
  ASSUME ConvInv, NEW c \in Chat, Steady(c), \A p, q \in Handler : p = q,
         NEW p \in Proc, Service(p)
  PROVE  Steady(c)'
<1> USE DEF Goto, maps, store, local, global, history, ConvInv
<1>1. job[p].chat \in Chat /\ pc[p] # "idle" /\ job' = job
  BY ServiceJob
<1>2. \A q \in Proc \ {p} : pc'[q] = pc[q] /\ ret'[q] = ret[q]
  BY DEF Service, StoreMapping, StoreCache, StoreReverse, StoreTenant, ResolveFromCache, ResolveFromStore,
         SwitchLoad, ResetLoadReverse, ResetLoadTenant, ResetDeleteCache, DeleteReverse,
         DeleteTenant, ConvTypeOK
<1>3. UNCHANGED <<newest, filed, inbound>>
  BY DEF Service, StoreMapping, StoreCache, StoreReverse, StoreTenant, ResolveFromCache, ResolveFromStore,
         SwitchLoad, ResetLoadReverse, ResetLoadTenant, ResetDeleteCache, DeleteReverse, DeleteTenant
<1>4. \A d \in Chat : d # job[p].chat => cache'[d] = cache[d]
  BY DEF Service, StoreMapping, StoreCache, StoreReverse, StoreTenant, ResolveFromCache, ResolveFromStore,
         SwitchLoad, ResetLoadReverse, ResetLoadTenant, ResetDeleteCache, DeleteReverse,
         DeleteTenant, ConvTypeOK
<1>5. \A i \in DOMAIN inbound' : inbound'[i].chat = c => inbound'[i].kind # "new"
  BY <1>3 DEF Steady
<1>6. CASE job[p].chat # c
  <2>1. \A v \in Conv : Used(v, c)' => Used(v, c)
    BY <1>6, ServiceUses DEF NothingNew, OneNew
  <2>2. \A q \in Proc : job'[q].chat = c => q # p
    BY <1>1, <1>6
  <2>3. \A q \in Proc : pc'[q] # "idle" /\ job'[q].chat = c => Plain(q)'
    BY <1>1, <1>2, <2>2 DEF Plain, Steady
  <2>4. \A q \in Handler :
          /\ pc'[q] = "lookup" /\ job'[q].chat = c => cache'[c] = None
          /\ pc[q] = "storeCache" /\ job[q].chat = c => pc'[q] = "storeCache" /\ job'[q].chat = c
    BY <1>1, <1>2, <1>4, <1>6, <2>2 DEF Proc, Steady
  <2>5. cache'[c] = cache[c] /\ newest' = newest
    BY <1>3, <1>4, <1>6
  <2> QED
    BY <1>5, <2>1, <2>3, <2>4, <2>5, SteadyKept
<1>7. CASE job[p].chat = c
  <2>1. Plain(p) /\ p # Dispatcher /\ p \in Handler
    BY <1>1, <1>7 DEF Steady, Plain, Proc, Service, StoreMapping, StoreCache, StoreReverse, StoreTenant,
       ResolveFromCache, ResolveFromStore, SwitchLoad, ResetLoadReverse, ResetLoadTenant,
       ResetDeleteCache, DeleteReverse, DeleteTenant
  <2>2. \A q \in Handler : q = p
    BY <2>1
  <2>3. \A q \in Proc : q # p /\ pc'[q] # "idle" /\ job'[q].chat = c => Plain(q)'
    BY <1>1, <1>2 DEF Plain, Steady
  <2>4. CASE StoreCache(p)
    <3>0. conv[p] \in Conv
      BY <2>4 DEF StoreCache, LocalInv, HoldsConv, Storing
    <3>1. cache'[c] # None /\ pc'[p] = "storeReverse" /\ ret' = ret
      BY <1>7, <2>4, <3>0, ConvNotNone DEF StoreCache, ConvTypeOK
    <3>2. NothingNew /\ Plain(p)'
      BY <1>1, <2>1, <2>4, <3>1, ServiceUses DEF Plain, StoreCache
    <3> QED
      BY <1>3, <1>5, <2>2, <2>3, <3>1, <3>2, SteadyKept DEF NothingNew
  <2>5. CASE StoreReverse(p) \/ StoreTenant(p)
    <3>1. /\ pc[p] \in {"storeReverse", "storeTenant"} /\ pc'[p] \in {"storeTenant", "publish"}
          /\ UNCHANGED <<cache, ret>>
      BY <2>1, <2>5 DEF StoreReverse, StoreTenant, Plain, ConvTypeOK
    <3>2. NothingNew /\ Plain(p)'
      BY <1>1, <2>1, <2>5, <3>1, ServiceUses DEF Plain, StoreReverse, StoreTenant
    <3> QED
      BY <1>3, <1>5, <2>2, <2>3, <3>1, <3>2, SteadyKept DEF NothingNew, Steady
  <2>6. CASE ResolveFromCache(p)
    <3>1. /\ pc[p] = "resolve" /\ pc'[p] \in {"lookup", "publish"} /\ UNCHANGED <<cache, ret>>
          /\ pc'[p] = "lookup" => cache[c] = None
      BY <1>7, <2>1, <2>6 DEF ResolveFromCache, AfterResolve, ConvTypeOK
    <3>2. NothingNew /\ Plain(p)'
      BY <1>1, <2>1, <2>6, <3>1, ServiceUses DEF Plain, ResolveFromCache
    <3> QED
      BY <1>3, <1>5, <2>2, <2>3, <3>1, <3>2, SteadyKept DEF NothingNew, Steady
  <2>7. CASE ResolveFromStore(p)
    <3>1. /\ pc[p] = "lookup" /\ pc'[p] = "storeCache" /\ ret'[p] = "publish" /\ UNCHANGED cache
          /\ cache[c] = None
      BY <1>7, <2>1, <2>7 DEF ResolveFromStore, AfterResolve, ConvTypeOK, Steady
    <3>2. Plain(p)'
      BY <1>1, <2>1, <3>1 DEF Plain
    <3>3. \A q \in Proc : pc'[q] # "idle" /\ job'[q].chat = c => Plain(q)'
      BY <2>3, <3>2
    <3>4. CASE NothingNew
      BY <1>3, <1>5, <2>2, <3>1, <3>3, <3>4, SteadyKept DEF NothingNew
    <3>5. CASE OneNew(c) /\ newest[c] = None
      <4>1. \A v \in Conv : ~Used(v, c)
        BY <2>2, <3>1, <3>5 DEF Steady
      <4>2. \A v, w \in Conv : Used(v, c)' /\ Used(w, c)' => v = w
        BY <3>5, <4>1 DEF OneNew
      <4>3. pc'[p] = "storeCache" /\ job'[p].chat = c
        BY <1>1, <1>7, <3>1
      <4> QED
        BY <1>5, <2>1, <2>2, <3>1, <3>3, <4>2, <4>3 DEF Steady
    <3> QED
      BY <1>7, <2>1, <3>4, <3>5, ServiceUses
  <2> QED
    BY <2>1, <2>4, <2>5, <2>6, <2>7 DEF Service, StoreMapping, Plain, SwitchLoad, ResetLoadReverse,
       ResetLoadTenant, ResetDeleteCache, DeleteReverse, DeleteTenant
<1> QED
  BY <1>6, <1>7

\* A message that is received leaves a chat nobody steered where it is.
LEMMA InboundSteady ==
  ASSUME ConvInv, NEW c \in Chat \ steered', Steady(c),
         NEW p \in Handler, Inbound(p)
  PROVE  Steady(c)'
<1> USE DEF Goto, maps, store, local, global, history, ConvInv
<1>1. p \in Proc /\ p # Dispatcher
  BY ConversationAssumption DEF Proc
<1>2. \A q \in Proc \ {p} : pc'[q] = pc[q] /\ ret'[q] = ret[q] /\ job'[q] = job[q]
  BY DEF Inbound, Receive, PublishInbound, SaveAside, ConvTypeOK
<1>3. \A v \in Conv : Used(v, c)' => Used(v, c)
  BY InboundUses DEF NothingNew
<1>4. \A q \in Proc \ {p} : pc'[q] # "idle" /\ job'[q].chat = c => Plain(q)'
  BY <1>2 DEF Plain, Steady
<1>5. pc[p] \in {"idle", "publish"} /\ cache' = cache /\ ret' = ret
  BY DEF Inbound, Receive, PublishInbound, SaveAside
<1>6. \A q \in Handler : pc[q] = "storeCache" /\ job[q].chat = c => pc'[q] = "storeCache" /\ job'[q].chat = c
  BY <1>2, <1>5 DEF Proc
<1>7. ASSUME NEW k \in Kinds, NEW d \in Chat, Receive(p, k, d) PROVE Steady(c)'
  <2>1. pc'[p] # "idle" /\ job'[p].chat = c => Plain(p)' /\ pc'[p] = "resolve"
    <3>1. CASE pc' = [pc EXCEPT ![p] = "resolve"] /\ job' = [job EXCEPT ![p] = Message(k, d, None)]
      <4>1. Message(k, d, None).chat = d /\ Message(k, d, None).kind = k /\ job'[p] = Message(k, d, None)
        BY <1>1, <1>7, <3>1, MessageTyped DEF Receive, ConvTypeOK
      <4>2. d = c => k # "new"
        BY <1>7 DEF Receive
      <4> QED
        BY <1>1, <3>1, <4>1, <4>2 DEF Plain, ConvTypeOK
    <3>2. ASSUME k = "reply",
                 NEW v \in Known(d),
                 job' = [job EXCEPT ![p] = [Message(k, d, v) EXCEPT !.avoid = {}]]
          PROVE  job'[p].chat # c
      <4>1. v \in Conv
        BY DEF Known, ConvTypeOK, Filed, MessageType
      <4>2. Message(k, d, v).chat = d /\ Message(k, d, v) \in MessageType
        BY <1>7, <4>1, MessageTyped DEF Receive
      <4>3. job'[p].chat = d
        BY <1>1, <3>2, <4>2 DEF MessageType, ConvTypeOK
      <4> QED
        BY <1>7, <3>2, <4>3 DEF Receive
    <3> QED
      BY <1>7, <3>1, <3>2 DEF Receive
  <2>2. UNCHANGED <<newest, inbound>> /\ pc[p] = "idle"
    BY <1>7 DEF Receive
  <2>3. \A q \in Proc : pc'[q] # "idle" /\ job'[q].chat = c => Plain(q)'
    BY <1>4, <2>1
  <2>4. \A q \in Handler : pc'[q] = "lookup" /\ job'[q].chat = c => cache'[c] = None
    BY <1>1, <1>2, <1>5, <2>1 DEF Steady, Proc
  <2>5. \A i \in DOMAIN inbound' : inbound'[i].chat = c => inbound'[i].kind # "new"
    BY <2>2 DEF Steady
  <2>6. cache'[c] # None \/ cache[c] = None
    BY <1>5
  <2> QED
    BY <1>3, <1>6, <2>2, <2>3, <2>4, <2>5, <2>6, SteadyKept
<1>8. CASE PublishInbound(p) \/ SaveAside(p)
  <2>1. pc'[p] = "idle" /\ pc[p] = "publish" /\ job' = job
    BY <1>1, <1>8 DEF PublishInbound, SaveAside, ConvTypeOK
  <2>2. newest[c] # None => newest'[c] # None
    <3>1. CASE PublishInbound(p)
      BY <3>1 DEF PublishInbound
    <3>2. CASE SaveAside(p)
      <4>1. Stamped(p) \in Filed /\ Save(Stamped(p))
        BY <1>1, <3>2, ConvNotNone
           DEF SaveAside, Stamped, LocalInv, MessageType, Filed, HoldsConv
      <4> QED
        BY <4>1, NewestKept
    <3> QED
      BY <1>8, <3>1, <3>2
  <2>3. \A i \in DOMAIN inbound' : inbound'[i].chat = c => inbound'[i].kind # "new"
    <3>1. CASE inbound' = Append(inbound, Stamped(p))
      <4>1. Stamped(p).chat = job[p].chat /\ Stamped(p).kind = job[p].kind
        BY <1>1, <2>1 DEF Stamped, LocalInv, MessageType
      <4>2. job[p].chat = c => job[p].kind # "new"
        BY <1>1, <2>1 DEF Steady, Plain
      <4> QED
        BY <3>1, <4>1, <4>2 DEF Steady, ConvTypeOK
    <3>2. CASE inbound' = inbound
      BY <3>2 DEF Steady
    <3> QED
      BY <1>8, <3>1, <3>2 DEF PublishInbound, SaveAside
  <2>4. \A q \in Proc : pc'[q] # "idle" /\ job'[q].chat = c => Plain(q)'
    BY <1>4, <2>1
  <2>5. \A q \in Handler : pc'[q] = "lookup" /\ job'[q].chat = c => cache'[c] = None
    BY <1>1, <1>2, <1>5, <2>1 DEF Steady, Proc
  <2>6. cache'[c] # None \/ cache[c] = None
    BY <1>5
  <2> QED
    BY <1>3, <1>6, <2>2, <2>3, <2>4, <2>5, <2>6, SteadyKept
<1> QED
  BY <1>7, <1>8 DEF Inbound

\* A cron entry that fires for one chat leaves every other one where it is.
LEMMA FireSteady ==
  ASSUME ConvInv, NEW c \in Chat \ steered', Steady(c),
         NEW k \in Kinds, NEW d \in Chat, Fire(k, d)
  PROVE  Steady(c)'
<1> USE DEF maps, store, local, ConvInv
<1>1. c # d
  BY DEF Fire
<1>2. \A v \in Conv : Used(v, c)' => Used(v, c)
  BY <1>1, FireUses DEF NothingNew, OneNew
<1>3. UNCHANGED <<cache, newest, pc, job, ret>>
  BY DEF Fire
<1>4. \A i \in DOMAIN inbound' : inbound'[i].chat = c => inbound'[i].kind # "new"
  <2>1. PICK v \in Conv : inbound' = Append(inbound, Message(k, d, v))
    <3>1. Known(d) \subseteq Conv
      BY DEF Known, ConvTypeOK, Filed, MessageType
    <3> QED
      BY <3>1, MintTyped DEF Fire
  <2>2. Message(k, d, v).chat = d
    BY MessageTyped DEF Fire
  <2> QED
    BY <1>1, <2>1, <2>2 DEF Steady, ConvTypeOK
<1>5. /\ \A q \in Proc : pc'[q] # "idle" /\ job'[q].chat = c => Plain(q)'
      /\ \A q \in Handler : pc'[q] = "lookup" /\ job'[q].chat = c => cache'[c] = None
      /\ \A q \in Handler :
           pc[q] = "storeCache" /\ job[q].chat = c => pc'[q] = "storeCache" /\ job'[q].chat = c
      /\ cache'[c] # None \/ cache[c] = None
  BY <1>3 DEF Steady, Plain
<1> QED
  BY <1>2, <1>3, <1>4, <1>5, SteadyKept

\* A message that is dispatched leaves a chat nobody steered where it is.
LEMMA DispatchSteady ==
  ASSUME ConvInv, NEW c \in Chat, Steady(c), DispatchStep(Dispatcher)
  PROVE  Steady(c)'
<1> DEFINE p == Dispatcher
<1> USE DEF Goto, maps, store, local, global, history, ConvInv
<1>1. p \in Proc /\ p \notin Handler
  BY ConversationAssumption DEF Proc
<1>2. \A q \in Proc \ {p} : pc'[q] = pc[q] /\ ret'[q] = ret[q] /\ job'[q] = job[q]
  BY DEF DispatchStep, TakeMessage, Told, Register, AppendInbound, Answer, TurnFails, ConvTypeOK
<1>3. \A v \in Conv : Used(v, c)' => Used(v, c)
  BY DispatchUses DEF NothingNew
<1>4. cache' = cache /\ (newest[c] # None => newest'[c] # None)
  <2>1. CASE AppendInbound(p)
    <3>1. job[p] \in Filed /\ Save(job[p])
      BY <1>1, <2>1, ConvNotNone DEF AppendInbound, LocalInv, Filed, HoldsNamed
    <3> QED
      BY <2>1, <3>1, NewestKept DEF AppendInbound
  <2>2. CASE Answer(p)
    <3> DEFINE m == [Message("assistant", job[p].chat, job[p].conv) EXCEPT !.avoid = {}]
    <3>1. job[p].conv \in Conv /\ job[p].chat \in Chat
      BY <1>1, <2>2 DEF Answer, LocalInv, HoldsNamed, MessageType
    <3>2. /\ Message("assistant", job[p].chat, job[p].conv) \in MessageType
          /\ Message("assistant", job[p].chat, job[p].conv).conv = job[p].conv
      BY <2>2, <3>1, MessageTyped DEF Answer
    <3>3. m \in Filed
      BY <3>1, <3>2, ConvNotNone DEF Filed, MessageType
    <3>4. Save(m) /\ cache' = cache
      BY <2>2 DEF Answer
    <3> HIDE DEF m
    <3> QED
      BY <3>3, <3>4, NewestKept
  <2>3. CASE TakeMessage(p) \/ Told(p) \/ Register(p) \/ TurnFails(p)
    BY <2>3 DEF TakeMessage, Told, Register, TurnFails
  <2> QED
    BY <2>1, <2>2, <2>3 DEF DispatchStep
<1>5. \A i \in DOMAIN inbound' : inbound'[i].chat = c => inbound'[i].kind # "new"
  <2>1. CASE inbound' = inbound
    BY <2>1 DEF Steady
  <2>2. CASE inbound # <<>> /\ inbound' = Tail(inbound)
    BY <2>2 DEF Steady, ConvTypeOK
  <2> QED
    BY <2>1, <2>2 DEF DispatchStep, TakeMessage, Told, Register, AppendInbound, Answer, TurnFails
<1>6. pc'[p] # "idle" /\ job'[p].chat = c => Plain(p)'
  <2>1. CASE TakeMessage(p)
    <3>1. job'[p] = Head(inbound) /\ Head(inbound) = inbound[1] /\ 1 \in DOMAIN inbound
          /\ pc'[p] = IF Head(inbound).kind = "new" THEN "resolve" ELSE "register"
      BY <1>1, <2>1 DEF TakeMessage, ConvTypeOK
    <3> QED
      BY <3>1 DEF Steady, Plain
  <2>2. CASE Told(p) \/ Register(p) \/ AppendInbound(p) \/ Answer(p) \/ TurnFails(p)
    BY <1>1, <2>2 DEF Told, Register, AppendInbound, Answer, TurnFails, Steady, Plain, ConvTypeOK
  <2> QED
    BY <2>1, <2>2 DEF DispatchStep
<1>7. /\ \A q \in Proc : pc'[q] # "idle" /\ job'[q].chat = c => Plain(q)'
      /\ \A q \in Handler : pc'[q] = "lookup" /\ job'[q].chat = c => cache'[c] = None
      /\ \A q \in Handler :
           pc[q] = "storeCache" /\ job[q].chat = c => pc'[q] = "storeCache" /\ job'[q].chat = c
      /\ cache'[c] # None \/ cache[c] = None
  BY <1>1, <1>2, <1>4, <1>6 DEF Steady, Plain, Proc
<1> QED
  BY <1>3, <1>4, <1>5, <1>7, SteadyKept

\* After a restart a chat nobody steered is found in the store again, as it was.
LEMMA RestartSteady ==
  ASSUME ConvInv, NEW c \in Chat, Steady(c), Restart
  PROVE  Steady(c)'
<1>1. \A v \in Conv : Used(v, c)' => InStore(v, c)
  BY ConvNotNone DEF Restart, Used, InMaps, InStore, Queued, Held, store
<1>2. \A v \in Conv : InStore(v, c) => Used(v, c)
  BY DEF Used
<1>3. \A v \in Conv : InStore(v, c) => newest[c] # None
  BY DEF ConvInv, StoreInv, InStore
<1> QED
  BY <1>1, <1>2, <1>3 DEF Restart, Steady, store

\* No step forgets that a chat was steered.
LEMMA SteeredGrows ==
  ASSUME [ConvNext]_vars
  PROVE  steered \subseteq steered'
  BY DEF ConvNext, Service, StoreMapping, StoreCache, StoreReverse, StoreTenant,
     ResolveFromCache, ResolveFromStore, SwitchLoad, ResetLoadReverse, ResetLoadTenant,
     ResetDeleteCache, DeleteReverse, DeleteTenant, Inbound, Receive, PublishInbound, SaveAside,
     Fire, DispatchStep, TakeMessage, Told, Register, AppendInbound, Answer, TurnFails, Restart,
     vars, maps, store, local, global, history

\* With one inbound handler, no step moves a chat nobody steered.
LEMMA SteadyStep ==
  ASSUME ConvInv, SteadyInv, [ConvNext]_vars, \A p, q \in Handler : p = q
  PROVE  SteadyInv'
<1> SUFFICES ASSUME NEW c \in Chat \ steered' PROVE Steady(c)'
  BY DEF SteadyInv
<1>1. Steady(c)
  BY SteeredGrows DEF SteadyInv
<1>2. CASE ConvNext
  BY <1>1, <1>2, ServiceSteady, InboundSteady, FireSteady, DispatchSteady, RestartSteady DEF ConvNext
<1>3. CASE UNCHANGED vars
  BY <1>1, <1>3 DEF vars, maps, store, local, global, history, Steady, Plain, Used, InMaps, InStore,
     Queued, Held, HoldsConv, HoldsOld
<1> QED
  BY <1>2, <1>3

\* With one handler at a time, SteadyInv holds too.
THEOREM SteadyInvariant ==
  ASSUME \A p, q \in Handler : p = q
  PROVE  ConvSpec => []SteadyInv
<1>1. ConvInit => SteadyInv
  <2> SUFFICES ASSUME ConvInit, NEW c \in Chat \ steered PROVE Steady(c)
    BY DEF SteadyInv
  <2>1. \A p \in Proc : pc[p] = "idle"
    BY DEF ConvInit
  <2>2. DOMAIN inbound = {}
    BY DEF ConvInit
  <2>3. \A v \in Conv : ~InMaps(v, c)
    BY ConvNotNone DEF ConvInit, InMaps
  <2>4. \A v \in Conv : ~InStore(v, c)
    BY DEF ConvInit, InStore
  <2>5. \A v \in Conv : ~Used(v, c)
    BY <2>1, <2>2, <2>3, <2>4 DEF Used, Queued, Held
  <2>6. \A p \in Handler : pc[p] = "idle"
    BY <2>1 DEF Proc
  <2> QED
    BY <2>1, <2>2, <2>5, <2>6 DEF Steady
<1>2. ConvInv /\ SteadyInv /\ [ConvNext]_vars => SteadyInv'
  BY SteadyStep
<1> QED
  BY <1>1, <1>2, ConvInvariant, PTL DEF ConvSpec

\* A chat in which nobody replies, resets or schedules keeps to one conversation,
\* also across restarts, as long as its messages are received one at a time
\* (ResolveConversation of conversation/service.go): two first messages received
\* at once may each mint one.
THEOREM NoSplitOneHandler ==
  ASSUME \A p, q \in Handler : p = q
  PROVE  ConvSpec => []NoSplit
<1>1. ConvInv /\ SteadyInv => NoSplit
  <2> SUFFICES ASSUME ConvInv, SteadyInv, NEW f \in filed, NEW g \in filed,
                      f.chat = g.chat, f.chat \notin steered
               PROVE  f.conv = g.conv
    BY DEF NoSplit
  <2>1. f.chat \in Chat \ steered /\ f.conv \in Conv /\ g.conv \in Conv
    BY DEF ConvInv, ConvTypeOK, Filed, MessageType
  <2>2. Used(f.conv, f.chat) /\ Used(g.conv, f.chat)
    BY DEF Used, InStore
  <2> QED
    BY <2>1, <2>2 DEF SteadyInv, Steady
<1> QED
  BY <1>1, ConvInvariant, SteadyInvariant, PTL
=============================================================================
