------------------------------- MODULE Teams -------------------------------
(***************************************************************************)
(* The Teams channel (channel/teams): webhooks whose signature is checked  *)
(* with keys that the Bot Framework publishes and the plugin caches, and   *)
(* activities posted with an access token that it caches too.              *)
(*                                                                         *)
(* Each cache is behind a mutex that is held during the HTTP calls that    *)
(* fill it.  A call takes at most Latency (the timeout of the client);     *)
(* what the plugin does between calls takes no time.                       *)
(***************************************************************************)
EXTENDS Naturals, FiniteSets

CONSTANTS
  Kid,         \* identifiers of keys
  Webhook,     \* requests of the connector
  Sender,      \* goroutines in Send, sendTypingActivity
  Good,        \* the requests whose claims are valid: audience, issuer, times
  WithFiles,   \* the requests with attachments
  Latency,
  CacheFor,    \* jwksCacheDuration
  Skew,        \* tokenExpirySkew
  Lifetime,    \* of a token (expires_in)
  MaxParts,    \* parts of a message
  MaxTime,     \* bounds the clock
  MaxFaults,   \* bounds the calls that fail
  None

ASSUME TeamsAssumption ==
  /\ Webhook \cap Sender = {} /\ None \notin Webhook \cup Sender
  /\ Good \subseteq Webhook /\ WithFiles \subseteq Webhook
  /\ Latency \in Nat \ {0} /\ CacheFor \in Nat /\ Skew \in Nat
  /\ Lifetime \in Nat \ {0} /\ MaxParts \in Nat \ {0}
  /\ MaxTime \in Nat /\ MaxFaults \in Nat

Process == Webhook \cup Sender

VARIABLES
  clock,
  published,  \* external: the keys that sign
  withdrawn,  \* external: since when a key does not sign any more
  cache,      \* jwksCache: keys and fetchedAt
  keyMutex,   \* who holds jwksCache.mu
  token,      \* tokenCache: the expiry it records, and the real one
  tokenMutex, \* who holds tokenCache.mu
  proc,       \* what each goroutine is at
  faults

teamsVars == <<clock, published, withdrawn, cache, keyMutex, token, tokenMutex, proc, faults>>

AtRest == [pc |-> "rest"]

TeamsInit ==
  /\ clock = 0
  /\ \E k \in Kid : published = {k}
  /\ withdrawn = [k \in Kid |-> None]
  /\ cache = [keys |-> {}, at |-> 0]
  /\ keyMutex = None
  /\ token = [until |-> 0, real |-> 0]
  /\ tokenMutex = None
  /\ proc = [p \in Process |-> AtRest]
  /\ faults = 0

\* p starts a call, or waits for a mutex.
Goes(p, pc) == proc' = [proc EXCEPT ![p].pc = pc, ![p].since = clock]

InCall(p) == proc[p].pc \in {"metadata", "fetch", "fetched", "request", "requested", "post", "posted"}

Tick ==
  /\ clock < MaxTime
  /\ \A p \in Process : InCall(p) => clock < proc[p].since + Latency
  /\ clock' = clock + 1
  /\ UNCHANGED <<published, withdrawn, cache, keyMutex, token, tokenMutex, proc, faults>>

\* The issuer exchanges a key.
Rotate(old, new) ==
  /\ old \in published
  /\ new \notin published /\ withdrawn[new] = None
  /\ published' = (published \ {old}) \cup {new}
  /\ withdrawn' = [withdrawn EXCEPT ![old] = clock]
  /\ proc' = [p \in Process |->
       IF proc[p].pc # "rest" /\ p \in Webhook /\ proc[p].kid = old THEN [proc[p] EXCEPT !.steady = FALSE] ELSE proc[p]]
  /\ UNCHANGED <<clock, cache, keyMutex, token, tokenMutex, faults>>

-----------------------------------------------------------------------------
(* handleWebhook: validateJWT, then the inbound handler.                   *)

\* History: the key signs from the arrival on (steady), a call of this request
\* failed (lost), and when the key was found (used).
Arrive(w, k) ==
  /\ proc[w].pc = "rest"
  /\ proc' = [proc EXCEPT ![w] =
       [pc |-> "key", since |-> 0, kid |-> k, steady |-> k \in published,
        lost |-> FALSE, used |-> 0, got |-> {}, real |-> 0]]
  /\ UNCHANGED <<clock, published, withdrawn, cache, keyMutex, token, tokenMutex, faults>>

\* validateClaims.
Validated(w) == IF w \notin Good THEN "refused" ELSE IF w \in WithFiles THEN "token" ELSE "handle"

\* What a request becomes with the given keys.
Checked(w, keys) ==
  [proc[w] EXCEPT !.pc = IF proc[w].kid \in keys THEN Validated(w) ELSE "refused",
                  !.since = 0, !.used = clock, !.got = {}]

\* Mutants: the cache does not expire; an unknown key waits for the expiry.
FreshAlways(k) == k \in cache.keys

FreshUntilExpiry(k) == cache.keys # {} /\ clock < cache.at + CacheFor

Fresh(k) == k \in cache.keys /\ clock < cache.at + CacheFor

\* getKey with the key in the cache.
CachedKey(w) ==
  /\ proc[w].pc = "key"
  /\ keyMutex = None
  /\ Fresh(proc[w].kid)
  /\ proc' = [proc EXCEPT ![w] = Checked(w, cache.keys)]
  /\ UNCHANGED <<clock, published, withdrawn, cache, keyMutex, token, tokenMutex, faults>>

Refresh(w) ==
  /\ proc[w].pc = "key"
  /\ keyMutex = None
  /\ ~Fresh(proc[w].kid)
  /\ keyMutex' = w
  /\ Goes(w, "metadata")
  /\ UNCHANGED <<clock, published, withdrawn, cache, token, tokenMutex, faults>>

\* The first call says where the keys are.
MetadataFetched(w) ==
  /\ proc[w].pc = "metadata"
  /\ Goes(w, "fetch")
  /\ UNCHANGED <<clock, published, withdrawn, cache, keyMutex, token, tokenMutex, faults>>

\* The server answers with the keys of this moment ...
KeysRead(w) ==
  /\ proc[w].pc = "fetch"
  /\ proc' = [proc EXCEPT ![w] = [@ EXCEPT !.pc = "fetched", !.got = published]]
  /\ UNCHANGED <<clock, published, withdrawn, cache, keyMutex, token, tokenMutex, faults>>

\* ... which arrive later.
KeysFetched(w) ==
  /\ proc[w].pc = "fetched"
  /\ cache' = [keys |-> proc[w].got, at |-> clock]
  /\ keyMutex' = None
  /\ proc' = [proc EXCEPT ![w] = Checked(w, proc[w].got)]
  /\ UNCHANGED <<clock, published, withdrawn, token, tokenMutex, faults>>

\* No status is looked at: an error whose body decodes is an answer without
\* keys, and empties the cache.
EmptyAnswer(w) ==
  /\ proc[w].pc = "fetched"
  /\ faults < MaxFaults
  /\ faults' = faults + 1
  /\ cache' = [keys |-> {}, at |-> clock]
  /\ keyMutex' = None
  /\ proc' = [proc EXCEPT ![w] = [Checked(w, {}) EXCEPT !.lost = TRUE]]
  /\ UNCHANGED <<clock, published, withdrawn, token, tokenMutex>>

FetchFails(w) ==
  /\ proc[w].pc \in {"metadata", "fetch", "fetched"}
  /\ faults < MaxFaults
  /\ faults' = faults + 1
  /\ keyMutex' = None
  /\ proc' = [proc EXCEPT ![w].pc = "refused", ![w].lost = TRUE, ![w].since = 0, ![w].got = {}]
  /\ UNCHANGED <<clock, published, withdrawn, cache, token, tokenMutex>>

\* The handler returns, and the response is 200 whatever it returned.
Handle(w) ==
  /\ proc[w].pc = "handle"
  /\ proc' = [proc EXCEPT ![w].pc = "handled"]
  /\ UNCHANGED <<clock, published, withdrawn, cache, keyMutex, token, tokenMutex, faults>>

-----------------------------------------------------------------------------
(* getAccessToken, for the attachments of a webhook or for a message.      *)

\* What p does with the token t (or None): it posts the first part, or
\* downloads and handles.
With(p, t) ==
  proc' = [proc EXCEPT ![p] =
    IF p \in Webhook THEN [@ EXCEPT !.pc = "handle", !.since = 0, !.real = 0]
    ELSE IF t = None THEN [@ EXCEPT !.pc = "failed", !.since = 0]
    ELSE [@ EXCEPT !.pc = "post", !.since = clock, !.real = t.real]]

BeginSend(s) ==
  /\ proc[s].pc = "rest"
  /\ proc' = [proc EXCEPT ![s] = [pc |-> "token", since |-> 0, part |-> 1, real |-> 0, status |-> "none"]]
  /\ UNCHANGED <<clock, published, withdrawn, cache, keyMutex, token, tokenMutex, faults>>

\* Mutant: a token is used until it expires.
UsableToTheEnd == clock < token.until

Usable == clock + Skew < token.until

CachedToken(p) ==
  /\ proc[p].pc = "token"
  /\ tokenMutex = None
  /\ Usable
  /\ With(p, token)
  /\ UNCHANGED <<clock, published, withdrawn, cache, keyMutex, token, tokenMutex, faults>>

RequestToken(p) ==
  /\ proc[p].pc = "token"
  /\ tokenMutex = None
  /\ ~Usable
  /\ tokenMutex' = p
  /\ Goes(p, "request")
  /\ UNCHANGED <<clock, published, withdrawn, cache, keyMutex, token, faults>>

TokenIssued(p) ==
  /\ proc[p].pc = "request"
  /\ proc' = [proc EXCEPT ![p].pc = "requested", ![p].real = clock + Lifetime]
  /\ UNCHANGED <<clock, published, withdrawn, cache, keyMutex, token, tokenMutex, faults>>

\* expires_in counts from the receipt.
TokenReceived(p) ==
  /\ proc[p].pc = "requested"
  /\ token' = [until |-> clock + Lifetime, real |-> proc[p].real]
  /\ tokenMutex' = None
  /\ With(p, token')
  /\ UNCHANGED <<clock, published, withdrawn, cache, keyMutex, faults>>

\* Neither tenant gives one.
TokenFails(p) ==
  /\ proc[p].pc \in {"request", "requested"}
  /\ faults < MaxFaults
  /\ faults' = faults + 1
  /\ tokenMutex' = None
  /\ With(p, None)
  /\ UNCHANGED <<clock, published, withdrawn, cache, keyMutex, token>>

-----------------------------------------------------------------------------
(* Send: the parts in order with the token taken at the beginning.         *)

\* The connector looks at the token when the activity arrives.
Posted(s) ==
  /\ proc[s].pc = "post"
  /\ proc' = [proc EXCEPT ![s].pc = "posted", ![s].status = IF clock < proc[s].real THEN "created" ELSE "unauthorized"]
  /\ UNCHANGED <<clock, published, withdrawn, cache, keyMutex, token, tokenMutex, faults>>

\* Any other status than success ends Send; so does a lost response.
Response(s) ==
  /\ proc[s].pc = "posted"
  /\ proc' = [proc EXCEPT ![s] =
       IF @.status = "unauthorized" THEN [@ EXCEPT !.pc = "failed", !.since = 0]
       ELSE IF @.part = MaxParts THEN [@ EXCEPT !.pc = "sent", !.since = 0]
       ELSE [@ EXCEPT !.pc = "post", !.since = clock, !.part = proc[s].part + 1, !.status = "none"]]
  /\ UNCHANGED <<clock, published, withdrawn, cache, keyMutex, token, tokenMutex, faults>>

PostFails(s) ==
  /\ proc[s].pc \in {"post", "posted"}
  /\ faults < MaxFaults
  /\ faults' = faults + 1
  /\ proc' = [proc EXCEPT ![s].pc = "failed", ![s].since = 0]
  /\ UNCHANGED <<clock, published, withdrawn, cache, keyMutex, token, tokenMutex>>

-----------------------------------------------------------------------------
KeyStep(w) ==
  \/ CachedKey(w) \/ Refresh(w) \/ MetadataFetched(w) \/ KeysRead(w) \/ KeysFetched(w)
  \/ EmptyAnswer(w) \/ FetchFails(w) \/ Handle(w)

TokenStep(p) == CachedToken(p) \/ RequestToken(p) \/ TokenIssued(p) \/ TokenReceived(p) \/ TokenFails(p)

SendStep(s) == Posted(s) \/ Response(s) \/ PostFails(s)

TeamsNext ==
  \/ Tick
  \/ \E old, new \in Kid : Rotate(old, new)
  \/ \E w \in Webhook : KeyStep(w) \/ \E k \in Kid : Arrive(w, k)
  \/ \E s \in Sender : BeginSend(s) \/ SendStep(s)
  \/ \E p \in Process : TokenStep(p)

TeamsSpec == TeamsInit /\ [][TeamsNext]_teamsVars

-----------------------------------------------------------------------------
WebhookRow ==
  [pc : {"key", "metadata", "fetch", "fetched", "token", "request", "requested", "handle", "handled", "refused"},
   since : Nat, kid : Kid, steady : BOOLEAN, lost : BOOLEAN, used : Nat, got : SUBSET Kid, real : Nat]

SenderRow ==
  [pc : {"token", "request", "requested", "post", "posted", "failed", "sent"},
   since : Nat, part : 1..MaxParts, real : Nat, status : {"none", "created", "unauthorized"}]

Rows(p) == {AtRest} \cup (IF p \in Webhook THEN WebhookRow ELSE SenderRow)

\* Every variable has its type, and no token is recorded to expire before it does.
TeamsTypeOK ==
  /\ clock \in 0..MaxTime
  /\ published \subseteq Kid /\ withdrawn \in [Kid -> 0..MaxTime \cup {None}]
  /\ cache \in [keys : SUBSET Kid, at : 0..clock]
  /\ keyMutex \in Webhook \cup {None}
  /\ token \in [until : Nat, real : Nat] /\ token.real <= token.until
  /\ proc \in [Process -> {AtRest} \cup WebhookRow \cup SenderRow]
  /\ \A p \in Process : proc[p] \in Rows(p)
  /\ tokenMutex \in Process \cup {None}
  /\ faults \in 0..MaxFaults

\* A request signed with a key that is published while it is checked is
\* refused only for its claims or because the keys could not be fetched: a
\* key that came up since the last fetch is looked for at once.
CurrentKeyAccepted ==
  \A w \in Webhook :
    proc[w].pc = "refused" => ~proc[w].steady \/ w \notin Good \/ proc[w].lost

\* A withdrawn key is accepted no longer than the cache lives and its fetch
\* took.
WithdrawnKeyBounded ==
  \A w \in Webhook : proc[w].pc \in {"token", "handle", "handled"} =>
    withdrawn[proc[w].kid] = None \/ proc[w].used < withdrawn[proc[w].kid] + CacheFor + Latency + 1

\* The keys that requests are checked with follow the published ones both ways,
\* though they are fetched by one request and used by others.
KeysFollowPublisher == CurrentKeyAccepted /\ WithdrawnKeyBounded

\* A part finds its token valid as long as it and those before it fit into the
\* skew, although the recorded expiry is later than the real one: with 30
\* seconds and calls of 10, two parts do, a third may not.
TokenOutlivesParts ==
  \A s \in Sender : (proc[s].pc \in {"posted", "failed"} /\ proc[s].status = "unauthorized") =>
    (proc[s].part + 1) * Latency > Skew

\* A mutex is held by a goroutine in the calls it guards, and by no other:
\* those who wait for it wait for a call that ends, also when it fails, and
\* what one call fetches is not overwritten by another that began before.
HoldersAreInCalls ==
  /\ {w \in Webhook : proc[w].pc \in {"metadata", "fetch", "fetched"}} = {keyMutex} \ {None}
  /\ {p \in Process : proc[p].pc \in {"request", "requested"}} = {tokenMutex} \ {None}
=============================================================================
