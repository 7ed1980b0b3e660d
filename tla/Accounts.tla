------------------------------ MODULE Accounts ------------------------------
(***************************************************************************)
(* Who a message is from: identity resolution with its cache               *)
(* (service/identity), joining by invite code or open policy               *)
(* (service/onboarding), the inbound handler that calls both, the tables   *)
(* they share, and the commands of the administration CLI on these tables. *)
(*                                                                         *)
(* Channels run their handlers side by side (the Teams webhook: one per    *)
(* request) or one at a time (Telegram: one Handler).  Every write of the  *)
(* store is a step and may fail; reads that follow one another are one     *)
(* step.  Everything is on one channel: the caches and tables key users,   *)
(* chats and workspaces by channel and external ID, so that of another     *)
(* channel is another Ext, Chat or Space.                                  *)
(***************************************************************************)
EXTENDS Naturals, FiniteSets, FiniteSetsExt

CONSTANTS
  Handler,
  Ext,         \* external users
  Chat,        \* external chats
  Group,       \* those that are groups
  Space,       \* external workspaces
  SpaceOf,     \* the workspace of a chat
  Writes,      \* <<ext, chat>>: who writes where; a direct chat has one writer
  Code,        \* invite codes
  MaxTenants, MaxUsers, MaxChats,  \* bound the IDs ever minted
  MaxMessages, \* bounds the messages
  MaxAdmin,    \* bounds the commands of the administrator
  MayRemap,    \* whether a workspace may change its tenant, or a tenant go
  None

Tenant == 1..MaxTenants
User == 1..MaxUsers
ChatID == 1..MaxChats

ASSUME AccountsAssumption ==
  /\ {MaxChats, MaxMessages, MaxAdmin} \subseteq Nat
  /\ {MaxTenants, MaxUsers} \subseteq Nat \ {0}
  /\ Group \subseteq Chat
  /\ SpaceOf \in [Chat -> Space]
  /\ Writes \subseteq Ext \X Chat
  /\ MayRemap \in BOOLEAN
  /\ None \notin Code

VARIABLES
  tenants,     \* tables
  users,
  identities,
  mappings,
  codes,
  chats,
  cacheUsers,  \* identity cache: of direct senders, and of chats
  cacheChats,
  handler,     \* inbound handlers
  messages,    \* messages received
  admin,       \* commands given
  owners,      \* history: <<tenant, ext, user>> that were ever identities
  welcomed,    \* history: joins each code was good for
  admitted     \* history: users with an identity by each code

store == <<tenants, users, identities, mappings, codes, chats>>
cache == <<cacheUsers, cacheChats>>
history == <<owners, welcomed, admitted>>
vars == <<store, cache, handler, messages, admin, history>>

NoTenant == [state |-> "none", policy |-> None]
NoUser == [state |-> "none", tenant |-> 0]
NoCode == [state |-> "none"]
NoChat == [id |-> 0, user |-> 0]
AtRest == [pc |-> "rest"]

Live(u) == u # 0 /\ users[u].state = "live"
LiveTenant(t) == t # 0 /\ tenants[t].state = "live"

\* Mutant: the query forgets the tenant.
UserOnAny(t, e) ==
  LET found == {identities[<<s, e>>] : s \in Tenant} \ {0}
  IN IF t # 0 /\ (\E u \in found : Live(u)) THEN Min({u \in found : Live(u)}) ELSE 0

\* GetUserByChannel: 0 when there is none, or it was removed.
UserOn(t, e) == IF t # 0 /\ Live(identities[<<t, e>>]) THEN identities[<<t, e>>] ELSE 0

NewTenant == {t \in Tenant : tenants[t].state = "none" /\ \A s \in 1..(t - 1) : tenants[s].state # "none"}
NewUser == {u \in User : users[u].state = "none" /\ \A v \in 1..(u - 1) : users[v].state # "none"}
Minted == {chats[k].id : k \in DOMAIN chats} \cup {handler[h].id : h \in {x \in Handler : handler[x].pc # "rest"}}
            \cup {cacheChats[c].id : c \in {x \in Chat : cacheChats[x] # None}}
NewChat == {i \in ChatID : i \notin Minted /\ \A j \in 1..(i - 1) : j \in Minted}

\* One tenant with the first user of the first workspace, as any earlier run of
\* the process can leave it.
AccountsInit ==
  /\ \E policy \in {"open", "invite_required"}, e \in Ext, s \in Space :
       /\ tenants = [t \in Tenant |-> IF t = 1 THEN [state |-> "live", policy |-> policy] ELSE NoTenant]
       /\ users = [u \in User |-> IF u = 1 THEN [state |-> "live", tenant |-> 1] ELSE NoUser]
       /\ identities = [k \in Tenant \X Ext |-> IF k = <<1, e>> THEN 1 ELSE 0]
       /\ mappings = [x \in Space |-> IF x = s THEN 1 ELSE 0]
       /\ owners = {<<1, e, 1>>}
  /\ codes = [c \in Code |-> NoCode]
  /\ chats = [k \in Tenant \X Chat |-> NoChat]
  /\ cacheUsers = [e \in Ext |-> None]
  /\ cacheChats = [c \in Chat |-> None]
  /\ handler = [h \in Handler |-> AtRest]
  /\ messages = 0
  /\ admin = 0
  /\ welcomed = [c \in Code |-> 0]
  /\ admitted = [c \in Code |-> {}]

-----------------------------------------------------------------------------
(* A message comes in.                                                     *)

Is(h, pc) == handler[h].pc = pc
Put(h, r) == handler' = [handler EXCEPT ![h] = r]
Goes(h, pc) == Put(h, [handler[h] EXCEPT !.pc = pc])
Ends(h) == Put(h, AtRest)

Ext_(h) == handler[h].ext
Chat_(h) == handler[h].chat
InGroup(h) == Chat_(h) \in Group
Mapped(h) == mappings[SpaceOf[Chat_(h)]]

Receive(h, w, code, mention) ==
  /\ Is(h, "rest")
  /\ messages < MaxMessages
  /\ messages' = messages + 1
  /\ Put(h, [pc |-> "resolve", ext |-> w[1], chat |-> w[2], code |-> code, mention |-> mention,
             tenant |-> 0, user |-> 0, id |-> 0, kind |-> None, again |-> FALSE, merged |-> FALSE])
  /\ UNCHANGED <<store, cache, admin, history>>

\* ErrUnknownUser: join, unless this is the message resolved again after that.
\* The tenant counts in a group only.
Unknown(h, t) ==
  IF handler[h].again THEN Ends(h)
  ELSE Put(h, [handler[h] EXCEPT !.pc = "join", !.tenant = IF InGroup(h) THEN t ELSE 0])

Known(h, t, u) == Put(h, [handler[h] EXCEPT !.pc = "chat", !.tenant = t, !.user = u])

Cached(h) == cacheUsers[Ext_(h)]

\* resolveUserInbound.  A mapping may lead to a tenant that was deleted, and the
\* code then goes on with a nil tenant.
ResolveUser(h) ==
  /\ Is(h, "resolve")
  /\ ~InGroup(h)
  /\ IF Cached(h) # None THEN Known(h, Cached(h).tenant, Cached(h).user)
     ELSE IF UserOn(Mapped(h), Ext_(h)) = 0 THEN Unknown(h, 0)
     ELSE IF ~LiveTenant(Mapped(h)) THEN Goes(h, "panic")
     ELSE Known(h, Mapped(h), UserOn(Mapped(h), Ext_(h)))
  /\ UNCHANGED <<store, cache, messages, admin, history>>

\* resolveGroupInbound up to the chat.  An unknown group is discarded, or joined
\* like an unknown user when the agent is mentioned.
ResolveGroup(h) ==
  /\ Is(h, "resolve")
  /\ InGroup(h)
  /\ IF cacheChats[Chat_(h)] # None THEN Known(h, cacheChats[Chat_(h)].tenant, 0)
     ELSE IF Mapped(h) # 0 THEN Known(h, Mapped(h), 0)
     ELSE IF handler[h].mention THEN Unknown(h, 0)
     ELSE Ends(h)
  /\ UNCHANGED <<store, cache, messages, admin, history>>

Found(h, id) == Put(h, [handler[h] EXCEPT !.pc = "found", !.id = id])

\* The chat, by the cache or the store.  The cache knows it by its external ID.
ResolveChat(h) ==
  LET t == handler[h].tenant IN
  /\ Is(h, "chat")
  /\ IF cacheChats[Chat_(h)] # None THEN Found(h, cacheChats[Chat_(h)].id)
     ELSE IF chats[<<t, Chat_(h)>>] # NoChat THEN Found(h, chats[<<t, Chat_(h)>>].id)
     ELSE IF InGroup(h) /\ ~LiveTenant(t) THEN Goes(h, "panic")
     ELSE Goes(h, "create")
  /\ UNCHANGED <<store, cache, messages, admin, history>>

\* CreateChat: an upsert that keeps the ID of a row that is there, while the
\* caller goes on with the ID it has minted.
CreateChat(h) ==
  LET t == handler[h].tenant
      row == chats[<<t, Chat_(h)>>]
  IN \E id \in NewChat :
       /\ Is(h, "create")
       /\ chats' = [chats EXCEPT ![<<t, Chat_(h)>>] =
                      [id |-> IF row.id = 0 THEN id ELSE row.id,
                       user |-> IF InGroup(h) THEN 0 ELSE UserOn(t, Ext_(h))]]
       /\ Found(h, id)
       /\ UNCHANGED <<tenants, users, identities, mappings, codes, cache, messages, admin, history>>

\* Both caches are written; in a group the sender is looked up.
Resolved(h) ==
  LET t == handler[h].tenant
      sender == UserOn(t, Ext_(h))
  IN /\ Is(h, "found")
     /\ cacheChats' = IF cacheChats[Chat_(h)] = None \/ handler[h].id # cacheChats[Chat_(h)].id
                        THEN [cacheChats EXCEPT ![Chat_(h)] = [tenant |-> t, id |-> handler[h].id]]
                        ELSE cacheChats
     /\ IF InGroup(h)
          THEN /\ UNCHANGED cacheUsers
               /\ IF sender = 0 THEN Unknown(h, t)
                  ELSE Put(h, [handler[h] EXCEPT !.pc = "resolved", !.user = sender])
          ELSE /\ cacheUsers' = IF Cached(h) # None THEN cacheUsers
                                ELSE [cacheUsers EXCEPT ![Ext_(h)] = [tenant |-> t, user |-> handler[h].user]]
               /\ Goes(h, "resolved")
     /\ UNCHANGED <<store, messages, admin, history>>

\* The message goes to its conversation and to the agent (see Conversation and
\* AgentRuntime).
Pass(h) ==
  /\ Is(h, "resolved")
  /\ Ends(h)
  /\ UNCHANGED <<store, cache, messages, admin, history>>

Resolve(h) ==
  \/ ResolveUser(h) \/ ResolveGroup(h) \/ ResolveChat(h) \/ CreateChat(h) \/ Resolved(h) \/ Pass(h)

-----------------------------------------------------------------------------
(* TryJoin.                                                                *)

Valid(c) == codes[c].state = "active"

\* What the code is for; a code that is not valid is rejected.
JoinWithCode(h) ==
  LET c == handler[h].code
      code == codes[c]
      existing == UserOn(code.tenant, Ext_(h))
  IN /\ Is(h, "join")
     /\ c # None
     /\ IF ~Valid(c) THEN Ends(h)
        ELSE CASE code.type = "tenant" /\ code.target = 0 ->
                    Put(h, [handler[h] EXCEPT !.pc = "newTenant", !.kind = "tenant"])
               [] code.type = "tenant" /\ code.target # 0 ->
                    IF ~LiveTenant(code.target) \/ Mapped(h) \notin {0, code.target} THEN Ends(h)
                    ELSE Put(h, [handler[h] EXCEPT !.pc = "map", !.tenant = code.target, !.kind = "link"])
               [] code.type = "user" /\ code.target = 0 ->
                    Put(h, [handler[h] EXCEPT !.pc = "newUser", !.tenant = code.tenant, !.kind = "user"])
               [] code.type = "user" /\ code.target # 0 ->
                    IF ~Live(code.target) \/ users[code.target].tenant # code.tenant THEN Ends(h)
                    ELSE Put(h, [handler[h] EXCEPT
                           !.pc = IF existing \notin {0, code.target} THEN "merge" ELSE "identity",
                           !.tenant = code.tenant, !.user = code.target, !.kind = "user"])
     /\ UNCHANGED <<store, cache, messages, admin, history>>

JoinWithoutCode(h) ==
  LET t == IF handler[h].tenant # 0 THEN handler[h].tenant ELSE Mapped(h) IN
  /\ Is(h, "join")
  /\ handler[h].code = None
  /\ IF t = 0 THEN Ends(h)
     ELSE IF ~LiveTenant(t) THEN Goes(h, "panic")
     ELSE IF tenants[t].policy # "open" THEN Ends(h)
     ELSE Put(h, [handler[h] EXCEPT !.pc = "newUser", !.tenant = t, !.kind = "auto"])
  /\ UNCHANGED <<store, cache, messages, admin, history>>

\* SaveTenant, SaveAgent and SaveTenant: nobody knows the tenant yet.
CreateTenant(h) ==
  \E t \in NewTenant :
    /\ Is(h, "newTenant")
    /\ tenants' = [tenants EXCEPT ![t] = [state |-> "live", policy |-> "invite_required"]]
    /\ Put(h, [handler[h] EXCEPT !.pc = "newUser", !.tenant = t])
    /\ UNCHANGED <<users, identities, mappings, codes, chats, cache, messages, admin, history>>

SaveUser(h) ==
  \E u \in NewUser :
    /\ Is(h, "newUser")
    /\ users' = [users EXCEPT ![u] = [state |-> "live", tenant |-> handler[h].tenant]]
    /\ Put(h, [handler[h] EXCEPT !.pc = "identity", !.user = u])
    /\ UNCHANGED <<tenants, identities, mappings, codes, chats, cache, messages, admin, history>>

MergedIdentities(t, from, to) == [k \in DOMAIN identities |->
                                   IF identities[k] = from THEN to ELSE identities[k]]

\* MergeUser, in one transaction.  Messages, journal, cron entries and errors
\* follow the identities; chats, memory and secrets do not.
MergeUser(h) ==
  LET t == handler[h].tenant
      from == UserOn(t, Ext_(h))
      to == handler[h].user
  IN /\ Is(h, "merge")
     /\ from \notin {0, to}
     /\ Live(to)
     /\ identities' = MergedIdentities(t, from, to)
     /\ users' = [users EXCEPT ![from] = [state |-> "merged", tenant |-> t]]
     /\ owners' = owners \cup {<<k[1], k[2], to>> : k \in {x \in DOMAIN identities : identities[x] = from}}
     /\ Put(h, [handler[h] EXCEPT !.pc = "identity", !.merged = TRUE])
     /\ UNCHANGED <<tenants, mappings, codes, chats, cache, messages, admin, welcomed, admitted>>

\* AddUserIdentity, an upsert whose foreign key refuses a user that was merged.
\* After a merge the user was read again and may be nil.
AddIdentity(h) ==
  LET t == handler[h].tenant
      u == handler[h].user
  IN /\ Is(h, "identity")
     /\ IF handler[h].merged /\ ~Live(u)
          THEN Goes(h, "panic") /\ UNCHANGED <<identities, owners, admitted>>
        ELSE IF users[u].state = "merged"
          THEN Ends(h) /\ UNCHANGED <<identities, owners, admitted>>
        ELSE /\ identities' = [identities EXCEPT ![<<t, Ext_(h)>>] = u]
             /\ owners' = owners \cup {<<t, Ext_(h), u>>}
             /\ admitted' = IF handler[h].kind = "auto" THEN admitted
                            ELSE [admitted EXCEPT ![handler[h].code] = @ \cup {u}]
             /\ Put(h, IF handler[h].kind = "auto"
                         THEN [handler[h] EXCEPT !.pc = "resolve", !.tenant = 0, !.user = 0, !.id = 0, !.again = TRUE]
                       ELSE [handler[h] EXCEPT !.pc = IF handler[h].kind = "tenant" THEN "map" ELSE "use"])
     /\ UNCHANGED <<tenants, users, mappings, codes, chats, cache, messages, admin, welcomed>>

\* INSERT OR REPLACE.
SaveMapping(h) ==
  /\ Is(h, "map")
  /\ mappings' = [mappings EXCEPT ![SpaceOf[Chat_(h)]] = handler[h].tenant]
  /\ Goes(h, "use")
  /\ UNCHANGED <<tenants, users, identities, codes, chats, cache, messages, admin, history>>

\* Mutant: the code is marked whatever has become of it since it was read.
UsableAlways(c) == TRUE

Usable(c) == Valid(c)

\* UseInviteCode: one UPDATE that looks again.  The answer is a welcome, or a
\* rejection although everything else is done.
UseCode(h) ==
  LET c == handler[h].code IN
  /\ Is(h, "use")
  /\ IF Usable(c)
       THEN /\ codes' = [codes EXCEPT ![c].state = "used"]
            /\ welcomed' = [welcomed EXCEPT ![c] = @ + 1]
       ELSE UNCHANGED <<codes, welcomed>>
  /\ Ends(h)
  /\ UNCHANGED <<tenants, users, identities, mappings, chats, cache, messages, admin, owners, admitted>>

\* A store call fails: the sender is rejected, or the message dropped.
Fails(h) ==
  /\ handler[h].pc \notin {"rest", "resolved", "panic"}
  /\ Ends(h)
  /\ UNCHANGED <<store, cache, messages, admin, history>>

Join(h) ==
  \/ JoinWithCode(h) \/ JoinWithoutCode(h)
  \/ CreateTenant(h) \/ SaveUser(h) \/ MergeUser(h) \/ AddIdentity(h) \/ SaveMapping(h) \/ UseCode(h)

-----------------------------------------------------------------------------
(* The administrator, in a process of his own.                             *)

Command ==
  /\ admin < MaxAdmin
  /\ admin' = admin + 1
  /\ UNCHANGED <<cache, handler, messages, history>>

\* invite create.  Nobody checks that a target exists: GetUser and GetTenant
\* answer nil and no error.
InviteCreate(c, type, t, target) ==
  /\ Command
  /\ codes[c].state = "none"
  /\ codes' = [codes EXCEPT ![c] = [state |-> "active", type |-> type, tenant |-> t, target |-> target]]
  /\ UNCHANGED <<tenants, users, identities, mappings, chats>>

InviteRevoke(c) ==
  /\ Command
  /\ codes[c].state = "active"
  /\ codes' = [codes EXCEPT ![c].state = "revoked"]
  /\ UNCHANGED <<tenants, users, identities, mappings, chats>>

UserRemove(u) ==
  /\ Command
  /\ Live(u)
  /\ users' = [users EXCEPT ![u].state = "removed"]
  /\ UNCHANGED <<tenants, identities, mappings, codes, chats>>

TenantDelete(t) ==
  /\ Command
  /\ LiveTenant(t)
  /\ tenants' = [tenants EXCEPT ![t].state = "deleted"]
  /\ UNCHANGED <<users, identities, mappings, codes, chats>>

TenantUpdate(t, policy) ==
  /\ Command
  /\ LiveTenant(t)
  /\ tenants' = [tenants EXCEPT ![t].policy = policy]
  /\ UNCHANGED <<users, identities, mappings, codes, chats>>

MappingDelete(s) ==
  /\ Command
  /\ mappings[s] # 0
  /\ mappings' = [mappings EXCEPT ![s] = 0]
  /\ UNCHANGED <<tenants, users, identities, codes, chats>>

\* A tenant code of a workspace that has a tenant replaces it: without MayRemap
\* none is made once there are only such workspaces.
Administer ==
  \/ \E c \in Code, t \in Tenant, target \in User \cup {0} : InviteCreate(c, "user", t, target)
  \/ \E c \in Code, target \in Tenant \cup {0} :
       (MayRemap \/ target # 0) /\ InviteCreate(c, "tenant", 0, target)
  \/ \E c \in Code : InviteRevoke(c)
  \/ \E u \in User : UserRemove(u)
  \/ \E t \in Tenant : MayRemap /\ TenantDelete(t)
  \/ \E t \in Tenant : TenantUpdate(t, "open") \/ TenantUpdate(t, "invite_required")
  \/ \E s \in Space : MayRemap /\ MappingDelete(s)

\* A panic ends a webhook request, or the process; the process may also be
\* stopped.
Recover(h) ==
  /\ Is(h, "panic")
  /\ Ends(h)
  /\ UNCHANGED <<store, cache, messages, admin, history>>

Restart ==
  /\ handler' = [h \in Handler |-> AtRest]
  /\ cacheUsers' = [e \in Ext |-> None]
  /\ cacheChats' = [c \in Chat |-> None]
  /\ UNCHANGED <<store, messages, admin, history>>

AccountsNext ==
  \/ \E h \in Handler :
       \/ \E w \in Writes, code \in Code \cup {None} :
            \E mention \in IF w[2] \in Group THEN BOOLEAN ELSE {TRUE} : Receive(h, w, code, mention)
       \/ Resolve(h) \/ Join(h) \/ Fails(h) \/ Recover(h)
  \/ Administer
  \/ Restart

AccountsSpec == AccountsInit /\ [][AccountsNext]_vars

-----------------------------------------------------------------------------
(* Properties.                                                             *)

TenantRef == Tenant \cup {0}
UserRef == User \cup {0}

TenantRow == [state : {"none", "live", "deleted"}, policy : {None, "open", "invite_required"}]
UserRow == [state : {"none", "live", "merged", "removed"}, tenant : TenantRef]

CodeState == {"active", "used", "revoked"}
UserCode == [state : CodeState, type : {"user"}, tenant : Tenant, target : UserRef]
TenantCode == [state : CodeState, type : {"tenant"}, tenant : {0}, target : TenantRef]

Place ==
  {"resolve", "chat", "create", "found", "resolved", "panic",
   "join", "newTenant", "newUser", "merge", "identity", "map", "use"}

Message ==
  [pc : Place, ext : Ext, chat : Chat, code : Code \cup {None}, mention : BOOLEAN,
   tenant : TenantRef, user : UserRef, id : ChatID \cup {0},
   kind : {None, "tenant", "link", "user", "auto"}, again : BOOLEAN, merged : BOOLEAN]

AccountsTypeOK ==
  /\ tenants \in [Tenant -> TenantRow]
  /\ users \in [User -> UserRow]
  /\ identities \in [Tenant \X Ext -> UserRef]
  /\ mappings \in [Space -> TenantRef]
  /\ codes \in [Code -> {NoCode} \cup UserCode \cup TenantCode]
  /\ chats \in [Tenant \X Chat -> [id : ChatID \cup {0}, user : UserRef]]
  /\ cacheUsers \in [Ext -> [tenant : Tenant, user : User] \cup {None}]
  /\ cacheChats \in [Chat -> [tenant : Tenant, id : ChatID] \cup {None}]
  /\ handler \in [Handler -> Message \cup {AtRest}]
  /\ messages \in 0..MaxMessages
  /\ admin \in 0..MaxAdmin
  /\ owners \in SUBSET (Tenant \X Ext \X User)
  /\ welcomed \in [Code -> Nat]
  /\ admitted \in [Code -> SUBSET User]

\* A code is good for one welcome, although it is read long before it is marked
\* and two senders may hold it (UseInviteCode, invite.go:98).
OneWelcomePerCode == \A c \in Code : welcomed[c] <= 1

\* Whatever the caches hold and whichever handlers run beside it, a message is
\* resolved to a user its sender is, or once was, in that tenant: never to
\* another person (resolver.go:65).
ResolvedAsSender ==
  \A h \in Handler :
    handler[h].pc = "resolved" =>
      <<handler[h].tenant, Ext_(h), handler[h].user>> \in owners

\* Who was known stays known: a sender whose user is merged into another one is
\* that other one from then on (MergeUser, tenant_mapping.go:110).
MergeKeepsSenders ==
  [][\A k \in DOMAIN identities :
       identities[k] # 0 /\ users'[identities[k]].state = "merged" =>
         identities'[k] # 0 /\ users'[identities'[k]].state # "merged"]_vars

-----------------------------------------------------------------------------
(* What the code's words promise and the code does not do.                 *)

\* "The single UPDATE with WHERE guards prevents race conditions" (invite.go:99):
\* one code admits one user.
OneUserPerCode == \A c \in Code : Cardinality(admitted[c]) <= 1

\* "caller decides how to handle missing tenant" (store.go:15): no caller goes on
\* with a nil one.
NoPanic == \A h \in Handler : handler[h].pc # "panic"

\* The chat a message is resolved to is in the store.
ChatKnown ==
  \A h \in Handler :
    handler[h].pc = "resolved" => chats[handler[h].tenant, Chat_(h)].id = handler[h].id

\* A removed or merged user is nobody's identity any more.
RemovedIsGone ==
  \A h \in Handler : handler[h].pc = "resolved" => Live(handler[h].user)

\* A message is in a chat of its own tenant: the cache of chats does not know
\* whose they are (resolver.go:127).  It is not with two handlers of one sender,
\* while a workspace changes its tenant.
ChatOfTenant ==
  \A h \in Handler :
    handler[h].pc = "resolved" =>
      \A t \in Tenant : chats[<<t, Chat_(h)>>].id = handler[h].id => t = handler[h].tenant
=============================================================================
