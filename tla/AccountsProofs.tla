---------------------------- MODULE AccountsProofs ----------------------------
(***************************************************************************)
(* Proofs about Accounts, for any number of handlers, senders, chats,      *)
(* workspaces, codes, tenants and users, and any interleaving with the     *)
(* administrator, failures of the store and restarts.                      *)
(***************************************************************************)
EXTENDS Accounts, TLAPS

Knows == {"chat", "create", "found"}
Joins == {"newTenant", "newUser", "merge", "identity", "map", "use"}

\* What the locals of a handler are worth at each place, where "known" is the
\* history of identities.
Sound(m, known) ==
  /\ m.pc \in Knows \cup {"resolved", "newUser", "merge", "identity", "map"} => m.tenant \in Tenant
  /\ m.pc \in Knows /\ m.chat \notin Group => <<m.tenant, m.ext, m.user>> \in known
  /\ m.pc = "resolved" => <<m.tenant, m.ext, m.user>> \in known
  /\ m.pc = "found" => m.id \in ChatID
  /\ m.pc \in {"merge", "identity"} => m.user \in User
  /\ m.pc \in Joins /\ m.kind # "auto" => m.code \in Code
  /\ m.pc \in {"newTenant", "map", "use"} => m.kind # "auto"

HandlerInv ==
  \A h \in Handler : handler[h].pc # "rest" => Sound(handler[h], owners)

\* The tables and the cache name no one their sender never was.
KnownInv ==
  /\ \A t \in Tenant, e \in Ext : identities[<<t, e>>] # 0 => <<t, e, identities[<<t, e>>]>> \in owners
  /\ \A e \in Ext : cacheUsers[e] # None => <<cacheUsers[e].tenant, e, cacheUsers[e].user>> \in owners

\* Nobody is a user that was merged into another one.
MergedInv == \A k \in Tenant \X Ext : identities[k] # 0 => users[identities[k]].state # "merged"

\* A code that was good for a welcome is used.
CodesInv ==
  \A c \in Code : welcomed[c] = 0 \/ (welcomed[c] = 1 /\ codes[c].state = "used")

\* Rows of chats have an ID.
RowsInv == \A k \in Tenant \X Chat : chats[k].id = 0 => chats[k] = NoChat

AccountsInv ==
  /\ AccountsTypeOK
  /\ HandlerInv
  /\ KnownInv
  /\ MergedInv
  /\ CodesInv
  /\ RowsInv

-----------------------------------------------------------------------------
(* Lemmas.                                                                 *)

\* A handler that is not at rest has a message.
LEMMA HasMessage ==
  ASSUME AccountsTypeOK, NEW h \in Handler, handler[h].pc # "rest"
  PROVE  handler[h] \in Message
<1>1. handler[h] \in Message \cup {AtRest}
  BY DEF AccountsTypeOK
<1>2. AtRest.pc = "rest"
  BY DEF AtRest
<1> QED
  BY <1>1, <1>2

\* A user that is found by tenant and sender is one of the sender's.
LEMMA FoundIsKnown ==
  ASSUME AccountsTypeOK, KnownInv, NEW t \in TenantRef, NEW e \in Ext, UserOn(t, e) # 0
  PROVE  /\ t \in Tenant /\ UserOn(t, e) \in User
         /\ <<t, e, UserOn(t, e)>> \in owners
<1>1. t \in Tenant /\ UserOn(t, e) = identities[<<t, e>>] /\ identities[<<t, e>>] # 0
  BY DEF UserOn, Live, TenantRef
<1>2. identities[<<t, e>>] \in User
  BY <1>1 DEF AccountsTypeOK, UserRef
<1> QED
  BY <1>1, <1>2 DEF KnownInv

\* A user that is found is there or there is none.
LEMMA FoundIsUser ==
  ASSUME AccountsTypeOK, NEW t \in TenantRef, NEW e \in Ext
  PROVE  UserOn(t, e) \in UserRef
<1>1. CASE UserOn(t, e) = 0
  BY <1>1 DEF UserRef
<1>2. CASE UserOn(t, e) # 0
  <2>1. t \in Tenant /\ UserOn(t, e) = identities[<<t, e>>]
    BY <1>2 DEF UserOn, TenantRef
  <2> QED
    BY <2>1 DEF AccountsTypeOK
<1> QED
  BY <1>1, <1>2

\* The tenant of a message's workspace, if it has one.
LEMMA MappedTyped ==
  ASSUME AccountsTypeOK, NEW h \in Handler, handler[h].pc # "rest"
  PROVE  Mapped(h) \in TenantRef
<1>1. handler[h] \in Message
  BY HasMessage
<1>2. SpaceOf[handler[h].chat] \in Space
  BY <1>1, AccountsAssumption DEF Message
<1> QED
  BY <1>2 DEF Mapped, Chat_, AccountsTypeOK

\* One handler goes on and the others keep what they know.
LEMMA OneGoes ==
  ASSUME AccountsTypeOK, HandlerInv, owners \subseteq owners', NEW h \in Handler,
         NEW r, r = AtRest \/ (r \in Message /\ Sound(r, owners')), Put(h, r)
  PROVE  handler' \in [Handler -> Message \cup {AtRest}] /\ HandlerInv'
<1>1. handler' \in [Handler -> Message \cup {AtRest}]
  BY DEF Put, AccountsTypeOK
<1>2. AtRest.pc = "rest"
  BY DEF AtRest
<1>3. SUFFICES ASSUME NEW g \in Handler, handler'[g].pc # "rest"
               PROVE  Sound(handler'[g], owners')
  BY <1>1 DEF HandlerInv
<1>4. CASE g = h
  BY <1>2, <1>3, <1>4 DEF Put, AccountsTypeOK
<1>5. CASE g # h
  <2>1. handler'[g] = handler[g] /\ Sound(handler[g], owners)
    BY <1>3, <1>5 DEF Put, AccountsTypeOK, HandlerInv
  <2> QED
    BY <2>1 DEF Sound
<1> QED
  BY <1>4, <1>5

\* A step that writes nothing but the message of one handler.
LEMMA QuietStep ==
  ASSUME AccountsInv, NEW h \in Handler,
         NEW r, r = AtRest \/ (r \in Message /\ Sound(r, owners)), Put(h, r),
         messages' \in 0..MaxMessages, UNCHANGED <<store, cache, admin, history>>
  PROVE  AccountsInv'
<1> USE DEF AccountsInv, store, cache, history
<1>1. handler' \in [Handler -> Message \cup {AtRest}] /\ HandlerInv'
  BY OneGoes
<1>2. AccountsTypeOK'
  BY <1>1 DEF AccountsTypeOK
<1>3. KnownInv' /\ MergedInv' /\ CodesInv' /\ RowsInv'
  BY DEF KnownInv, MergedInv, CodesInv, RowsInv
<1> QED
  BY <1>1, <1>2, <1>3

-----------------------------------------------------------------------------
(* The steps.                                                              *)

\* At the start there is one user, known by one identity.
LEMMA AccountsStart == AccountsInit => AccountsInv
<1> SUFFICES ASSUME AccountsInit PROVE AccountsInv
  OBVIOUS
<1>1. PICK policy \in {"open", "invite_required"}, e \in Ext, s \in Space :
        /\ tenants = [t \in Tenant |-> IF t = 1 THEN [state |-> "live", policy |-> policy] ELSE NoTenant]
        /\ users = [u \in User |-> IF u = 1 THEN [state |-> "live", tenant |-> 1] ELSE NoUser]
        /\ identities = [k \in Tenant \X Ext |-> IF k = <<1, e>> THEN 1 ELSE 0]
        /\ mappings = [x \in Space |-> IF x = s THEN 1 ELSE 0]
        /\ owners = {<<1, e, 1>>}
  BY DEF AccountsInit
<1>2. 1 \in Tenant /\ 1 \in User
  BY AccountsAssumption DEF Tenant, User
<1>3. /\ tenants \in [Tenant -> TenantRow]
      /\ users \in [User -> UserRow]
      /\ identities \in [Tenant \X Ext -> UserRef]
      /\ mappings \in [Space -> TenantRef]
      /\ owners \in SUBSET (Tenant \X Ext \X User)
  BY <1>1, <1>2 DEF NoTenant, NoUser, TenantRef, UserRef, TenantRow, UserRow
<1>4. AccountsTypeOK
  BY <1>3, AccountsAssumption DEF AccountsInit, AccountsTypeOK, NoChat, UserRef
<1>5. HandlerInv
  BY DEF AccountsInit, HandlerInv, AtRest
<1>6. KnownInv
  BY <1>1 DEF KnownInv, AccountsInit
<1>7. MergedInv
  BY <1>1, <1>2 DEF MergedInv
<1>8. CodesInv /\ RowsInv
  BY DEF CodesInv, RowsInv, AccountsInit
<1> QED
  BY <1>4, <1>5, <1>6, <1>7, <1>8 DEF AccountsInv

\* A message is received.
LEMMA ReceiveStep ==
  ASSUME AccountsInv, NEW h \in Handler, NEW w \in Writes, NEW code \in Code \cup {None},
         NEW mention \in BOOLEAN, Receive(h, w, code, mention)
  PROVE  AccountsInv'
<1> DEFINE r == [pc |-> "resolve", ext |-> w[1], chat |-> w[2], code |-> code, mention |-> mention,
                 tenant |-> 0, user |-> 0, id |-> 0, kind |-> None, again |-> FALSE, merged |-> FALSE]
<1>1. w[1] \in Ext /\ w[2] \in Chat
  BY AccountsAssumption
<1>2. r \in Message
  BY <1>1 DEF Message, Place, TenantRef, UserRef
<1>3. Sound(r, owners)
  BY DEF Sound, Knows, Joins
<1>4. messages' \in 0..MaxMessages
  BY AccountsAssumption DEF Receive, AccountsInv, AccountsTypeOK
<1> QED
  BY <1>2, <1>3, <1>4, QuietStep DEF Receive

\* Where the resolver leaves a message it knows, or does not.
LEMMA KnownGoes ==
  ASSUME AccountsInv, NEW h \in Handler, handler[h].pc # "rest", NEW t \in Tenant, NEW u \in UserRef,
         InGroup(h) \/ <<t, Ext_(h), u>> \in owners, Known(h, t, u),
         UNCHANGED <<store, cache, messages, admin, history>>
  PROVE  AccountsInv'
<1> DEFINE r == [handler[h] EXCEPT !.pc = "chat", !.tenant = t, !.user = u]
<1>1. handler[h] \in Message
  BY HasMessage DEF AccountsInv
<1>2. r \in Message
  BY <1>1 DEF Message, Place, TenantRef
<1>3. Sound(r, owners)
  BY <1>1 DEF Sound, Knows, Joins, Message, InGroup, Chat_, Ext_
<1>4. messages' \in 0..MaxMessages
  BY DEF AccountsInv, AccountsTypeOK
<1> QED
  BY <1>2, <1>3, <1>4, QuietStep DEF Known

\* A sender nobody knows goes on to join.
LEMMA UnknownGoes ==
  ASSUME AccountsTypeOK, NEW h \in Handler, handler[h].pc # "rest", NEW t \in TenantRef, Unknown(h, t)
  PROVE  \E r : (r = AtRest \/ (r \in Message /\ Sound(r, owners))) /\ Put(h, r)
<1>1. handler[h] \in Message
  BY HasMessage
<1>2. CASE handler[h].again
  BY <1>2 DEF Unknown, Ends
<1>3. CASE ~handler[h].again
  <2> DEFINE r == [handler[h] EXCEPT !.pc = "join", !.tenant = IF InGroup(h) THEN t ELSE 0]
  <2>1. r \in Message
    BY <1>1 DEF Message, Place, TenantRef
  <2>2. Sound(r, owners)
    BY <1>1 DEF Sound, Knows, Joins, Message
  <2>3. Put(h, r)
    BY <1>3 DEF Unknown
  <2> QED
    BY <2>1, <2>2, <2>3
<1> QED
  BY <1>2, <1>3

\* A handler that panics knows nothing it could use.
LEMMA PanicGoes ==
  ASSUME AccountsTypeOK, NEW h \in Handler, handler[h].pc # "rest", Goes(h, "panic")
  PROVE  \E r : (r = AtRest \/ (r \in Message /\ Sound(r, owners))) /\ Put(h, r)
<1> DEFINE r == [handler[h] EXCEPT !.pc = "panic"]
<1>1. handler[h] \in Message
  BY HasMessage
<1>2. r \in Message /\ Sound(r, owners)
  BY <1>1 DEF Message, Place, Sound, Knows, Joins
<1> QED
  BY <1>2 DEF Goes

\* A step of one handler that is such a going on and nothing else.
LEMMA GoesQuietly ==
  ASSUME AccountsInv, NEW h \in Handler,
         \E r : (r = AtRest \/ (r \in Message /\ Sound(r, owners))) /\ Put(h, r),
         UNCHANGED <<store, cache, messages, admin, history>>
  PROVE  AccountsInv'
<1>1. messages' \in 0..MaxMessages
  BY DEF AccountsInv, AccountsTypeOK
<1> QED
  BY <1>1, QuietStep

\* A sender who writes directly is known by the cache or the tables.
LEMMA ResolveUserStep ==
  ASSUME AccountsInv, NEW h \in Handler, ResolveUser(h)
  PROVE  AccountsInv'
<1>1. /\ handler[h].pc = "resolve" /\ ~InGroup(h) /\ AccountsTypeOK /\ KnownInv
      /\ UNCHANGED <<store, cache, messages, admin, history>>
  BY DEF ResolveUser, Is, AccountsInv
<1>2. handler[h] \in Message /\ Ext_(h) \in Ext
  BY <1>1, HasMessage DEF Message, Ext_
<1>3. Mapped(h) \in TenantRef
  BY <1>1, MappedTyped
<1>4. CASE Cached(h) # None
  <2>1. Cached(h).tenant \in Tenant /\ Cached(h).user \in UserRef
    BY <1>1, <1>2, <1>4 DEF Cached, AccountsTypeOK, UserRef
  <2>2. <<Cached(h).tenant, Ext_(h), Cached(h).user>> \in owners
    BY <1>1, <1>2, <1>4 DEF Cached, KnownInv
  <2> QED
    BY <1>1, <1>4, <2>1, <2>2, KnownGoes DEF ResolveUser
<1>5. CASE Cached(h) = None /\ UserOn(Mapped(h), Ext_(h)) = 0
  <2>1. Unknown(h, 0) /\ 0 \in TenantRef
    BY <1>5 DEF ResolveUser, TenantRef
  <2> QED
    BY <1>1, <2>1, UnknownGoes, GoesQuietly
<1>6. CASE Cached(h) = None /\ UserOn(Mapped(h), Ext_(h)) # 0 /\ ~LiveTenant(Mapped(h))
  <2>1. Goes(h, "panic")
    BY <1>6 DEF ResolveUser
  <2> QED
    BY <1>1, <2>1, PanicGoes, GoesQuietly
<1>7. CASE Cached(h) = None /\ UserOn(Mapped(h), Ext_(h)) # 0 /\ LiveTenant(Mapped(h))
  <2>1. Known(h, Mapped(h), UserOn(Mapped(h), Ext_(h)))
    BY <1>7 DEF ResolveUser
  <2>2. /\ Mapped(h) \in Tenant /\ UserOn(Mapped(h), Ext_(h)) \in UserRef
        /\ <<Mapped(h), Ext_(h), UserOn(Mapped(h), Ext_(h))>> \in owners
    BY <1>1, <1>2, <1>3, <1>7, FoundIsKnown DEF UserRef
  <2> QED
    BY <1>1, <2>1, <2>2, KnownGoes
<1> QED
  BY <1>4, <1>5, <1>6, <1>7

\* A message of a group has a tenant before it has a user.
LEMMA ResolveGroupStep ==
  ASSUME AccountsInv, NEW h \in Handler, ResolveGroup(h)
  PROVE  AccountsInv'
<1>1. /\ handler[h].pc = "resolve" /\ InGroup(h) /\ AccountsTypeOK
      /\ UNCHANGED <<store, cache, messages, admin, history>>
  BY DEF ResolveGroup, Is, AccountsInv
<1>2. handler[h] \in Message /\ Chat_(h) \in Chat /\ 0 \in UserRef /\ 0 \in TenantRef
  BY <1>1, HasMessage DEF Message, Chat_, UserRef, TenantRef
<1>3. CASE cacheChats[Chat_(h)] # None
  <2>1. cacheChats[Chat_(h)].tenant \in Tenant
    BY <1>1, <1>2, <1>3 DEF AccountsTypeOK
  <2> QED
    BY <1>1, <1>2, <1>3, <2>1, KnownGoes DEF ResolveGroup
<1>4. CASE cacheChats[Chat_(h)] = None /\ Mapped(h) # 0
  <2>1. Mapped(h) \in Tenant
    BY <1>1, <1>4, MappedTyped DEF TenantRef
  <2> QED
    BY <1>1, <1>2, <1>4, <2>1, KnownGoes DEF ResolveGroup
<1>5. CASE cacheChats[Chat_(h)] = None /\ Mapped(h) = 0 /\ handler[h].mention
  BY <1>1, <1>2, <1>5, UnknownGoes, GoesQuietly DEF ResolveGroup
<1>6. CASE cacheChats[Chat_(h)] = None /\ Mapped(h) = 0 /\ ~handler[h].mention
  BY <1>1, <1>6, GoesQuietly DEF ResolveGroup, Ends
<1> QED
  BY <1>3, <1>4, <1>5, <1>6

\* A chat that is found has an ID, and the message keeps its sender.
LEMMA FoundGoes ==
  ASSUME AccountsTypeOK, HandlerInv, NEW h \in Handler, handler[h].pc \in {"chat", "create"},
         NEW i \in ChatID, NEW known, owners \subseteq known
  PROVE  LET r == [handler[h] EXCEPT !.pc = "found", !.id = i] IN r \in Message /\ Sound(r, known)
<1> DEFINE r == [handler[h] EXCEPT !.pc = "found", !.id = i]
<1>1. handler[h] \in Message /\ Sound(handler[h], owners)
  BY HasMessage DEF HandlerInv
<1>2. r \in Message
  BY <1>1 DEF Message, Place
<1>3. Sound(r, known)
  BY <1>1 DEF Sound, Knows, Joins, Message
<1> QED
  BY <1>2, <1>3

\* The chat of a message is looked up in the cache, then in the tables.
LEMMA ResolveChatStep ==
  ASSUME AccountsInv, NEW h \in Handler, ResolveChat(h)
  PROVE  AccountsInv'
<1>1. /\ handler[h].pc = "chat" /\ AccountsTypeOK /\ HandlerInv /\ RowsInv
      /\ UNCHANGED <<store, cache, messages, admin, history>>
  BY DEF ResolveChat, Is, AccountsInv
<1>2. /\ handler[h] \in Message /\ Sound(handler[h], owners) /\ Chat_(h) \in Chat
      /\ handler[h].tenant \in Tenant
  BY <1>1, HasMessage DEF Message, Chat_, HandlerInv, Sound, Knows
<1> DEFINE row == chats[<<handler[h].tenant, Chat_(h)>>]
<1>3. CASE cacheChats[Chat_(h)] # None
  <2>1. cacheChats[Chat_(h)].id \in ChatID
    BY <1>1, <1>2, <1>3 DEF AccountsTypeOK
  <2> QED
    BY <1>1, <1>3, <2>1, FoundGoes, GoesQuietly DEF ResolveChat, Found
<1>4. CASE cacheChats[Chat_(h)] = None /\ row # NoChat
  <2>1. row.id \in ChatID
    BY <1>1, <1>2, <1>4 DEF AccountsTypeOK, RowsInv
  <2> QED
    BY <1>1, <1>4, <2>1, FoundGoes, GoesQuietly DEF ResolveChat, Found
<1>5. CASE cacheChats[Chat_(h)] = None /\ row = NoChat /\ InGroup(h) /\ ~LiveTenant(handler[h].tenant)
  BY <1>1, <1>5, PanicGoes, GoesQuietly DEF ResolveChat
<1>6. CASE cacheChats[Chat_(h)] = None /\ row = NoChat /\ ~(InGroup(h) /\ ~LiveTenant(handler[h].tenant))
  <2> DEFINE r == [handler[h] EXCEPT !.pc = "create"]
  <2>1. r \in Message /\ Sound(r, owners)
    BY <1>1, <1>2 DEF Message, Place, Sound, Knows, Joins
  <2>2. Put(h, r)
    BY <1>6 DEF ResolveChat, Goes
  <2> QED
    BY <1>1, <2>1, <2>2, GoesQuietly
<1> QED
  BY <1>3, <1>4, <1>5, <1>6

\* A chat that is saved has an ID, and belongs to its sender.
LEMMA CreateChatStep ==
  ASSUME AccountsInv, NEW h \in Handler, CreateChat(h)
  PROVE  AccountsInv'
<1> USE DEF AccountsInv, cache, history
<1> DEFINE t == handler[h].tenant
           k == <<t, Chat_(h)>>
<1>1. PICK id \in NewChat :
        /\ Is(h, "create")
        /\ chats' = [chats EXCEPT ![k] = [id |-> IF chats[k].id = 0 THEN id ELSE chats[k].id,
                                          user |-> IF InGroup(h) THEN 0 ELSE UserOn(t, Ext_(h))]]
        /\ Found(h, id)
        /\ UNCHANGED <<tenants, users, identities, mappings, codes, cache, messages, admin, history>>
  BY DEF CreateChat
<1>2. /\ handler[h] \in Message /\ t \in Tenant /\ k \in Tenant \X Chat /\ Ext_(h) \in Ext
      /\ id \in ChatID /\ id # 0
  <2>1. id \in ChatID /\ id # 0
    BY DEF NewChat, ChatID
  <2>2. handler[h].pc = "create"
    BY <1>1 DEF Is
  <2>3. handler[h] \in Message /\ Sound(handler[h], owners)
    BY <2>2, HasMessage DEF HandlerInv
  <2> QED
    BY <2>1, <2>2, <2>3 DEF Sound, Knows, Message, Chat_, Ext_
<1>3. UserOn(t, Ext_(h)) \in UserRef
  BY <1>2, FoundIsUser DEF TenantRef
<1>4. handler' \in [Handler -> Message \cup {AtRest}] /\ HandlerInv'
  BY <1>1, <1>2, FoundGoes, OneGoes DEF Found, Is
<1>5. chats' \in [Tenant \X Chat -> [id : ChatID \cup {0}, user : UserRef]]
  BY <1>1, <1>2, <1>3 DEF AccountsTypeOK, UserRef
<1>6. AccountsTypeOK'
  BY <1>1, <1>4, <1>5 DEF AccountsTypeOK
<1>7. RowsInv'
  BY <1>1, <1>2, <1>5 DEF RowsInv, AccountsTypeOK, ChatID
<1>8. KnownInv' /\ MergedInv' /\ CodesInv'
  BY <1>1 DEF KnownInv, MergedInv, CodesInv
<1> QED
  BY <1>4, <1>6, <1>7, <1>8

\* A message that is resolved leaves both caches with what it was resolved to.
LEMMA ResolvedStep ==
  ASSUME AccountsInv, NEW h \in Handler, Resolved(h)
  PROVE  AccountsInv'
<1> USE DEF AccountsInv, store, history
<1> DEFINE t == handler[h].tenant
<1>1. /\ handler[h].pc = "found"
      /\ UNCHANGED <<store, messages, admin, history>>
  BY DEF Resolved, Is
<1>2. /\ handler[h] \in Message /\ t \in Tenant /\ handler[h].id \in ChatID
      /\ Chat_(h) \in Chat /\ Ext_(h) \in Ext /\ Sound(handler[h], owners)
  BY <1>1, HasMessage DEF HandlerInv, Sound, Knows, Message, Chat_, Ext_
<1>3. cacheChats' \in [Chat -> [tenant : Tenant, id : ChatID] \cup {None}]
  BY <1>2 DEF Resolved, AccountsTypeOK
<1>4. /\ cacheUsers' \in [Ext -> [tenant : Tenant, user : User] \cup {None}]
      /\ \A e \in Ext : cacheUsers'[e] # None => <<cacheUsers'[e].tenant, e, cacheUsers'[e].user>> \in owners
  <2>1. CASE InGroup(h) \/ Cached(h) # None
    BY <1>2, <2>1 DEF Resolved, AccountsTypeOK, KnownInv
  <2>2. CASE ~InGroup(h) /\ Cached(h) = None
    <3> DEFINE entry == [tenant |-> t, user |-> handler[h].user]
    <3>1. cacheUsers' = [cacheUsers EXCEPT ![Ext_(h)] = entry]
      BY <2>2 DEF Resolved
    <3>2. <<t, Ext_(h), handler[h].user>> \in owners
      BY <1>1, <1>2, <2>2 DEF Sound, Knows, InGroup, Chat_, Ext_
    <3>3. entry \in [tenant : Tenant, user : User]
      BY <1>2, <3>2 DEF AccountsTypeOK
    <3> QED
      BY <1>2, <3>1, <3>2, <3>3 DEF AccountsTypeOK, KnownInv
  <2> QED
    BY <2>1, <2>2
<1>5. \E r : (r = AtRest \/ (r \in Message /\ Sound(r, owners))) /\ Put(h, r)
  <2>1. CASE ~InGroup(h)
    <3> DEFINE r == [handler[h] EXCEPT !.pc = "resolved"]
    <3>1. r \in Message
      BY <1>2 DEF Message, Place
    <3>2. Sound(r, owners)
      BY <1>1, <1>2, <2>1 DEF Sound, Knows, Joins, Message, InGroup, Chat_
    <3>3. Put(h, r)
      BY <2>1 DEF Resolved, Goes
    <3> QED
      BY <3>1, <3>2, <3>3
  <2>2. CASE InGroup(h) /\ UserOn(t, Ext_(h)) = 0
    BY <1>1, <1>2, <2>2, UnknownGoes DEF Resolved, TenantRef
  <2>3. CASE InGroup(h) /\ UserOn(t, Ext_(h)) # 0
    <3> DEFINE r == [handler[h] EXCEPT !.pc = "resolved", !.user = UserOn(t, Ext_(h))]
    <3>1. UserOn(t, Ext_(h)) \in User /\ <<t, Ext_(h), UserOn(t, Ext_(h))>> \in owners
      BY <1>2, <2>3, FoundIsKnown DEF TenantRef
    <3>2. r \in Message
      BY <1>2, <3>1 DEF Message, Place, UserRef
    <3>3. Sound(r, owners)
      BY <1>2, <3>1 DEF Sound, Knows, Joins, Message, Ext_
    <3>4. Put(h, r)
      BY <2>3 DEF Resolved
    <3> QED
      BY <3>2, <3>3, <3>4
  <2> QED
    BY <2>1, <2>2, <2>3
<1>6. handler' \in [Handler -> Message \cup {AtRest}] /\ HandlerInv'
  BY <1>1, <1>5, OneGoes
<1>7. AccountsTypeOK'
  BY <1>1, <1>3, <1>4, <1>6 DEF AccountsTypeOK
<1>8. KnownInv' /\ MergedInv' /\ CodesInv' /\ RowsInv'
  BY <1>1, <1>4 DEF KnownInv, MergedInv, CodesInv, RowsInv
<1> QED
  BY <1>6, <1>7, <1>8

\* Steps that end the handling of a message and touch nothing else.
LEMMA EndsStep ==
  ASSUME AccountsInv, NEW h \in Handler, Pass(h) \/ Fails(h) \/ Recover(h)
  PROVE  AccountsInv'
<1>1. Ends(h) /\ UNCHANGED <<store, cache, messages, admin, history>>
  BY DEF Pass, Fails, Recover
<1> QED
  BY <1>1, GoesQuietly DEF Ends

\* A code sends the message to one of four joins.
LEMMA JoinWithCodeStep ==
  ASSUME AccountsInv, NEW h \in Handler, JoinWithCode(h)
  PROVE  AccountsInv'
<1> DEFINE c == handler[h].code
           code == codes[c]
<1>1. /\ handler[h].pc = "join" /\ c # None /\ AccountsTypeOK
      /\ UNCHANGED <<store, cache, messages, admin, history>>
  BY DEF JoinWithCode, Is, AccountsInv
<1>2. handler[h] \in Message /\ c \in Code
  BY <1>1, HasMessage DEF Message
<1>3. CASE ~Valid(c)
  BY <1>1, <1>3, GoesQuietly DEF JoinWithCode, Ends
<1>4. ASSUME Valid(c) PROVE AccountsInv'
  <2>1. code \in UserCode \cup TenantCode
    BY <1>1, <1>2, <1>4 DEF Valid, AccountsTypeOK, NoCode
  <2>2. CASE code.type = "tenant" /\ code.target = 0
    <3> DEFINE r == [handler[h] EXCEPT !.pc = "newTenant", !.kind = "tenant"]
    <3>1. r \in Message /\ Sound(r, owners)
      BY <1>2 DEF Message, Place, Sound, Knows, Joins
    <3>2. Put(h, r)
      BY <1>4, <2>2 DEF JoinWithCode
    <3> QED
      BY <1>1, <3>1, <3>2, GoesQuietly
  <2>3. CASE code.type = "tenant" /\ code.target # 0
    <3> DEFINE r == [handler[h] EXCEPT !.pc = "map", !.tenant = code.target, !.kind = "link"]
    <3>1. code.target \in Tenant
      BY <2>1, <2>3 DEF UserCode, TenantCode, TenantRef
    <3>2. r \in Message /\ Sound(r, owners)
      BY <1>2, <3>1 DEF Message, Place, Sound, Knows, Joins, TenantRef
    <3>3. Ends(h) \/ Put(h, r)
      BY <1>4, <2>3 DEF JoinWithCode
    <3> QED
      BY <1>1, <3>2, <3>3, GoesQuietly DEF Ends
  <2>4. CASE code.type = "user" /\ code.target = 0
    <3> DEFINE r == [handler[h] EXCEPT !.pc = "newUser", !.tenant = code.tenant, !.kind = "user"]
    <3>1. code.tenant \in Tenant
      BY <2>1, <2>4 DEF UserCode, TenantCode
    <3>2. r \in Message /\ Sound(r, owners)
      BY <1>2, <3>1 DEF Message, Place, Sound, Knows, Joins, TenantRef
    <3>3. Put(h, r)
      BY <1>4, <2>4 DEF JoinWithCode
    <3> QED
      BY <1>1, <3>2, <3>3, GoesQuietly
  <2>5. CASE code.type = "user" /\ code.target # 0
    <3> DEFINE r(pc) == [handler[h] EXCEPT !.pc = pc, !.tenant = code.tenant, !.user = code.target, !.kind = "user"]
    <3>1. code.tenant \in Tenant /\ code.target \in User
      BY <2>1, <2>5 DEF UserCode, TenantCode, UserRef
    <3>2. ASSUME NEW pc \in {"merge", "identity"} PROVE r(pc) \in Message /\ Sound(r(pc), owners)
      BY <1>2, <3>1 DEF Message, Place, Sound, Knows, Joins, TenantRef, UserRef
    <3>3. Ends(h) \/ Put(h, r("merge")) \/ Put(h, r("identity"))
      BY <1>4, <2>5 DEF JoinWithCode
    <3> QED
      BY <1>1, <3>2, <3>3, GoesQuietly DEF Ends
  <2> QED
    BY <2>1, <2>2, <2>3, <2>4, <2>5 DEF UserCode, TenantCode
<1> QED
  BY <1>3, <1>4

\* Without a code, the policy of the tenant decides.
LEMMA JoinWithoutCodeStep ==
  ASSUME AccountsInv, NEW h \in Handler, JoinWithoutCode(h)
  PROVE  AccountsInv'
<1> DEFINE t == IF handler[h].tenant # 0 THEN handler[h].tenant ELSE Mapped(h)
           r == [handler[h] EXCEPT !.pc = "newUser", !.tenant = t, !.kind = "auto"]
<1>1. /\ handler[h].pc = "join" /\ AccountsTypeOK
      /\ UNCHANGED <<store, cache, messages, admin, history>>
  BY DEF JoinWithoutCode, Is, AccountsInv
<1>2. handler[h] \in Message /\ t \in TenantRef
  BY <1>1, HasMessage, MappedTyped DEF Message
<1>3. CASE t = 0 \/ (LiveTenant(t) /\ tenants[t].policy # "open")
  BY <1>1, <1>3, GoesQuietly DEF JoinWithoutCode, Ends
<1>4. CASE t # 0 /\ ~LiveTenant(t)
  BY <1>1, <1>4, PanicGoes, GoesQuietly DEF JoinWithoutCode
<1>5. CASE t # 0 /\ LiveTenant(t) /\ tenants[t].policy = "open"
  <2>1. r \in Message /\ Sound(r, owners)
    BY <1>2, <1>5 DEF Message, Place, Sound, Knows, Joins, TenantRef
  <2>2. Put(h, r)
    BY <1>5 DEF JoinWithoutCode
  <2> QED
    BY <1>1, <2>1, <2>2, GoesQuietly
<1> QED
  BY <1>3, <1>4, <1>5

\* A tenant nobody knows yet is saved.
LEMMA CreateTenantStep ==
  ASSUME AccountsInv, NEW h \in Handler, CreateTenant(h)
  PROVE  AccountsInv'
<1> USE DEF AccountsInv, cache, history
<1>1. PICK t \in NewTenant :
        /\ Is(h, "newTenant")
        /\ tenants' = [tenants EXCEPT ![t] = [state |-> "live", policy |-> "invite_required"]]
        /\ Put(h, [handler[h] EXCEPT !.pc = "newUser", !.tenant = t])
        /\ UNCHANGED <<users, identities, mappings, codes, chats, cache, messages, admin, history>>
  BY DEF CreateTenant
<1> DEFINE r == [handler[h] EXCEPT !.pc = "newUser", !.tenant = t]
<1>2. t \in Tenant /\ handler[h].pc = "newTenant"
  BY <1>1 DEF NewTenant, Is
<1>3. handler[h] \in Message /\ Sound(handler[h], owners)
  BY <1>2, HasMessage DEF HandlerInv
<1>4. r \in Message /\ Sound(r, owners)
  BY <1>2, <1>3 DEF Message, Place, TenantRef, Sound, Knows, Joins
<1>5. handler' \in [Handler -> Message \cup {AtRest}] /\ HandlerInv'
  BY <1>1, <1>4, OneGoes
<1>6. AccountsTypeOK'
  BY <1>1, <1>2, <1>5 DEF AccountsTypeOK, TenantRow
<1>7. KnownInv' /\ MergedInv' /\ CodesInv' /\ RowsInv'
  BY <1>1 DEF KnownInv, MergedInv, CodesInv, RowsInv
<1> QED
  BY <1>5, <1>6, <1>7

\* A user nobody is yet is saved.
LEMMA SaveUserStep ==
  ASSUME AccountsInv, NEW h \in Handler, SaveUser(h)
  PROVE  AccountsInv'
<1> USE DEF AccountsInv, cache, history
<1>1. PICK u \in NewUser :
        /\ Is(h, "newUser")
        /\ users' = [users EXCEPT ![u] = [state |-> "live", tenant |-> handler[h].tenant]]
        /\ Put(h, [handler[h] EXCEPT !.pc = "identity", !.user = u])
        /\ UNCHANGED <<tenants, identities, mappings, codes, chats, cache, messages, admin, history>>
  BY DEF SaveUser
<1> DEFINE r == [handler[h] EXCEPT !.pc = "identity", !.user = u]
<1>2. u \in User /\ handler[h].pc = "newUser"
  BY <1>1 DEF NewUser, Is
<1>3. handler[h] \in Message /\ Sound(handler[h], owners)
  BY <1>2, HasMessage DEF HandlerInv
<1>4. handler[h].tenant \in Tenant
  BY <1>2, <1>3 DEF Sound
<1>5. r \in Message /\ Sound(r, owners)
  BY <1>2, <1>3, <1>4 DEF Message, Place, UserRef, Sound, Knows, Joins
<1>6. handler' \in [Handler -> Message \cup {AtRest}] /\ HandlerInv'
  BY <1>1, <1>5, OneGoes
<1>7. AccountsTypeOK'
  BY <1>1, <1>2, <1>4, <1>6 DEF AccountsTypeOK, TenantRef, UserRow
<1>8. MergedInv'
  BY <1>1, <1>2 DEF MergedInv, AccountsTypeOK
<1>9. KnownInv' /\ CodesInv' /\ RowsInv'
  BY <1>1 DEF KnownInv, CodesInv, RowsInv
<1> QED
  BY <1>6, <1>7, <1>8, <1>9

\* The identities of a user that is merged are the other one's.
LEMMA MergeUserStep ==
  ASSUME AccountsInv, NEW h \in Handler, MergeUser(h)
  PROVE  AccountsInv'
<1> USE DEF AccountsInv, cache
<1> DEFINE t == handler[h].tenant
           from == UserOn(t, Ext_(h))
           to == handler[h].user
           r == [handler[h] EXCEPT !.pc = "identity", !.merged = TRUE]
<1>1. /\ handler[h].pc = "merge" /\ from # 0 /\ from # to /\ Live(to)
      /\ identities' = MergedIdentities(t, from, to)
      /\ users' = [users EXCEPT ![from] = [state |-> "merged", tenant |-> t]]
      /\ owners' = owners \cup {<<k[1], k[2], to>> : k \in {x \in DOMAIN identities : identities[x] = from}}
      /\ Put(h, r)
      /\ UNCHANGED <<tenants, mappings, codes, chats, cache, messages, admin, welcomed, admitted>>
  BY DEF MergeUser, Is
<1>2. handler[h] \in Message /\ Sound(handler[h], owners)
  BY <1>1, HasMessage DEF HandlerInv
<1>3. t \in Tenant /\ to \in User /\ Ext_(h) \in Ext
  BY <1>1, <1>2 DEF Sound, Message, Ext_
<1>4. from \in User
  BY <1>1, <1>3, FoundIsKnown DEF TenantRef
<1> HIDE DEF from
<1>5. DOMAIN identities = Tenant \X Ext
  BY DEF AccountsTypeOK
<1>6. identities' = [k \in Tenant \X Ext |-> IF identities[k] = from THEN to ELSE identities[k]]
  BY <1>1, <1>5 DEF MergedIdentities
<1>7. owners \subseteq owners' /\ owners' \in SUBSET (Tenant \X Ext \X User)
  BY <1>1, <1>3, <1>5 DEF AccountsTypeOK
<1>8. r \in Message /\ Sound(r, owners')
  BY <1>1, <1>2, <1>3 DEF Message, Place, Sound, Knows, Joins
<1>9. handler' \in [Handler -> Message \cup {AtRest}] /\ HandlerInv'
  BY <1>1, <1>7, <1>8, OneGoes
<1>10. identities' \in [Tenant \X Ext -> UserRef]
  BY <1>3, <1>6 DEF AccountsTypeOK, UserRef
<1>11. AccountsTypeOK'
  BY <1>1, <1>3, <1>4, <1>7, <1>9, <1>10 DEF AccountsTypeOK, TenantRef, UserRow
<1>12. KnownInv'
  <2>1. ASSUME NEW s \in Tenant, NEW e \in Ext, identities'[<<s, e>>] # 0
        PROVE  <<s, e, identities'[<<s, e>>]>> \in owners'
    <3>1. CASE identities[<<s, e>>] = from
      <4> DEFINE k == <<s, e>>
      <4>1. k \in {x \in DOMAIN identities : identities[x] = from}
        BY <1>5, <3>1
      <4>2. <<k[1], k[2], to>> \in owners'
        BY <1>1, <4>1
      <4> QED
        BY <1>6, <3>1, <4>2
    <3>2. CASE identities[<<s, e>>] # from
      BY <1>6, <1>7, <2>1, <3>2 DEF KnownInv
    <3> QED
      BY <3>1, <3>2
  <2> QED
    BY <1>1, <1>7, <2>1 DEF KnownInv
<1>13. MergedInv'
  <2>1. users[to].state = "live" /\ users'[to] = users[to]
    BY <1>1, <1>3 DEF Live, AccountsTypeOK
  <2> QED
    BY <1>1, <1>4, <1>6, <2>1 DEF MergedInv, AccountsTypeOK
<1>14. CodesInv' /\ RowsInv'
  BY <1>1 DEF CodesInv, RowsInv
<1> QED
  BY <1>9, <1>11, <1>12, <1>13, <1>14

\* An identity is added: the sender is that user from then on.
LEMMA AddIdentityStep ==
  ASSUME AccountsInv, NEW h \in Handler, AddIdentity(h)
  PROVE  AccountsInv'
<1> USE DEF AccountsInv, cache
<1> DEFINE t == handler[h].tenant
           u == handler[h].user
           c == handler[h].code
           auto == handler[h].kind = "auto"
           again == [handler[h] EXCEPT !.pc = "resolve", !.tenant = 0, !.user = 0, !.id = 0, !.again = TRUE]
           on(pc) == [handler[h] EXCEPT !.pc = pc]
<1>1. /\ handler[h].pc = "identity"
      /\ UNCHANGED <<tenants, users, mappings, codes, chats, cache, messages, admin, welcomed>>
  BY DEF AddIdentity, Is
<1>2. handler[h] \in Message /\ Sound(handler[h], owners)
  BY <1>1, HasMessage DEF HandlerInv
<1>3. /\ t \in Tenant /\ u \in User /\ Ext_(h) \in Ext /\ <<t, Ext_(h)>> \in Tenant \X Ext
      /\ ~auto => c \in Code
  BY <1>1, <1>2 DEF Sound, Joins, Message, Ext_
<1>4. CASE (Goes(h, "panic") \/ Ends(h)) /\ UNCHANGED <<identities, owners, admitted>>
  <2>1. UNCHANGED <<store, cache, messages, admin, history>>
    BY <1>1, <1>4 DEF store, history
  <2> QED
    BY <1>1, <1>4, <2>1, PanicGoes, GoesQuietly DEF Ends
<1>5. CASE /\ users[u].state # "merged"
           /\ identities' = [identities EXCEPT ![<<t, Ext_(h)>>] = u]
           /\ owners' = owners \cup {<<t, Ext_(h), u>>}
           /\ admitted' = IF auto THEN admitted ELSE [admitted EXCEPT ![c] = @ \cup {u}]
           /\ Put(h, IF auto THEN again ELSE on(IF handler[h].kind = "tenant" THEN "map" ELSE "use"))
  <2>1. owners \subseteq owners' /\ owners' \in SUBSET (Tenant \X Ext \X User)
    BY <1>3, <1>5 DEF AccountsTypeOK
  <2>2. again \in Message /\ Sound(again, owners')
    <3>1. PICK r : r = handler[h]
      OBVIOUS
    <3>2. r \in Message
      BY <1>2, <3>1
    <3> DEFINE back == [r EXCEPT !.pc = "resolve", !.tenant = 0, !.user = 0, !.id = 0, !.again = TRUE]
    <3>3. back \in Message
      BY <3>2 DEF Message, Place, TenantRef, UserRef
    <3>4. back.pc = "resolve"
      BY <3>2 DEF Message
    <3> HIDE DEF back
    <3>5. Sound(back, owners')
      BY <3>4 DEF Sound, Knows, Joins
    <3> QED
      BY <3>1, <3>3, <3>5 DEF back
  <2>3. ASSUME NEW pc \in {"map", "use"}, ~auto
        PROVE  on(pc) \in Message /\ Sound(on(pc), owners')
    BY <1>2, <1>3, <2>3 DEF Message, Place, Sound, Knows, Joins
  <2>4. \E r : r \in Message /\ Sound(r, owners') /\ Put(h, r)
    BY <1>5, <2>2, <2>3
  <2>5. handler' \in [Handler -> Message \cup {AtRest}] /\ HandlerInv'
    BY <2>1, <2>4, OneGoes
  <2>6. identities' \in [Tenant \X Ext -> UserRef]
    BY <1>3, <1>5 DEF AccountsTypeOK, UserRef
  <2>7. admitted' \in [Code -> SUBSET User]
    BY <1>3, <1>5 DEF AccountsTypeOK
  <2>8. AccountsTypeOK'
    BY <1>1, <2>1, <2>5, <2>6, <2>7 DEF AccountsTypeOK
  <2>9. KnownInv'
    BY <1>1, <1>3, <1>5, <2>1 DEF KnownInv, AccountsTypeOK
  <2>10. MergedInv'
    BY <1>1, <1>3, <1>5 DEF MergedInv, AccountsTypeOK
  <2>11. CodesInv' /\ RowsInv'
    BY <1>1 DEF CodesInv, RowsInv
  <2> QED
    BY <2>5, <2>8, <2>9, <2>10, <2>11
<1> QED
  BY <1>4, <1>5 DEF AddIdentity

\* A workspace gets the tenant of a code.
LEMMA SaveMappingStep ==
  ASSUME AccountsInv, NEW h \in Handler, SaveMapping(h)
  PROVE  AccountsInv'
<1> USE DEF AccountsInv, cache, history
<1> DEFINE r == [handler[h] EXCEPT !.pc = "use"]
<1>1. /\ handler[h].pc = "map" /\ Put(h, r)
      /\ mappings' = [mappings EXCEPT ![SpaceOf[Chat_(h)]] = handler[h].tenant]
      /\ UNCHANGED <<tenants, users, identities, codes, chats, cache, messages, admin, history>>
  BY DEF SaveMapping, Is, Goes
<1>2. handler[h] \in Message /\ Sound(handler[h], owners)
  BY <1>1, HasMessage DEF HandlerInv
<1>3. r \in Message /\ Sound(r, owners)
  BY <1>1, <1>2 DEF Message, Place, Sound, Knows, Joins
<1>4. handler' \in [Handler -> Message \cup {AtRest}] /\ HandlerInv'
  BY <1>1, <1>3, OneGoes
<1>5. AccountsTypeOK'
  BY <1>1, <1>2, <1>4 DEF AccountsTypeOK, Message
<1>6. KnownInv' /\ MergedInv' /\ CodesInv' /\ RowsInv'
  BY <1>1 DEF KnownInv, MergedInv, CodesInv, RowsInv
<1> QED
  BY <1>4, <1>5, <1>6

\* A code is marked as used, once.
LEMMA UseCodeStep ==
  ASSUME AccountsInv, NEW h \in Handler, UseCode(h)
  PROVE  AccountsInv'
<1> USE DEF AccountsInv, cache
<1> DEFINE c == handler[h].code
<1>1. /\ handler[h].pc = "use" /\ Put(h, AtRest)
      /\ UNCHANGED <<tenants, users, identities, mappings, chats, cache, messages, admin, owners, admitted>>
  BY DEF UseCode, Is, Ends
<1>2. c \in Code
  BY <1>1, HasMessage DEF HandlerInv, Sound, Joins
<1>3. handler' \in [Handler -> Message \cup {AtRest}] /\ HandlerInv'
  BY <1>1, OneGoes
<1>4. CASE ~Valid(c) /\ UNCHANGED <<codes, welcomed>>
  <2>1. AccountsTypeOK'
    BY <1>1, <1>3, <1>4 DEF AccountsTypeOK
  <2> QED
    BY <1>1, <1>3, <1>4, <2>1 DEF KnownInv, MergedInv, CodesInv, RowsInv
<1>5. CASE /\ Valid(c)
           /\ codes' = [codes EXCEPT ![c].state = "used"]
           /\ welcomed' = [welcomed EXCEPT ![c] = @ + 1]
  <2>1. codes[c] \in UserCode \cup TenantCode
    BY <1>2, <1>5 DEF Valid, AccountsTypeOK, NoCode
  <2>2. codes'[c] \in UserCode \cup TenantCode /\ codes'[c].state = "used"
    BY <1>2, <1>5, <2>1 DEF AccountsTypeOK, UserCode, TenantCode, CodeState
  <2>3. codes' \in [Code -> {NoCode} \cup UserCode \cup TenantCode]
    BY <1>2, <1>5, <2>2 DEF AccountsTypeOK
  <2>4. AccountsTypeOK'
    BY <1>1, <1>2, <1>3, <1>5, <2>3 DEF AccountsTypeOK
  <2>5. CodesInv'
    BY <1>2, <1>5, <2>2 DEF CodesInv, AccountsTypeOK, Valid
  <2>6. KnownInv' /\ MergedInv' /\ RowsInv'
    BY <1>1 DEF KnownInv, MergedInv, RowsInv
  <2> QED
    BY <1>3, <2>4, <2>5, <2>6
<1> QED
  BY <1>4, <1>5 DEF UseCode, Usable

\* What a command of the administrator leaves alone, whatever it writes.
LEMMA CommandStep ==
  ASSUME AccountsInv, Command, UNCHANGED <<identities, chats>>,
         tenants' \in [Tenant -> TenantRow],
         users' \in [User -> UserRow],
         \A u \in User : users[u].state # "merged" => users'[u].state # "merged",
         mappings' \in [Space -> TenantRef],
         codes' \in [Code -> {NoCode} \cup UserCode \cup TenantCode],
         \A c \in Code : codes[c].state = "used" => codes'[c].state = "used"
  PROVE  AccountsInv'
<1> USE DEF AccountsInv, Command, cache, history
<1>1. AccountsTypeOK'
  BY AccountsAssumption DEF AccountsTypeOK
<1>2. HandlerInv' /\ KnownInv' /\ RowsInv'
  BY DEF HandlerInv, KnownInv, RowsInv
<1>3. MergedInv'
  <2>1. \A k \in Tenant \X Ext : identities[k] # 0 => identities[k] \in User
    BY DEF AccountsTypeOK, UserRef
  <2> QED
    BY <2>1 DEF MergedInv
<1>4. CodesInv'
  BY DEF CodesInv
<1> QED
  BY <1>1, <1>2, <1>3, <1>4

\* The CLI, between any two steps of the handlers, keeps the invariant.
LEMMA AdministerStep ==
  ASSUME AccountsInv, Administer
  PROVE  AccountsInv'
<1>1. AccountsTypeOK
  BY DEF AccountsInv
<1> USE DEF AccountsTypeOK
<1>2. ASSUME NEW c \in Code, NEW type, NEW t, NEW target, InviteCreate(c, type, t, target),
             [state |-> "active", type |-> type, tenant |-> t, target |-> target] \in UserCode \cup TenantCode
      PROVE  AccountsInv'
  <2>1. /\ Command /\ UNCHANGED <<tenants, users, identities, mappings, chats>>
        /\ codes[c].state = "none"
        /\ codes' = [codes EXCEPT ![c] = [state |-> "active", type |-> type, tenant |-> t, target |-> target]]
    BY <1>2 DEF InviteCreate
  <2> QED
    BY <1>1, <1>2, <2>1, CommandStep
<1>3. ASSUME NEW c \in Code, NEW t \in Tenant, NEW target \in User \cup {0}, InviteCreate(c, "user", t, target)
      PROVE  AccountsInv'
  BY <1>2, <1>3 DEF UserCode, CodeState, UserRef
<1>4. ASSUME NEW c \in Code, NEW target \in Tenant \cup {0}, InviteCreate(c, "tenant", 0, target)
      PROVE  AccountsInv'
  BY <1>2, <1>4 DEF TenantCode, CodeState, TenantRef
<1>5. ASSUME NEW c \in Code, InviteRevoke(c)
      PROVE  AccountsInv'
  <2>1. /\ Command /\ UNCHANGED <<tenants, users, identities, mappings, chats>>
        /\ codes[c].state = "active"
        /\ codes' = [codes EXCEPT ![c].state = "revoked"]
    BY <1>5 DEF InviteRevoke
  <2>2. codes[c] \in UserCode \cup TenantCode
    BY <1>1, <2>1 DEF NoCode
  <2>3. codes'[c] \in UserCode \cup TenantCode
    BY <1>1, <2>1, <2>2 DEF UserCode, TenantCode, CodeState
  <2>4. codes' \in [Code -> {NoCode} \cup UserCode \cup TenantCode]
    BY <1>1, <2>1, <2>3
  <2> QED
    BY <1>1, <2>1, <2>4, CommandStep
<1>6. ASSUME NEW u \in User, UserRemove(u)
      PROVE  AccountsInv'
  <2>1. /\ Command /\ UNCHANGED <<tenants, identities, mappings, codes, chats>>
        /\ users' = [users EXCEPT ![u].state = "removed"]
    BY <1>6 DEF UserRemove
  <2>2. users' \in [User -> UserRow]
    BY <1>1, <2>1 DEF UserRow
  <2> QED
    BY <1>1, <2>1, <2>2, CommandStep
<1>7. ASSUME NEW t \in Tenant, TenantDelete(t) \/ TenantUpdate(t, "open") \/ TenantUpdate(t, "invite_required")
      PROVE  AccountsInv'
  <2>1. /\ Command /\ UNCHANGED <<users, identities, mappings, codes, chats>>
        /\ \/ tenants' = [tenants EXCEPT ![t].state = "deleted"]
           \/ tenants' = [tenants EXCEPT ![t].policy = "open"]
           \/ tenants' = [tenants EXCEPT ![t].policy = "invite_required"]
    BY <1>7 DEF TenantDelete, TenantUpdate
  <2>2. tenants' \in [Tenant -> TenantRow]
    <3>1. tenants[t] \in TenantRow
      BY <1>1
    <3>2. /\ [tenants[t] EXCEPT !.state = "deleted"] \in TenantRow
          /\ [tenants[t] EXCEPT !.policy = "open"] \in TenantRow
          /\ [tenants[t] EXCEPT !.policy = "invite_required"] \in TenantRow
      BY <3>1 DEF TenantRow
    <3> QED
      BY <1>1, <2>1, <3>2
  <2> QED
    BY <1>1, <2>1, <2>2, CommandStep
<1>8. ASSUME NEW s \in Space, MappingDelete(s)
      PROVE  AccountsInv'
  <2>1. /\ Command /\ UNCHANGED <<tenants, users, identities, codes, chats>>
        /\ mappings' \in [Space -> TenantRef]
    BY <1>1, <1>8 DEF MappingDelete, TenantRef
  <2> QED
    BY <1>1, <2>1, CommandStep
<1> QED
  BY <1>3, <1>4, <1>5, <1>6, <1>7, <1>8 DEF Administer

\* A restart forgets messages and caches, and keeps the tables.
LEMMA RestartForgets ==
  ASSUME AccountsInv, Restart
  PROVE  AccountsInv'
<1> USE DEF AccountsInv, Restart, store, history
<1>1. AccountsTypeOK'
  BY DEF AccountsTypeOK
<1>2. HandlerInv' /\ KnownInv' /\ MergedInv' /\ CodesInv' /\ RowsInv'
  BY DEF HandlerInv, AtRest, KnownInv, MergedInv, CodesInv, RowsInv
<1> QED
  BY <1>1, <1>2

\* Every step of a handler, of the CLI or a restart keeps the invariant.
LEMMA AccountsStep ==
  ASSUME AccountsInv, [AccountsNext]_vars
  PROVE  AccountsInv'
<1>1. ASSUME NEW h \in Handler, NEW w \in Writes, NEW code \in Code \cup {None},
             NEW mention \in IF w[2] \in Group THEN BOOLEAN ELSE {TRUE}, Receive(h, w, code, mention)
      PROVE  AccountsInv'
  BY <1>1, ReceiveStep
<1>2. ASSUME NEW h \in Handler, Resolve(h)
      PROVE  AccountsInv'
  BY <1>2, ResolveUserStep, ResolveGroupStep, ResolveChatStep, CreateChatStep, ResolvedStep, EndsStep DEF Resolve
<1>3. ASSUME NEW h \in Handler, Join(h)
      PROVE  AccountsInv'
  BY <1>3, JoinWithCodeStep, JoinWithoutCodeStep, CreateTenantStep, SaveUserStep, MergeUserStep,
     AddIdentityStep, SaveMappingStep, UseCodeStep DEF Join
<1>4. ASSUME NEW h \in Handler, Fails(h) \/ Recover(h)
      PROVE  AccountsInv'
  BY <1>4, EndsStep
<1>5. CASE UNCHANGED vars
  <2>1. /\ UNCHANGED <<tenants, users, identities, mappings, codes, chats, cacheUsers, cacheChats>>
        /\ UNCHANGED <<handler, messages, admin, owners, welcomed, admitted>>
    BY <1>5 DEF vars, store, cache, history
  <2> QED
    BY <2>1 DEF AccountsInv, AccountsTypeOK, HandlerInv, KnownInv, MergedInv, CodesInv, RowsInv
<1> QED
  BY <1>1, <1>2, <1>3, <1>4, <1>5, AdministerStep, RestartForgets DEF AccountsNext

-----------------------------------------------------------------------------
(* Theorems.                                                               *)

\* The inductive invariant: the types of all variables, what the locals of a
\* handler are worth where it is, and what tables, caches and codes say of the
\* past.
THEOREM AccountsInvariant == AccountsSpec => []AccountsInv
<1>1. AccountsInit => AccountsInv
  BY AccountsStart
<1>2. AccountsInv /\ [AccountsNext]_vars => AccountsInv'
  BY AccountsStep
<1> QED
  BY <1>1, <1>2, PTL DEF AccountsSpec

\* Every variable keeps its type.
THEOREM AccountsTypes == AccountsSpec => []AccountsTypeOK
<1>1. AccountsInv => AccountsTypeOK
  BY DEF AccountsInv
<1> QED
  BY <1>1, AccountsInvariant, PTL

\* However many senders hold a code, and however long ago they read it, the
\* update that marks it is good for one of them (invite.go:98).
THEOREM CodeWelcomesOnce == AccountsSpec => []OneWelcomePerCode
<1>1. AccountsInv => OneWelcomePerCode
  BY DEF AccountsInv, CodesInv, OneWelcomePerCode
<1> QED
  BY <1>1, AccountsInvariant, PTL

\* With any number of handlers, stale caches, merges and restarts, a message is
\* never resolved to a user its sender never was in that tenant (resolver.go:65).
THEOREM SenderIsHimself == AccountsSpec => []ResolvedAsSender
<1>1. AccountsInv => ResolvedAsSender
  <2>1. ASSUME AccountsInv, NEW h \in Handler, handler[h].pc = "resolved"
        PROVE  <<handler[h].tenant, Ext_(h), handler[h].user>> \in owners
    BY <2>1 DEF AccountsInv, HandlerInv, Sound, Ext_
  <2> QED
    BY <2>1 DEF ResolvedAsSender
<1> QED
  BY <1>1, AccountsInvariant, PTL

\* Who is known is never unknown again: identities are replaced, not removed.
LEMMA IdentityStays ==
  ASSUME AccountsInv, [AccountsNext]_vars, NEW k \in Tenant \X Ext, identities[k] # 0
  PROVE  identities'[k] # 0
<1>1. AccountsTypeOK /\ HandlerInv
  BY DEF AccountsInv
<1>2. ASSUME NEW h \in Handler, MergeUser(h) PROVE identities'[k] # 0
  BY <1>1, <1>2 DEF MergeUser, MergedIdentities, Live, AccountsTypeOK
<1>3. ASSUME NEW h \in Handler, AddIdentity(h) PROVE identities'[k] # 0
  <2>1. handler[h].pc = "identity"
    BY <1>3 DEF AddIdentity, Is
  <2>2. handler[h].user \in User
    BY <1>1, <2>1 DEF HandlerInv, Sound
  <2>3. identities' = identities \/ identities' = [identities EXCEPT ![<<handler[h].tenant, Ext_(h)>>] = handler[h].user]
    BY <1>3 DEF AddIdentity
  <2>4. identities'[k] \in {identities[k], handler[h].user}
    BY <1>1, <2>3 DEF AccountsTypeOK
  <2>5. handler[h].user # 0
    BY <2>2, AccountsAssumption DEF User
  <2> QED
    BY <2>4, <2>5
<1>4. \/ UNCHANGED identities
      \/ \E h \in Handler : MergeUser(h) \/ AddIdentity(h)
  <2>1. CASE UNCHANGED vars BY <2>1 DEF vars, store
  <2>2. CASE Restart BY <2>2 DEF Restart, store
  <2>3. CASE Administer
    BY <2>3 DEF Administer, InviteCreate, InviteRevoke, UserRemove, TenantDelete, TenantUpdate, MappingDelete
  <2>4. ASSUME NEW h \in Handler, NEW w \in Writes, NEW code \in Code \cup {None},
               NEW mention \in IF w[2] \in Group THEN BOOLEAN ELSE {TRUE}, Receive(h, w, code, mention)
        PROVE  UNCHANGED identities
    BY <2>4 DEF Receive, store
  <2>5. ASSUME NEW h \in Handler, Resolve(h) \/ Fails(h) \/ Recover(h) PROVE UNCHANGED identities
    BY <2>5 DEF Resolve, ResolveUser, ResolveGroup, ResolveChat, CreateChat, Resolved, Pass, Fails, Recover, store
  <2>6. ASSUME NEW h \in Handler, Join(h)
        PROVE  UNCHANGED identities \/ MergeUser(h) \/ AddIdentity(h)
    BY <2>6 DEF Join, JoinWithCode, JoinWithoutCode, CreateTenant, SaveUser, SaveMapping, UseCode, store
  <2> QED
    BY <2>1, <2>2, <2>3, <2>4, <2>5, <2>6 DEF AccountsNext
<1> QED
  BY <1>2, <1>3, <1>4

\* A merge loses nobody: who was the user that goes is a user that stays
\* (tenant_mapping.go:110).
THEOREM MergeLosesNobody == AccountsSpec => MergeKeepsSenders
<1>1. ASSUME AccountsInv, AccountsInv', [AccountsNext]_vars
      PROVE  [\A k \in DOMAIN identities :
                identities[k] # 0 /\ users'[identities[k]].state = "merged" =>
                  identities'[k] # 0 /\ users'[identities'[k]].state # "merged"]_vars
  <2>1. DOMAIN identities = Tenant \X Ext /\ MergedInv'
    BY <1>1 DEF AccountsInv, AccountsTypeOK
  <2> QED
    BY <1>1, <2>1, IdentityStays DEF MergedInv
<1> QED
  BY <1>1, AccountsInvariant, PTL DEF AccountsSpec, MergeKeepsSenders
===============================================================================
