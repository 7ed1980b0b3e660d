------------------------------ MODULE Telegram ------------------------------
(***************************************************************************)
(* The Telegram channel (channel/telegram) between the chats as Telegram   *)
(* keeps them and the stored history: the poll loop, the handling of an    *)
(* update, and the delivery of an answer in parts, with the identifiers    *)
(* that the mapper, the outbound handler and the store keep of both.       *)
(*                                                                         *)
(* The identifier of a message on the platform is its place in its chat,   *)
(* which is all Telegram promises.  What the loop does with a message is   *)
(* the concern of AgentRuntime: here a turn stores it and answers.         *)
(***************************************************************************)
EXTENDS Naturals, Sequences, FiniteSets

CONSTANTS
  Chat,
  Group,       \* the chats that are groups
  Limit,       \* updates in a batch
  Texts,       \* what messages of users are like: [names, large : BOOLEAN]
  Answers,     \* what answers are like: [parts : Nat, file : BOOLEAN]
  MaxUpdates,  \* bounds the messages and edits of users
  MaxTrouble   \* bounds failing calls and crashes, together

ASSUME TelegramAssumption ==
  /\ Group \subseteq Chat
  /\ Limit \in Nat \ {0}
  /\ Texts \subseteq [names : BOOLEAN, large : BOOLEAN]
  /\ Answers \subseteq [parts : Nat, file : BOOLEAN]
  /\ MaxUpdates \in Nat /\ MaxTrouble \in Nat

VARIABLES
  chat,      \* external: the messages of each chat, in order
  pending,   \* external: the updates the bot has not confirmed, numbered in order
  up,        \* the process runs
  offset,    \* of the poll loop
  batch,     \* updates received and not yet handled
  turns,     \* messages published to the loop
  rows,      \* table messages
  outbox,    \* answers published to the outbound topic
  send,      \* the answer under delivery
  posted,    \* updates so far
  trouble,   \* failing calls and crashes so far
  handled    \* history: the updates handed to the inbound handler

telegramVars == <<chat, pending, up, offset, batch, turns, rows, outbox, send,
          posted, trouble, handled>>

Idle == [pc |-> "idle"]

TelegramInit ==
  /\ chat = [c \in Chat |-> <<>>]
  /\ pending = {}
  /\ up = FALSE
  /\ offset = 0
  /\ batch = {}
  /\ turns = <<>>
  /\ rows = {}
  /\ outbox = <<>>
  /\ send = Idle
  /\ posted = 0
  /\ trouble = 0
  /\ handled = {}

Trouble == trouble < MaxTrouble /\ trouble' = trouble + 1

-----------------------------------------------------------------------------
(* The platform.  A message of a user quotes another one (or 0), names     *)
(* somebody, and has a file that is small or too large to be downloaded.   *)

Users(c) == {k \in DOMAIN chat[c] : chat[c][k].by = "user"}

Announce(c, k) ==
  /\ posted < MaxUpdates
  /\ posted' = posted + 1
  /\ pending' = pending \cup {[id |-> posted + 1, chat |-> c, msg |-> k]}

Post(c, q, text) ==
  /\ chat' = [chat EXCEPT ![c] =
       Append(@, [by |-> "user", quotes |-> q, text |-> text])]
  /\ Announce(c, Len(chat[c]) + 1)
  /\ UNCHANGED <<up, offset, batch, turns, rows, outbox, send, trouble, handled>>

\* An edited message keeps its identifier.
Edit(c, k) ==
  /\ Announce(c, k)
  /\ UNCHANGED <<chat, up, offset, batch, turns, rows, outbox, send, trouble, handled>>

-----------------------------------------------------------------------------
(* The process.                                                            *)

Start ==
  /\ ~up
  /\ up' = TRUE
  /\ offset' = 0
  /\ UNCHANGED <<chat, pending, batch, turns, rows, outbox, send, posted, trouble, handled>>

\* Queues are in memory.  A Stop hands the rest of the batch to the handler
\* with a cancelled context, which makes no difference to what is kept.
Crash ==
  /\ up
  /\ Trouble
  /\ up' = FALSE
  /\ batch' = {}
  /\ turns' = [i \in DOMAIN turns |->
       IF turns[i].at = "queued" THEN [turns[i] EXCEPT !.at = "lost"] ELSE turns[i]]
  /\ outbox' = <<>>
  /\ send' = Idle
  /\ UNCHANGED <<chat, pending, offset, rows, posted, handled>>

-----------------------------------------------------------------------------
(* Inbound.                                                                *)

\* The updates that are still there once the offset is confirmed.
Unconfirmed == {u \in pending : u.id >= offset}

First(n, updates) == {u \in updates : Cardinality({v \in updates : v.id < u.id}) < n}

\* Mutant: the first error ends the poll loop.
MayPollUntilError == up /\ batch = {} /\ trouble = 0

MayPoll == up /\ batch = {}

\* getUpdates: what lies before the offset is forgotten.  A poll that finds
\* nothing is left out: it confirms too, so that updates are repeated less.
Poll ==
  /\ MayPoll
  /\ Unconfirmed # {}
  /\ pending' = Unconfirmed
  /\ batch' = First(Limit, Unconfirmed)
  /\ UNCHANGED <<chat, up, offset, turns, rows, outbox, send, posted, trouble, handled>>

\* The call fails, or its answer is lost or cannot be read; the loop goes on.
PollFails ==
  /\ MayPoll
  /\ Trouble
  /\ pending' \in {pending, Unconfirmed}
  /\ UNCHANGED <<chat, up, offset, batch, turns, rows, outbox, send, posted, handled>>

\* A message that names anybody counts, and one that quotes a bot.
IsBotMentioned(c, m) == m.text.names \/ (m.quotes # 0 /\ chat[c][m.quotes].by = "bot")

\* Mutants: a lookup without the chat, or without the identifier.
FoundInAnyChat(c, k) == {r \in rows : r.ext = k}

FoundInChat(c, k) == {r \in rows : r.chat = c}

\* GetMessages with a chat and an external identifier.
Found(c, k) == {r \in rows : r.chat = c /\ r.ext = k}

Resolved(c, k) == IF k = 0 THEN {} ELSE {r.id : r \in Found(c, k)}

\* INSERT OR IGNORE under the unique index of chat and external identifier.
Inserted(r) == IF Found(r.chat, r.ext) = {} THEN rows \cup {r} ELSE rows

\* The answer to a file that is too large; it is no message of the history.
Notice(c, m) ==
  chat' = IF m.text.large THEN [chat EXCEPT ![c] = Append(@, [by |-> "bot", turn |-> 0, part |-> 0])] ELSE chat

\* A turn is numbered by the identifier the mapper made for its message.
Incoming(u) ==
  [chat |-> u.chat, msg |-> u.msg, at |-> "queued",
   quotes |-> chat[u.chat][u.msg].quotes,
   repliedTo |-> Resolved(u.chat, chat[u.chat][u.msg].quotes)]

After(u) == u.id + 1

\* The updates of a batch are handled in order.
IsNext(u) == \A v \in batch : u.id =< v.id

\* handleUpdate and the inbound handler.  In a group that answers mentions
\* only, other messages are stored at once.
HandleUpdate ==
  /\ up
  /\ \E u \in batch :
     LET m == chat[u.chat][u.msg]
         mention == u.chat \notin Group \/ IsBotMentioned(u.chat, m)
         t == Incoming(u)
     IN
     /\ IsNext(u)
     /\ offset' = After(u)
     /\ batch' = batch \ {u}
     /\ handled' = handled \cup {u.id}
     /\ Notice(u.chat, m)
     /\ turns' = Append(turns, IF mention THEN t ELSE [t EXCEPT !.at = "done"])
     /\ rows' = IF mention THEN rows
                ELSE Inserted([id |-> <<"in", Len(turns) + 1>>, chat |-> u.chat, ext |-> u.msg])
  /\ UNCHANGED <<pending, up, outbox, send, posted, trouble>>

\* A store call or Publish fails: the error is logged.
HandleFails ==
  /\ up
  /\ Trouble
  /\ \E u \in batch :
     /\ IsNext(u)
     /\ offset' = After(u)
     /\ batch' = batch \ {u}
     /\ handled' = handled \cup {u.id}
     /\ Notice(u.chat, chat[u.chat][u.msg])
  /\ UNCHANGED <<pending, up, turns, rows, outbox, send, posted>>

-----------------------------------------------------------------------------
(* The turn stores the message, and its answer before it is published.     *)

\* The turns of a chat come one after the other.
IsTurnOf(i) ==
  /\ turns[i].at = "queued"
  /\ \A j \in 1..(i - 1) : turns[j].chat = turns[i].chat => turns[j].at # "queued"

WithMessage(i) == Inserted([id |-> <<"in", i>>, chat |-> turns[i].chat, ext |-> turns[i].msg])

Turn(i, a) ==
  /\ up
  /\ IsTurnOf(i)
  /\ turns' = [turns EXCEPT ![i].at = "done"]
  /\ rows' = WithMessage(i)
             \cup {[id |-> <<"out", i>>, chat |-> turns[i].chat, ext |-> 0]}
  /\ outbox' = Append(outbox, [turn |-> i, parts |-> a.parts, file |-> a.file])
  /\ UNCHANGED <<chat, pending, up, offset, batch, send, posted, trouble, handled>>

\* The message, or the answer to it, cannot be stored: an error is published,
\* which is no message of the history.
TurnFails(i) ==
  /\ up
  /\ IsTurnOf(i)
  /\ Trouble
  /\ turns' = [turns EXCEPT ![i].at = "lost"]
  /\ rows' \in {rows, WithMessage(i)}
  /\ outbox' = Append(outbox, [turn |-> i, parts |-> 1, file |-> FALSE])
  /\ UNCHANGED <<chat, pending, up, offset, batch, send, posted, handled>>

-----------------------------------------------------------------------------
(* Outbound: one goroutine delivers the answers in order.                  *)

Deliver ==
  /\ up
  /\ send.pc = "idle"
  /\ outbox # <<>>
  /\ send' = [pc |-> IF Head(outbox).parts > 0 THEN "text" ELSE "file", answer |-> Head(outbox),
              part |-> 1, plain |-> FALSE, first |-> 0]
  /\ outbox' = Tail(outbox)
  /\ UNCHANGED <<chat, pending, up, offset, batch, turns, rows, posted, trouble, handled>>

To == turns[send.answer.turn].chat

\* The message the platform makes of a call.
Accepted(part) ==
  chat' = [chat EXCEPT ![To] = Append(@, [by |-> "bot", turn |-> send.answer.turn, part |-> part])]

FirstId == IF send.first = 0 THEN Len(chat[To]) + 1 ELSE send.first

NextPart ==
  IF send.part < send.answer.parts
  THEN [send EXCEPT !.part = @ + 1, !.plain = FALSE, !.first = FirstId]
  ELSE [send EXCEPT !.pc = "file", !.first = FirstId]

SendPart ==
  /\ up
  /\ send.pc = "text"
  /\ Accepted(send.part)
  /\ send' = NextPart
  /\ UNCHANGED <<pending, up, offset, batch, turns, rows, outbox, posted, trouble, handled>>

\* After any error the part is sent once more as plain text; after another
\* one the rest of the answer is dropped.
AfterError == IF send.plain THEN Idle ELSE [send EXCEPT !.plain = TRUE]

\* Refused by the platform, or accepted and the response lost.
SendPartFails ==
  /\ up
  /\ send.pc = "text"
  /\ Trouble
  /\ Accepted(send.part) \/ UNCHANGED chat
  /\ send' = AfterError
  /\ UNCHANGED <<pending, up, offset, batch, turns, rows, outbox, posted, handled>>

SendAttachment ==
  /\ up
  /\ send.pc = "file"
  /\ \/ ~send.answer.file /\ UNCHANGED <<chat, trouble>>
     \/ send.answer.file /\ Accepted(0) /\ UNCHANGED trouble
     \/ send.answer.file /\ Trouble /\ (Accepted(0) \/ UNCHANGED chat)
  /\ send' = IF send.first = 0 THEN Idle ELSE [send EXCEPT !.pc = "record"]
  /\ UNCHANGED <<pending, up, offset, batch, turns, rows, outbox, posted, handled>>

Answered == <<"out", send.answer.turn>>

\* UpdateExternalMessageID; an error is logged only.
Record ==
  /\ up
  /\ send.pc = "record"
  /\ \/ /\ rows' = {IF r.id = Answered THEN [r EXCEPT !.ext = send.first] ELSE r : r \in rows}
        /\ UNCHANGED trouble
     \/ Trouble /\ UNCHANGED rows
  /\ send' = Idle
  /\ UNCHANGED <<chat, pending, up, offset, batch, turns, outbox, posted, handled>>

-----------------------------------------------------------------------------
TelegramNext ==
  \/ \E c \in Chat, text \in Texts : \E q \in 0..Len(chat[c]) : Post(c, q, text)
  \/ \E c \in Chat : \E k \in Users(c) : Edit(c, k)
  \/ Start \/ Crash
  \/ Poll \/ PollFails \/ HandleUpdate \/ HandleFails
  \/ \E i \in DOMAIN turns : TurnFails(i) \/ \E a \in Answers : Turn(i, a)
  \/ Deliver \/ SendPart \/ SendPartFails \/ SendAttachment \/ Record

\* The process is started again, and its loops run.  Nothing that comes from
\* outside, no fault and no answer of a model has to happen.
TelegramFairness ==
  WF_telegramVars(Start) /\ WF_telegramVars(Poll) /\ WF_telegramVars(HandleUpdate)

TelegramSpec == TelegramInit /\ [][TelegramNext]_telegramVars /\ TelegramFairness

-----------------------------------------------------------------------------
UserMessage == [by : {"user"}, quotes : Nat, text : Texts]
BotMessage == [by : {"bot"}, turn : Nat, part : Nat]
Outgoing == [turn : Nat, parts : Nat, file : BOOLEAN]
RowId == {"in", "out"} \X Nat

\* Every variable has its type; an update has one of the numbers given out.
TelegramTypeOK ==
  /\ posted \in Nat
  /\ chat \in [Chat -> Seq(UserMessage \cup BotMessage)]
  /\ pending \cup batch \subseteq [id : 1..posted, chat : Chat, msg : Nat]
  /\ offset \in 0..(posted + 1)
  /\ turns \in Seq([chat : Chat, msg : Nat, at : {"queued", "done", "lost"}, quotes : Nat,
                    repliedTo : SUBSET RowId])
  /\ rows \subseteq [id : RowId, chat : Chat, ext : Nat]
  /\ outbox \in Seq(Outgoing)
  /\ send \in {Idle} \cup [pc : {"text", "file", "record"}, answer : Outgoing, part : Nat,
                           plain : BOOLEAN, first : Nat]
  /\ handled \subseteq 1..posted

\* What Telegram forgets was handed to the handler: neither a lost response
\* nor a restart between the receipt of a batch and its last update loses one.
ConfirmedWasHandled ==
  \A id \in 1..posted : id \in handled \/ \E u \in pending : u.id = id

\* The history has exactly one row of a message whose turn is over, however
\* often its update came: after a restart, which begins at the first
\* unconfirmed update, or because it was edited.
OneRowPerMessage ==
  \A i \in DOMAIN turns : turns[i].at = "done" =>
    Cardinality({r \in rows : r.chat = turns[i].chat /\ r.ext = turns[i].msg}) = 1

\* An identifier the history has of an answer is that of its first part, in
\* whatever order turns end and deliveries fail.
ExternalIsItsFirstPart ==
  \A r \in rows : r.id[1] = "out" /\ r.ext # 0 =>
    /\ r.ext \in DOMAIN chat[r.chat]
    /\ chat[r.chat][r.ext] = [by |-> "bot", turn |-> r.id[2], part |-> 1]

\* The history follows the chats: every message that had its turn has its one
\* row, and every row of an answer points at the first part of that answer.
RowsMatchMessages == OneRowPerMessage /\ ExternalIsItsFirstPart

\* The row a reply is resolved to is the quoted one, not that of a message
\* of another chat with the same identifier, nor an answer the identifier of
\* which was recorded for another one.
RepliedIsQuoted ==
  \A i \in DOMAIN turns : \A id \in turns[i].repliedTo :
    LET m == chat[turns[i].chat][turns[i].quotes] IN
    IF m.by = "user"
    THEN /\ id[1] = "in"
         /\ turns[id[2]].chat = turns[i].chat
         /\ turns[id[2]].msg = turns[i].quotes
    ELSE id = <<"out", m.turn>>

\* A part of an answer is on the platform only after the one before it: a
\* reader never sees an answer with a hole.
PartsInOrder ==
  \A c \in Chat : \A k \in DOMAIN chat[c] :
    LET m == chat[c][k] IN
    m.by = "bot" /\ m.turn # 0 /\ m.part > 1 =>
      \E l \in 1..(k - 1) : chat[c][l].by = "bot" /\ chat[c][l].turn = m.turn /\ chat[c][l].part = m.part - 1

\* Every update reaches the handler, whatever polls fail and however the
\* process is restarted meanwhile.
EveryUpdateHandled == \A id \in 1..MaxUpdates : (id \in 1..posted) ~> (id \in handled)

\* Violated: a part is sent once.  The response to the first attempt may be
\* what was lost.
PartsOnce ==
  \A c \in Chat : \A k, l \in DOMAIN chat[c] :
    /\ chat[c][k].by = "bot" /\ chat[c][k].turn # 0 /\ chat[c][k].part > 0
    /\ chat[c][l] = chat[c][k]
    => k = l

\* Violated: a message has one answer.  An edit and an update that comes again
\* after a restart start a turn although their message is in the history.
AnsweredOnce ==
  \A i, j \in DOMAIN turns :
    /\ turns[i].at = "done" /\ turns[j].at = "done"
    /\ turns[i].chat = turns[j].chat /\ turns[i].msg = turns[j].msg
    /\ \E r, s \in rows : r.id = <<"out", i>> /\ s.id = <<"out", j>>
    => i = j
=============================================================================
