------------------------------ MODULE EdgeProofs ------------------------------
(***************************************************************************)
(* Proofs about the two edges of the system that users touch: Secrets, for *)
(* any number of users, secrets, tokens, forms and commands under way at   *)
(* the same time, and Telegram, for any number of chats, updates and       *)
(* faults, any size of a batch and answers of any number of parts.         *)
(***************************************************************************)
EXTENDS Secrets, Telegram, FiniteSetTheorems, TLAPS

-----------------------------------------------------------------------------
(* Secrets.                                                                *)

Under == {"mkdir", "write", "run", "clean", "redact"}

\* Nobody changed what the command was given: it is what is in the table.
Current(m) ==
  \A k \in m.keys :
    /\ Effective(m.user, k) # None
    /\ Effective(m.user, k).val # Bad
    /\ m.given[k] = Effective(m.user, k)

FilesOf(m) == \E k \in DOMAIN m.given : m.given[k].mode = "file"

\* What the locals of a command are worth while it is under way.
Sound(m) ==
  /\ m.keys \cup m.todo \subseteq DOMAIN m.given
  /\ m.pc \in {"mkdir", "write"} => FilesOf(m)
  /\ ~m.changed => Current(m)

CommandInv == \A c \in Command : command[c].pc \in Under => Sound(command[c])

\* A token a form was sent with has a user.
TokenInv ==
  /\ \A t \in Token : tokens[t].state # "none" => tokens[t].user \in User
  /\ \A f \in Form : form[f].pc # "rest" => tokens[form[f].token].state # "none"

\* The agent is told of a token when it becomes used.
ToldInv ==
  \A t \in Token : notified[t] = 0 \/ (notified[t] = 1 /\ tokens[t].state = "used")

\* Who will remove the files of a user.
Removes(m, u) ==
  m.pc \in Under /\ m.user = u /\ (m.pc \in {"write", "clean"} \/ (m.pc = "run" /\ FilesOf(m)))

FilesInv ==
  \A u \in User \ left : dir[u] # None => \E c \in Command : Removes(command[c], u)

SecretsInv ==
  /\ SecretsTypeOK
  /\ CommandInv
  /\ TokenInv
  /\ ToldInv
  /\ FilesInv

-----------------------------------------------------------------------------
(* Lemmas.                                                                 *)

\* The record of a command by where it is.
LEMMA RecordOf ==
  ASSUME SecretsTypeOK, NEW c \in Command
  PROVE  /\ command[c].pc \in Under => command[c] \in Execution
         /\ command[c].pc = "shown" => command[c] \in Answer
         /\ command[c].pc \notin Under \cup {"shown"} => command[c] = AtRest
<1>1. command[c] \in Execution \cup Answer \cup {AtRest}
  BY DEF SecretsTypeOK
<1> QED
  BY <1>1 DEF Under, Execution, Answer, AtRest

\* The record of a form that is sent.
LEMMA FormOf ==
  ASSUME SecretsTypeOK, NEW f \in Form, form[f].pc # "rest"
  PROVE  form[f] \in Submission
<1>1. form[f] \in Submission \cup {AtRest}
  BY DEF SecretsTypeOK
<1> QED
  BY <1>1 DEF AtRest

\* What a user has under a name is an entry or nothing.
LEMMA EffectiveTyped ==
  ASSUME SecretsTypeOK, NEW u \in User, NEW k \in Key
  PROVE  Effective(u, k) \in Entry \cup {None}
<1>1. <<u, k>> \in Owner \X Key /\ <<Shared, k>> \in Owner \X Key
  BY DEF Owner
<1> QED
  BY <1>1 DEF Effective, SecretsTypeOK

\* The given secrets of a command are values with a mode.
LEMMA GivenTyped ==
  ASSUME NEW m \in Execution
  PROVE  /\ DOMAIN m.given \subseteq Key
         /\ \A k \in DOMAIN m.given : m.given[k].val \in Val /\ m.given[k].mode \in Mode
<1>1. PICK some \in SUBSET Key : m.given \in [some -> [val : Val, mode : Mode]]
  BY DEF Execution
<1> QED
  BY <1>1

\* One command goes on while the table stays as it is.
LEMMA CommandMoves ==
  ASSUME SecretsTypeOK, CommandInv, NEW c \in Command,
         NEW r \in Execution \cup Answer \cup {AtRest}, r \in Execution => Sound(r),
         CommandGoes(c, r), UNCHANGED secrets
  PROVE  command' \in [Command -> Execution \cup Answer \cup {AtRest}] /\ CommandInv'
<1>1. command' \in [Command -> Execution \cup Answer \cup {AtRest}]
  BY DEF CommandGoes, SecretsTypeOK
<1>2. SUFFICES ASSUME NEW x \in Command, command'[x].pc \in Under
               PROVE  Sound(command[x])'
  BY <1>1 DEF CommandInv
<1>3. CASE x = c
  <2>1. command'[x] = r /\ r \in Execution
    BY <1>2, <1>3 DEF CommandGoes, SecretsTypeOK, Under, Answer, AtRest
  <2> QED
    BY <2>1 DEF Sound, Current, FilesOf, Effective
<1>4. CASE x # c
  <2>1. command'[x] = command[x] /\ Sound(command[x])
    BY <1>2, <1>4 DEF CommandGoes, SecretsTypeOK, CommandInv
  <2> QED
    BY <2>1 DEF Sound, Current, FilesOf, Effective
<1> QED
  BY <1>3, <1>4

\* Files lie where they did, or their removal is on its way.
LEMMA FilesMove ==
  ASSUME SecretsTypeOK, FilesInv, NEW c \in Command, NEW r, CommandGoes(c, r),
         \A u \in User \ left' : dir'[u] # None /\ (u \in left \/ dir[u] = None) => Removes(r, u),
         \A u \in User \ left' : Removes(command[c], u) => dir'[u] = None \/ Removes(r, u)
  PROVE  FilesInv'
<1>1. command' \in [Command -> {command[x] : x \in Command} \cup {r}]
  BY DEF CommandGoes, SecretsTypeOK
<1>2. SUFFICES ASSUME NEW u \in User \ left', dir'[u] # None
               PROVE  \E x \in Command : Removes(command'[x], u)
  BY DEF FilesInv, Removes, FilesOf
<1>3. command'[c] = r
  BY DEF CommandGoes, SecretsTypeOK
<1>4. CASE u \in left \/ dir[u] = None
  BY <1>2, <1>3, <1>4
<1>5. CASE u \notin left /\ dir[u] # None
  <2>1. PICK x \in Command : Removes(command[x], u)
    BY <1>5 DEF FilesInv
  <2>2. CASE x = c
    BY <1>2, <1>3, <2>1, <2>2
  <2>3. CASE x # c
    <3>1. command'[x] = command[x]
      BY <2>3 DEF CommandGoes, SecretsTypeOK
    <3> QED
      BY <2>1, <3>1
  <2> QED
    BY <2>2, <2>3
<1> QED
  BY <1>4, <1>5

-----------------------------------------------------------------------------
(* The steps.                                                              *)

\* At the start nothing is under way and no file lies anywhere.
LEMMA SecretsStart == SecretsInit => SecretsInv /\ GivenIsRedacted
<1> SUFFICES ASSUME SecretsInit PROVE SecretsInv /\ GivenIsRedacted
  OBVIOUS
<1> USE DEF SecretsInit
<1>1. secrets \in [Owner \X Key -> Entry \cup {None}]
  <2>1. PICK shared \in [Key -> Given] :
          secrets = [x \in Owner \X Key |-> IF x[1] = Shared THEN shared[x[2]] ELSE None]
    OBVIOUS
  <2>2. \A k \in Key : shared[k] \in Entry \cup {None}
    BY SecretsAssumption
  <2> QED
    BY <2>1, <2>2
<1>2. tokens \in [Token -> [user : User \cup {None}, state : {"none", "open", "expired", "used"}]]
  OBVIOUS
<1>3. /\ form \in [Form -> Submission \cup {AtRest}]
      /\ command \in [Command -> Execution \cup Answer \cup {AtRest}]
      /\ dir \in [User -> [Var -> Val \cup {None}] \cup {None}]
      /\ notified \in [Token -> Nat]
  OBVIOUS
<1>4. writes \in 0..MaxWrites /\ left \subseteq User
  BY SecretsAssumption
<1>5. SecretsTypeOK
  BY <1>1, <1>2, <1>3, <1>4 DEF SecretsTypeOK
<1>6. CommandInv /\ TokenInv /\ ToldInv /\ FilesInv /\ GivenIsRedacted
  BY DEF CommandInv, TokenInv, ToldInv, FilesInv, GivenIsRedacted, AtRest, Under
<1> QED
  BY <1>5, <1>6 DEF SecretsInv

\* An entry is written: commands that see it know, and the others see what they
\* saw.
LEMMA PutStep ==
  ASSUME SecretsTypeOK, CommandInv, FilesInv, NEW o \in User, NEW k \in Key, NEW e \in Entry \cup {None},
         Put(o, k, e), UNCHANGED <<dir, left>>
  PROVE  /\ secrets' \in [Owner \X Key -> Entry \cup {None}]
         /\ command' \in [Command -> Execution \cup Answer \cup {AtRest}]
         /\ CommandInv' /\ FilesInv'
         /\ \A c \in Command :
              /\ command'[c].pc = command[c].pc
              /\ command[c].pc = "shown" /\ ~command'[c].changed => command'[c] = command[c]
<1>1. secrets' \in [Owner \X Key -> Entry \cup {None}]
  BY DEF Put, SecretsTypeOK, Owner
<1>2. ASSUME NEW c \in Command
      PROVE  /\ command'[c] \in Execution \cup Answer \cup {AtRest}
             /\ command'[c].pc = command[c].pc
             /\ command[c].pc # "rest" =>
                  \/ command'[c] = [command[c] EXCEPT !.changed = TRUE]
                  \/ command'[c] = command[c] /\ o # command[c].user /\ command[c].user \in User
  <2>1. CASE command[c].pc \in Under
    <3>1. command[c] \in Execution /\ command[c].user \in User /\ command[c].pc # "rest" /\ command[c].pc # "shown"
      BY <2>1, RecordOf DEF Under, Execution
    <3>2. command'[c] = IF Seen(o, c) THEN [command[c] EXCEPT !.changed = TRUE] ELSE command[c]
      BY DEF Put
    <3>3. PICK r : r = command[c]
      OBVIOUS
    <3>4. r \in Execution
      BY <3>1, <3>3
    <3>5. [r EXCEPT !.changed = TRUE] \in Execution /\ [r EXCEPT !.changed = TRUE].pc = r.pc
      BY <3>4 DEF Execution
    <3>6. CASE Seen(o, c)
      BY <3>2, <3>3, <3>5, <3>6
    <3>7. CASE ~Seen(o, c)
      BY <3>1, <3>2, <3>7 DEF Seen
    <3> QED
      BY <3>6, <3>7
  <2>2. CASE command[c].pc = "shown"
    BY <2>2, RecordOf DEF Put, Seen, Answer
  <2>3. CASE command[c].pc \notin Under \cup {"shown"}
    BY <2>3, RecordOf DEF Put, Seen, AtRest
  <2> QED
    BY <2>1, <2>2, <2>3
<1>3. command' \in [Command -> Execution \cup Answer \cup {AtRest}]
  <2>1. command' = [c \in Command |-> command'[c]]
    BY DEF Put
  <2> QED
    BY <1>2, <2>1
<1>4. ASSUME NEW c \in Command, command'[c].pc \in Under PROVE Sound(command[c])'
  <2>1. command[c] \in Execution /\ Sound(command[c])
    BY <1>2, <1>4, RecordOf DEF CommandInv
  <2>2. CASE command'[c] = [command[c] EXCEPT !.changed = TRUE]
    BY <2>1, <2>2 DEF Sound, FilesOf, Execution
  <2>3. CASE command'[c] = command[c] /\ o # command[c].user /\ command[c].user \in User
    <3>1. \A x \in Key : Effective(command[c].user, x)' = Effective(command[c].user, x)
      <4>1. \A x \in Key : /\ secrets'[<<command[c].user, x>>] = secrets[<<command[c].user, x>>]
                           /\ secrets'[<<Shared, x>>] = secrets[<<Shared, x>>]
        BY <2>3, SecretsAssumption DEF Put, SecretsTypeOK, Owner
      <4> QED
        BY <2>3, <4>1 DEF Effective
    <3>2. command[c].keys \subseteq Key
      BY <2>1 DEF Execution
    <3> QED
      BY <2>1, <2>3, <3>1, <3>2 DEF Sound, FilesOf, Current
  <2> QED
    BY <1>2, <1>4, <2>2, <2>3 DEF Under
<1>5. CommandInv'
  BY <1>4 DEF CommandInv
<1>6. ASSUME NEW c \in Command, NEW u \in User, Removes(command[c], u) PROVE Removes(command'[c], u)
  <2>1. command[c] \in Execution
    BY <1>6, RecordOf DEF Removes
  <2> QED
    BY <1>2, <1>6, <2>1 DEF Removes, FilesOf, Execution, Under
<1>7. FilesInv'
  BY <1>6 DEF FilesInv, Removes, FilesOf
<1>8. \A c \in Command : command[c].pc = "shown" /\ ~command'[c].changed => command'[c] = command[c]
  <2>1. ASSUME NEW c \in Command, command[c].pc = "shown", ~command'[c].changed
        PROVE  command'[c] = command[c]
    <3>1. command[c] \in Answer
      BY <2>1, RecordOf
    <3> QED
      BY <1>2, <2>1, <3>1 DEF Answer
  <2> QED
    BY <2>1
<1> QED
  BY <1>1, <1>2, <1>3, <1>5, <1>7, <1>8

\* Secrets that tools set and delete.
LEMMA ToolStep ==
  ASSUME SecretsInv, GivenIsRedacted, NEW u \in User, NEW k \in Key,
         Delete(u, k) \/ \E v \in Val : Set(u, k, v)
  PROVE  SecretsInv' /\ GivenIsRedacted'
<1> USE DEF SecretsInv
<1>1. PICK e \in Entry \cup {None} : Put(u, k, e)
  BY DEF Delete, Set, Entry, Mode
<1>2. writes' \in 0..MaxWrites /\ UNCHANGED <<tokens, form, dir, notified, left>>
  <2>1. /\ writes < MaxWrites /\ writes' = writes + 1
        /\ UNCHANGED <<tokens, form, dir, notified, left>>
    BY DEF Delete, Set
  <2>2. writes \in 0..MaxWrites /\ MaxWrites \in Nat
    BY SecretsAssumption DEF SecretsTypeOK
  <2> QED
    BY <2>1, <2>2
<1>3. SecretsTypeOK'
  BY <1>1, <1>2, PutStep DEF SecretsTypeOK
<1>4. CommandInv' /\ FilesInv'
  BY <1>1, <1>2, PutStep
<1>5. TokenInv' /\ ToldInv'
  BY <1>2 DEF TokenInv, ToldInv
<1>6. GivenIsRedacted'
  BY <1>1, <1>2, PutStep DEF GivenIsRedacted
<1> QED
  BY <1>3, <1>4, <1>5, <1>6

\* What the steps of forms leave alone.
LEMMA ElsewhereStep ==
  ASSUME SecretsInv, GivenIsRedacted, UNCHANGED <<secrets, command, dir, writes, left>>
  PROVE  CommandInv' /\ FilesInv' /\ GivenIsRedacted'
<1>1. CommandInv'
  BY DEF SecretsInv, CommandInv, Sound, Current, FilesOf, Effective
<1>2. FilesInv'
  BY DEF SecretsInv, FilesInv, Removes, FilesOf
<1>3. GivenIsRedacted'
  BY DEF GivenIsRedacted
<1> QED
  BY <1>1, <1>2, <1>3

\* Tokens are issued and expire.
LEMMA TokenStep ==
  ASSUME SecretsInv, GivenIsRedacted, NEW t \in Token,
         Expire(t) \/ \E u \in User : RequestEntry(u, t)
  PROVE  SecretsInv' /\ GivenIsRedacted'
<1> USE DEF SecretsInv
<1>1. UNCHANGED <<secrets, form, command, dir, writes, notified, left>>
  BY DEF Expire, RequestEntry
<1>2. \/ tokens[t].state = "open" /\ tokens' = [tokens EXCEPT ![t].state = "expired"]
      \/ tokens[t].state = "none" /\ \E u \in User : tokens' = [tokens EXCEPT ![t] = [user |-> u, state |-> "open"]]
  BY DEF Expire, RequestEntry
<1>3. tokens' \in [Token -> [user : User \cup {None}, state : {"none", "open", "expired", "used"}]]
  BY <1>2 DEF SecretsTypeOK
<1>4. SecretsTypeOK'
  BY <1>1, <1>3 DEF SecretsTypeOK
<1>5. TokenInv'
  <2>1. \A x \in Token : tokens[x].state # "none" => tokens'[x].state # "none" /\ tokens'[x].user = tokens[x].user
    BY <1>2 DEF SecretsTypeOK
  <2>2. \A x \in Token : tokens'[x].state # "none" => tokens'[x].user \in User
    BY <1>2 DEF SecretsTypeOK, TokenInv
  <2>3. \A f \in Form : form[f].pc # "rest" => form[f].token \in Token
    BY FormOf DEF Submission
  <2> QED
    BY <1>1, <2>1, <2>2, <2>3 DEF TokenInv
<1>6. ToldInv'
  BY <1>1, <1>2 DEF ToldInv, SecretsTypeOK
<1> QED
  BY <1>1, <1>4, <1>5, <1>6, ElsewhereStep

\* One form goes on while the tokens stay as they are.
LEMMA FormMoves ==
  ASSUME SecretsInv, GivenIsRedacted, NEW f \in Form, NEW r,
         r = AtRest \/ (r \in Submission /\ tokens[r.token].state # "none"),
         FormGoes(f, r), UNCHANGED <<secrets, tokens, command, dir, writes, notified, left>>
  PROVE  SecretsInv' /\ GivenIsRedacted'
<1> USE DEF SecretsInv
<1>1. form' \in [Form -> Submission \cup {AtRest}]
  BY DEF FormGoes, SecretsTypeOK
<1>2. SecretsTypeOK'
  BY <1>1 DEF SecretsTypeOK
<1>3. TokenInv'
  BY DEF FormGoes, SecretsTypeOK, TokenInv, AtRest
<1>4. ToldInv'
  BY DEF ToldInv
<1> QED
  BY <1>2, <1>3, <1>4, ElsewhereStep

\* Submissions come, are looked at once more, write their values and are marked.
LEMMA FormStep ==
  ASSUME SecretsInv, GivenIsRedacted, NEW f \in Form,
         \/ \E t \in Token, keys \in SUBSET Key : Submit(f, t, keys)
         \/ Consume(f) \/ MarkUsed(f) \/ FormFails(f)
         \/ \E k \in Key, e \in [val : Val, mode : Mode] : StoreValue(f, k, e)
  PROVE  SecretsInv' /\ GivenIsRedacted'
<1> USE DEF SecretsInv
<1>1. ASSUME NEW t \in Token, NEW keys \in SUBSET Key, Submit(f, t, keys)
      PROVE  SecretsInv' /\ GivenIsRedacted'
  <2> DEFINE r == [pc |-> "consume", token |-> t, todo |-> keys]
  <2>1. r \in Submission /\ tokens[r.token].state # "none"
    BY <1>1 DEF Submission, Submit, ValidateToken
  <2> QED
    BY <1>1, <2>1, FormMoves DEF Submit
<1>2. CASE Consume(f)
  <2> DEFINE r == [form[f] EXCEPT !.pc = "store"]
  <2>1. form[f] \in Submission /\ tokens[form[f].token].state # "none"
    BY <1>2, FormOf DEF Consume, TokenInv
  <2>2. r \in Submission /\ tokens[r.token].state # "none"
    BY <2>1 DEF Submission
  <2>3. FormGoes(f, r) \/ FormGoes(f, AtRest)
    BY <1>2 DEF Consume
  <2> QED
    BY <1>2, <2>2, <2>3, FormMoves DEF Consume
<1>3. CASE FormFails(f)
  BY <1>3, FormMoves DEF FormFails
<1>4. ASSUME NEW k \in Key, NEW e \in [val : Val, mode : Mode], StoreValue(f, k, e)
      PROVE  SecretsInv' /\ GivenIsRedacted'
  <2> DEFINE o == tokens[form[f].token].user
             r == [form[f] EXCEPT !.todo = @ \ {k}]
  <2>1. /\ form[f].pc = "store" /\ Put(o, k, e) /\ form' = [form EXCEPT ![f] = r]
        /\ UNCHANGED <<tokens, dir, writes, notified, left>>
    BY <1>4 DEF StoreValue, FormGoes
  <2>2. form[f] \in Submission /\ tokens[form[f].token].state # "none"
    BY <2>1, FormOf DEF TokenInv
  <2>3. r \in Submission /\ r.token = form[f].token
    BY <2>2 DEF Submission
  <2>4. form[f].token \in Token /\ o \in User
    BY <2>2 DEF Submission, TokenInv
  <2>5. e \in Entry \cup {None}
    BY DEF Entry
  <2>6. form' \in [Form -> Submission \cup {AtRest}]
    BY <2>1, <2>3 DEF SecretsTypeOK
  <2>7. SecretsTypeOK'
    BY <2>1, <2>4, <2>5, <2>6, PutStep DEF SecretsTypeOK
  <2>8. CommandInv' /\ FilesInv'
    BY <2>1, <2>4, <2>5, PutStep
  <2>9. TokenInv'
    BY <2>1, <2>2, <2>3 DEF TokenInv, SecretsTypeOK
  <2>10. ToldInv'
    BY <2>1 DEF ToldInv
  <2>11. GivenIsRedacted'
    BY <2>1, <2>4, <2>5, PutStep DEF GivenIsRedacted
  <2> QED
    BY <2>7, <2>8, <2>9, <2>10, <2>11
<1>5. CASE MarkUsed(f)
  <2> DEFINE t == form[f].token
  <2>1. /\ form[f].pc = "store" /\ form' = [form EXCEPT ![f] = AtRest]
        /\ UNCHANGED <<secrets, command, dir, writes, left>>
    BY <1>5 DEF MarkUsed, FormGoes
  <2>2. t \in Token
    BY <2>1, FormOf DEF Submission
  <2>3. \/ UNCHANGED <<tokens, notified>>
        \/ /\ tokens[t].state # "used"
           /\ tokens' = [tokens EXCEPT ![t].state = "used"]
           /\ notified' = [notified EXCEPT ![t] = @ + 1]
    BY <1>5 DEF MarkUsed, Markable
  <2>4. form' \in [Form -> Submission \cup {AtRest}]
    BY <2>1 DEF SecretsTypeOK
  <2>5. /\ tokens' \in [Token -> [user : User \cup {None}, state : {"none", "open", "expired", "used"}]]
        /\ \A x \in Token : /\ tokens'[x].user = tokens[x].user
                            /\ tokens'[x].state = IF x = t /\ ~UNCHANGED tokens THEN "used" ELSE tokens[x].state
    BY <2>2, <2>3 DEF SecretsTypeOK
  <2>6. notified' \in [Token -> Nat]
    BY <2>2, <2>3 DEF SecretsTypeOK
  <2>7. SecretsTypeOK'
    BY <2>1, <2>4, <2>5, <2>6 DEF SecretsTypeOK
  <2>8. TokenInv'
    <3>1. tokens[t].state # "none"
      BY <2>1 DEF TokenInv
    <3>2. ASSUME NEW g \in Form, form'[g].pc # "rest"
          PROVE  form'[g] = form[g] /\ form[g].token \in Token
      BY <2>1, <3>2, FormOf DEF SecretsTypeOK, Submission, AtRest
    <3> QED
      BY <2>5, <3>1, <3>2 DEF TokenInv
  <2>9. ToldInv'
    BY <2>2, <2>3 DEF ToldInv, SecretsTypeOK
  <2> QED
    BY <2>1, <2>7, <2>8, <2>9, ElsewhereStep
<1> QED
  BY <1>1, <1>2, <1>3, <1>4, <1>5

\* A step of one command, by what it does to the command and to the files.
LEMMA CommandStep ==
  ASSUME SecretsInv, GivenIsRedacted, NEW c \in Command,
         NEW r \in Execution \cup Answer \cup {AtRest}, CommandGoes(c, r),
         r \in Execution => Sound(r),
         r \in Answer /\ ~r.changed /\ r.listed => r.leaked \subseteq Short \cup Breakable,
         dir' \in [User -> [Var -> Val \cup {None}] \cup {None}], left' \subseteq User,
         \A u \in User \ left' : dir'[u] # None /\ (u \in left \/ dir[u] = None) => Removes(r, u),
         \A u \in User \ left' : Removes(command[c], u) => dir'[u] = None \/ Removes(r, u),
         UNCHANGED <<secrets, tokens, form, writes, notified>>
  PROVE  SecretsInv' /\ GivenIsRedacted'
<1> USE DEF SecretsInv
<1>1. command' \in [Command -> Execution \cup Answer \cup {AtRest}] /\ CommandInv'
  BY CommandMoves
<1>2. SecretsTypeOK'
  BY <1>1 DEF SecretsTypeOK
<1>3. FilesInv'
  BY FilesMove
<1>4. TokenInv' /\ ToldInv'
  BY DEF TokenInv, ToldInv
<1>5. GivenIsRedacted'
  <2>1. ASSUME NEW x \in Command, command'[x].pc = "shown", ~command'[x].changed, command'[x].listed
        PROVE  command'[x].leaked \subseteq Short \cup Breakable
    <3>1. CASE x = c
      <4>1. command'[x] = r /\ r \in Answer
        BY <2>1, <3>1 DEF CommandGoes, SecretsTypeOK, Execution, AtRest
      <4> QED
        BY <2>1, <4>1
    <3>2. CASE x # c
      BY <2>1, <3>2 DEF CommandGoes, SecretsTypeOK, GivenIsRedacted
    <3> QED
      BY <3>1, <3>2
  <2> QED
    BY <2>1 DEF GivenIsRedacted
<1> QED
  BY <1>1, <1>2, <1>3, <1>4, <1>5

\* A command starts with what EnvVars finds, and with its files to write.
LEMMA ExecStep ==
  ASSUME SecretsInv, GivenIsRedacted, NEW c \in Command, NEW u \in User, Exec(c, u)
  PROVE  SecretsInv' /\ GivenIsRedacted'
<1> DEFINE keys == EnvVars(u)
           named == {VarOf[k] : k \in keys}
           files == {k \in keys : Effective(u, k).mode = "file"}
<1>1. PICK last \in [named -> keys] :
        /\ command[c].pc = "rest"
        /\ CommandGoes(c, [pc |-> IF files = {} THEN "run" ELSE "mkdir", user |-> u,
                           keys |-> {last[v] : v \in named}, todo |-> files,
                           given |-> [k \in keys |-> Effective(u, k)],
                           printed |-> {}, changed |-> FALSE])
        /\ UNCHANGED <<secrets, tokens, form, dir, writes, notified, left>>
  BY DEF Exec
<1> DEFINE r == [pc |-> IF files = {} THEN "run" ELSE "mkdir", user |-> u,
                 keys |-> {last[v] : v \in named}, todo |-> files,
                 given |-> [k \in keys |-> Effective(u, k)],
                 printed |-> {}, changed |-> FALSE]
<1>2. /\ keys \subseteq Key
      /\ \A k \in keys : Effective(u, k) # None /\ Effective(u, k).val # Bad
  BY DEF EnvVars, Listed
<1>3. \A k \in keys : Effective(u, k) \in [val : Val, mode : Mode]
  BY <1>2, EffectiveTyped DEF Entry, SecretsInv
<1> HIDE DEF keys
<1>4. r.given \in [keys -> [val : Val, mode : Mode]]
  BY <1>3
<1>5. r.keys \subseteq keys /\ files \subseteq keys
  OBVIOUS
<1>6. r \in Execution
  BY <1>2, <1>4, <1>5 DEF Execution
<1>7. FilesOf(r) <=> files # {}
  BY DEF FilesOf
<1>8. Sound(r)
  BY <1>2, <1>5, <1>7 DEF Sound, Current
<1>9. ~\E x \in User : Removes(command[c], x)
  BY <1>1 DEF Removes, Under
<1>10. CommandGoes(c, r) /\ r \notin Answer
  BY <1>1 DEF Answer
<1> HIDE DEF r
<1>11. SecretsTypeOK
  BY DEF SecretsInv
<1>12. /\ dir' \in [User -> [Var -> Val \cup {None}] \cup {None}] /\ left' \subseteq User
       /\ \A x \in User \ left' : ~(dir'[x] # None /\ (x \in left \/ dir[x] = None))
  BY <1>1, <1>11 DEF SecretsTypeOK
<1> QED
  BY <1>1, <1>6, <1>8, <1>9, <1>10, <1>12, CommandStep

\* The directory is made, or is not.
LEMMA MakeDirStep ==
  ASSUME SecretsInv, GivenIsRedacted, NEW c \in Command, MakeDir(c) \/ MakeDirFails(c)
  PROVE  SecretsInv' /\ GivenIsRedacted'
<1> DEFINE u == command[c].user
           r(pc) == [command[c] EXCEPT !.pc = pc]
<1>1. SecretsTypeOK /\ command[c].pc = "mkdir"
  BY DEF MakeDir, MakeDirFails, SecretsInv
<1>2. command[c] \in Execution /\ Sound(command[c]) /\ FilesOf(command[c]) /\ u \in User
  BY <1>1, RecordOf DEF Under, SecretsInv, CommandInv, Sound, Execution
<1>3. ASSUME NEW pc \in {"write", "run"}
      PROVE  r(pc) \in Execution /\ Sound(r(pc)) /\ r(pc) \notin Answer /\ Removes(r(pc), u)
  BY <1>2 DEF Execution, Answer, Sound, Current, FilesOf, Removes, Under
<1>4. /\ \/ CommandGoes(c, r("write")) /\ dir' = [dir EXCEPT ![u] = IF @ = None THEN NoFiles ELSE @]
         \/ CommandGoes(c, r("run")) /\ UNCHANGED dir
      /\ UNCHANGED <<secrets, tokens, form, writes, notified, left>>
  BY DEF MakeDir, MakeDirFails, Goes
<1>5. dir' \in [User -> [Var -> Val \cup {None}] \cup {None}] /\ left' \subseteq User
  BY <1>1, <1>2, <1>4 DEF SecretsTypeOK, NoFiles
<1>6. ~\E x \in User : Removes(command[c], x)
  BY <1>1 DEF Removes
<1>7. \A x \in User \ left' : dir'[x] # None /\ (x \in left \/ dir[x] = None) => x = u
  BY <1>1, <1>2, <1>4 DEF SecretsTypeOK
<1> QED
  BY <1>3, <1>4, <1>5, <1>6, <1>7, CommandStep

\* A file is written, or is not; the others' files stay where they are.
LEMMA WriteFileStep ==
  ASSUME SecretsInv, GivenIsRedacted, NEW c \in Command, NEW k \in Key, WriteFile(c, k)
  PROVE  SecretsInv' /\ GivenIsRedacted'
<1> DEFINE u == command[c].user
           rest == command[c].todo \ {k}
           r == [command[c] EXCEPT !.todo = rest, !.pc = IF rest = {} THEN "run" ELSE "write"]
<1>1. /\ SecretsTypeOK /\ command[c].pc = "write" /\ k \in command[c].todo /\ CommandGoes(c, r)
      /\ UNCHANGED <<secrets, tokens, form, writes, notified, left>>
  BY DEF WriteFile, SecretsInv
<1>2. command[c] \in Execution /\ Sound(command[c]) /\ FilesOf(command[c]) /\ u \in User
  BY <1>1, RecordOf DEF Under, SecretsInv, CommandInv, Sound, Execution
<1>3. r \in Execution /\ Sound(r) /\ r \notin Answer /\ Removes(r, u)
  BY <1>1, <1>2 DEF Execution, Answer, Sound, Current, FilesOf, Removes, Under
<1>4. command[c].given[k].val \in Val /\ VarOf[k] \in Var
  BY <1>1, <1>2, GivenTyped, SecretsAssumption DEF Sound
<1>5. /\ dir' \in [User -> [Var -> Val \cup {None}] \cup {None}] /\ left' \subseteq User
      /\ \A x \in User : x # u \/ dir[x] = None => dir'[x] = dir[x]
  <2>1. CASE UNCHANGED dir
    BY <1>1, <2>1 DEF SecretsTypeOK
  <2>2. CASE dir[u] # None /\ dir' = [dir EXCEPT ![u][VarOf[k]] = command[c].given[k].val]
    <3>1. dir[u] \in [Var -> Val \cup {None}]
      BY <1>1, <1>2, <2>2 DEF SecretsTypeOK
    <3> QED
      BY <1>1, <1>2, <1>4, <2>2, <3>1 DEF SecretsTypeOK
  <2> QED
    BY <2>1, <2>2 DEF WriteFile
<1>6. \A x \in User : Removes(command[c], x) => x = u
  BY DEF Removes
<1> QED
  BY <1>1, <1>3, <1>5, <1>6, CommandStep

\* A command prints what it finds, and goes on to its clean-up if it has files.
LEMMA RunStep ==
  ASSUME SecretsInv, GivenIsRedacted, NEW c \in Command, Run(c)
  PROVE  SecretsInv' /\ GivenIsRedacted'
<1> DEFINE u == command[c].user
           printed == {Content(c, k) : k \in command[c].keys} \ {None}
           r(pc) == [command[c] EXCEPT !.pc = pc, !.printed = printed]
<1>1. /\ SecretsTypeOK /\ command[c].pc = "run"
      /\ UNCHANGED <<secrets, tokens, form, dir, writes, notified, left>>
  BY DEF Run, SecretsInv
<1>2. command[c] \in Execution /\ Sound(command[c]) /\ u \in User
  BY <1>1, RecordOf DEF Under, SecretsInv, CommandInv, Execution
<1>3. printed \subseteq Val
  <2>1. ASSUME NEW k \in command[c].keys PROVE Content(c, k) \in Val \cup {None}
    <3>1. k \in DOMAIN command[c].given
      BY <1>2 DEF Sound
    <3>2. k \in Key /\ command[c].given[k].val \in Val
      BY <1>2, <3>1, GivenTyped
    <3>3. VarOf[k] \in Var
      BY <3>2, SecretsAssumption
    <3>4. dir[u] # None => dir[u] \in [Var -> Val \cup {None}]
      BY <1>1, <1>2 DEF SecretsTypeOK
    <3> QED
      BY <3>2, <3>3, <3>4 DEF Content
  <2> QED
    BY <2>1
<1> HIDE DEF printed
<1>4. PICK pc \in IF HasFiles(c) THEN {"clean"} ELSE {"redact"} : CommandGoes(c, r(pc))
  BY DEF Run, AfterRun, printed
<1>5. r(pc) \in Execution /\ Sound(r(pc)) /\ r(pc) \notin Answer
  BY <1>2, <1>3 DEF Execution, Answer, Sound, Current, FilesOf
<1>6. \A x \in User : Removes(command[c], x) => Removes(r(pc), x)
  BY <1>1, <1>2 DEF Removes, HasFiles, FilesOf, Execution, Under
<1>7. /\ dir' \in [User -> [Var -> Val \cup {None}] \cup {None}] /\ left' \subseteq User
      /\ \A x \in User \ left' : ~(dir'[x] # None /\ (x \in left \/ dir[x] = None))
  BY <1>1 DEF SecretsTypeOK
<1> HIDE DEF r
<1> QED
  BY <1>1, <1>4, <1>5, <1>6, <1>7, CommandStep

\* The files are gone, or the clean-up did not reach them.
LEMMA CleanStep ==
  ASSUME SecretsInv, GivenIsRedacted, NEW c \in Command, Clean(c) \/ CleanFails(c)
  PROVE  SecretsInv' /\ GivenIsRedacted'
<1> DEFINE u == command[c].user
           r == [command[c] EXCEPT !.pc = "redact"]
<1>1. /\ SecretsTypeOK /\ command[c].pc = "clean" /\ CommandGoes(c, r)
      /\ UNCHANGED <<secrets, tokens, form, writes, notified>>
      /\ \/ dir' = [dir EXCEPT ![u] = None] /\ left' = left \ {u}
         \/ left' = left \cup {u} /\ UNCHANGED dir
  BY DEF Clean, CleanFails, Goes, SecretsInv
<1>2. command[c] \in Execution /\ Sound(command[c]) /\ u \in User
  BY <1>1, RecordOf DEF Under, SecretsInv, CommandInv, Execution
<1>3. r \in Execution /\ Sound(r) /\ r \notin Answer
  BY <1>2 DEF Execution, Answer, Sound, Current, FilesOf
<1>4. /\ dir' \in [User -> [Var -> Val \cup {None}] \cup {None}] /\ left' \subseteq User
      /\ \A x \in User \ left' : /\ ~(dir'[x] # None /\ (x \in left \/ dir[x] = None))
                                 /\ x = u => dir'[x] = None
  BY <1>1, <1>2 DEF SecretsTypeOK
<1>5. \A x \in User : Removes(command[c], x) => x = u
  BY DEF Removes
<1> QED
  BY <1>1, <1>3, <1>4, <1>5, CommandStep

\* Every value a command was given is among those Redact looks for, or is short,
\* as long as the table is what it was given from.
LEMMA GivenIsLookedFor ==
  ASSUME SecretsTypeOK, NEW m \in Execution, Current(m), NEW k \in m.keys
  PROVE  m.given[k].val \in Values(m.user) \cup Short
<1> DEFINE u == m.user
           own == secrets[<<u, k>>]
           shared == secrets[<<Shared, k>>]
<1>1. u \in User /\ k \in Key
  BY DEF Execution
<1>2. Effective(u, k) # None /\ Effective(u, k).val # Bad /\ m.given[k] = Effective(u, k)
  BY DEF Current
<1>3. CASE own # None
  <2>1. m.given[k].val = own.val /\ own.val # Bad
    BY <1>2, <1>3 DEF Effective
  <2> QED
    BY <1>1, <1>3, <2>1 DEF Values
<1>4. CASE own = None
  <2>1. m.given[k].val = shared.val /\ shared # None /\ shared.val # Bad
    BY <1>2, <1>4 DEF Effective
  <2> QED
    BY <1>1, <1>4, <2>1 DEF Values
<1> QED
  BY <1>3, <1>4

\* What is redacted is all but short and broken values.
LEMMA RedactStep ==
  ASSUME SecretsInv, GivenIsRedacted, NEW c \in Command, Redact(c)
  PROVE  SecretsInv' /\ GivenIsRedacted'
<1> DEFINE u == command[c].user
           values == Values(u)
           containing == {x \in values : \E y \in values \ {x} : <<y, x>> \in PartOf}
           r(broken) == [pc |-> "shown", user |-> u, changed |-> command[c].changed,
                         listed |-> TRUE,
                         leaked |-> (command[c].printed \cap GivenTo(c)) \ (values \ broken)]
<1>1. /\ SecretsTypeOK /\ command[c].pc = "redact"
  BY DEF Redact, SecretsInv
<1>2. command[c] \in Execution /\ Sound(command[c]) /\ u \in User
  BY <1>1, RecordOf DEF Under, SecretsInv, CommandInv, Execution
<1>3. PICK broken \in SUBSET containing :
        /\ CommandGoes(c, r(broken))
        /\ UNCHANGED <<secrets, tokens, form, dir, writes, notified, left>>
  BY DEF Redact, Show
<1>4. r(broken) \in Answer /\ r(broken) \notin Execution
  BY <1>2 DEF Answer, Execution
<1>5. ~command[c].changed => r(broken).leaked \subseteq Short \cup Breakable
  <2>1. ASSUME ~command[c].changed, NEW x \in r(broken).leaked PROVE x \in Short \cup Breakable
    <3>1. PICK k \in command[c].keys : x = command[c].given[k].val
      BY <2>1 DEF GivenTo
    <3>2. x \in values \cup Short
      BY <1>1, <1>2, <2>1, <3>1, GivenIsLookedFor DEF Sound
    <3>3. x \in Short \/ x \in broken
      BY <2>1, <3>2
    <3>4. x \in broken => x \in Breakable
      BY SecretsAssumption DEF Breakable
    <3> QED
      BY <3>3, <3>4
  <2> QED
    BY <2>1
<1>6. ~\E x \in User : Removes(command[c], x)
  BY <1>1 DEF Removes
<1>7. /\ dir' \in [User -> [Var -> Val \cup {None}] \cup {None}] /\ left' \subseteq User
      /\ \A x \in User \ left' : ~(dir'[x] # None /\ (x \in left \/ dir[x] = None))
  BY <1>1, <1>3 DEF SecretsTypeOK
<1>8. r(broken).changed = command[c].changed
  OBVIOUS
<1> HIDE DEF r
<1> QED
  BY <1>3, <1>4, <1>5, <1>6, <1>7, <1>8, CommandStep

\* What Redact cannot look for is shown as it is, and is marked so.
LEMMA RedactFailsStep ==
  ASSUME SecretsInv, GivenIsRedacted, NEW c \in Command, RedactFails(c)
  PROVE  SecretsInv' /\ GivenIsRedacted'
<1> DEFINE r == [pc |-> "shown", user |-> command[c].user, changed |-> command[c].changed,
                 listed |-> FALSE, leaked |-> command[c].printed \cap GivenTo(c)]
<1>1. /\ SecretsTypeOK /\ command[c].pc = "redact" /\ CommandGoes(c, r)
      /\ UNCHANGED <<secrets, tokens, form, dir, writes, notified, left>>
  BY DEF RedactFails, Show, SecretsInv
<1>2. command[c] \in Execution
  BY <1>1, RecordOf DEF Under
<1>3. r \in Answer /\ r \notin Execution /\ ~r.listed
  BY <1>2 DEF Answer, Execution
<1>4. ~\E x \in User : Removes(command[c], x)
  BY <1>1 DEF Removes
<1>5. /\ dir' \in [User -> [Var -> Val \cup {None}] \cup {None}] /\ left' \subseteq User
      /\ \A x \in User \ left' : ~(dir'[x] # None /\ (x \in left \/ dir[x] = None))
  BY <1>1 DEF SecretsTypeOK
<1> HIDE DEF r
<1> QED
  BY <1>1, <1>3, <1>4, <1>5, CommandStep

\* A command whose answer was given is over.
LEMMA ReturnStep ==
  ASSUME SecretsInv, GivenIsRedacted, NEW c \in Command, Return(c)
  PROVE  SecretsInv' /\ GivenIsRedacted'
<1>1. /\ SecretsTypeOK /\ command[c].pc = "shown" /\ CommandGoes(c, AtRest)
      /\ UNCHANGED <<secrets, tokens, form, dir, writes, notified, left>>
  BY DEF Return, SecretsInv
<1>2. ~\E x \in User : Removes(command[c], x)
  BY <1>1 DEF Removes, Under
<1>3. AtRest \notin Execution /\ AtRest \notin Answer
  BY DEF AtRest, Execution, Answer
<1>4. /\ dir' \in [User -> [Var -> Val \cup {None}] \cup {None}] /\ left' \subseteq User
      /\ \A x \in User \ left' : ~(dir'[x] # None /\ (x \in left \/ dir[x] = None))
  BY <1>1 DEF SecretsTypeOK
<1> QED
  BY <1>1, <1>2, <1>3, <1>4, CommandStep

\* Every step keeps the invariant.
LEMMA SecretsStep ==
  ASSUME SecretsInv, GivenIsRedacted, [SecretsNext]_vars
  PROVE  SecretsInv' /\ GivenIsRedacted'
<1>1. ASSUME NEW u \in User, NEW k \in Key, Delete(u, k) \/ \E v \in Val : Set(u, k, v)
      PROVE  SecretsInv' /\ GivenIsRedacted'
  BY <1>1, ToolStep
<1>2. ASSUME NEW t \in Token, Expire(t) \/ \E u \in User : RequestEntry(u, t)
      PROVE  SecretsInv' /\ GivenIsRedacted'
  BY <1>2, TokenStep
<1>3. ASSUME NEW f \in Form,
             \/ \E t \in Token, keys \in SUBSET Key : Submit(f, t, keys)
             \/ Consume(f) \/ MarkUsed(f) \/ FormFails(f)
             \/ \E k \in Key, e \in [val : Val, mode : Mode] : StoreValue(f, k, e)
      PROVE  SecretsInv' /\ GivenIsRedacted'
  BY <1>3, FormStep
<1>4. ASSUME NEW c \in Command,
             \/ \E u \in User : Exec(c, u)
             \/ MakeDir(c) \/ MakeDirFails(c) \/ Run(c) \/ Clean(c) \/ CleanFails(c)
             \/ \E k \in Key : WriteFile(c, k)
             \/ Redact(c) \/ RedactFails(c) \/ Return(c)
      PROVE  SecretsInv' /\ GivenIsRedacted'
  BY <1>4, ExecStep, MakeDirStep, WriteFileStep, RunStep, CleanStep, RedactStep,
     RedactFailsStep, ReturnStep
<1>5. CASE UNCHANGED vars
  BY <1>5 DEF vars, SecretsInv, SecretsTypeOK, CommandInv, Sound, Current, FilesOf, Effective, TokenInv,
     ToldInv, FilesInv, Removes, GivenIsRedacted
<1> QED
  BY <1>1, <1>2, <1>3, <1>4, <1>5 DEF SecretsNext

-----------------------------------------------------------------------------
(* Theorems.                                                               *)

\* The inductive invariant: the types of all variables, what the locals of a
\* command are worth, whose tokens the forms hold, who was told of a token, who
\* will remove the files that lie in a sandbox, and what is shown of a command.
THEOREM SecretsInvariant == SecretsSpec => [](SecretsInv /\ GivenIsRedacted)
<1>1. SecretsInit => SecretsInv /\ GivenIsRedacted
  BY SecretsStart
<1>2. (SecretsInv /\ GivenIsRedacted) /\ [SecretsNext]_vars => (SecretsInv /\ GivenIsRedacted)'
  BY SecretsStep
<1> QED
  BY <1>1, <1>2, PTL DEF SecretsSpec

\* Every variable keeps its type; that of a command has the fields of its place.
THEOREM SecretsTypes == SecretsSpec => []SecretsTypeOK
<1>1. SecretsInv /\ GivenIsRedacted => SecretsTypeOK
  BY DEF SecretsInv
<1> QED
  BY <1>1, SecretsInvariant, PTL

\* Any number of submissions of one form, at any time, tell the agent once
\* (ConsumeSecretToken).
THEOREM AgentIsToldOnce == SecretsSpec => []ToldOnce
<1>1. SecretsInv /\ GivenIsRedacted => ToldOnce
  BY DEF SecretsInv, ToldInv, ToldOnce
<1> QED
  BY <1>1, SecretsInvariant, PTL

\* Any number of commands that write to and remove the same directory leave no
\* file behind but where a removal failed (proxy.go:168).
THEOREM NoFileStays == SecretsSpec => []FilesAreRemoved
<1>1. SecretsInv /\ GivenIsRedacted => FilesAreRemoved
  BY DEF SecretsInv, FilesInv, Removes, FilesAreRemoved
<1> QED
  BY <1>1, SecretsInvariant, PTL

\* None of the secrets that a command was given is shown, whatever cannot be
\* decrypted and whoever's it is (impl.go:168), but for the short ones and those
\* that contain another one, if nobody changed a secret meanwhile and the secrets
\* could be listed when the command was over (impl.go:176).
THEOREM NothingGivenIsShown == SecretsSpec => []GivenIsRedacted
  BY SecretsInvariant, PTL

-----------------------------------------------------------------------------
(* Telegram: its inductive invariant.                                      *)

\* A turn is about a message of a user; what that quotes was there before, and
\* what the mapper found of it belongs to some turn.
IsTurn(i) ==
  /\ turns[i].msg \in Users(turns[i].chat)
  /\ turns[i].quotes # 0 => turns[i].quotes \in DOMAIN chat[turns[i].chat]
  /\ turns[i].repliedTo # {} => turns[i].quotes # 0
  /\ \A id \in turns[i].repliedTo : id[2] \in DOMAIN turns

\* The row id is that of message k of chat c.
IsRowOf(id, c, k) ==
  LET m == chat[c][k] IN
  IF m.by = "user"
  THEN id[1] = "in" /\ turns[id[2]].chat = c /\ turns[id[2]].msg = k
  ELSE id = <<"out", m.turn>>

\* What the mapper found of the message a turn quotes are rows of that message.
IsReplied(i) == \A id \in turns[i].repliedTo : IsRowOf(id, turns[i].chat, turns[i].quotes)

\* What the turns were made of.
TurnInv == \A i \in DOMAIN turns : IsTurn(i) /\ IsReplied(i)

\* Messages and updates point backwards.
ChatInv ==
  /\ \A c \in Chat : \A k \in Users(c) : chat[c][k].quotes # 0 => chat[c][k].quotes \in DOMAIN chat[c]
  /\ \A u \in pending \cup batch : u.msg \in Users(u.chat)

\* The part of an answer that has this number.
IsPart(m, turn, part) == m.by = "bot" /\ m.turn = turn /\ m.part = part

\* A row belongs to a turn: it is the row of the message of the turn, or of
\* the answer, which has the identifier of its first part or none.
IsRow(r) ==
  /\ r.id[2] \in DOMAIN turns
  /\ r.chat = turns[r.id[2]].chat
  /\ r.id[1] = "in" => r.ext = turns[r.id[2]].msg
  /\ r.id[1] = "out" /\ r.ext # 0 =>
       /\ r.ext \in DOMAIN chat[r.chat]
       /\ IsPart(chat[r.chat][r.ext], r.id[2], 1)

\* So is each row.
RowInv == \A r \in rows : IsRow(r)

\* Each message that had its turn has one.
RowOnce ==
  /\ \A r, s \in rows : r.id[1] = "in" /\ s.id[1] = "in" /\ r.chat = s.chat /\ r.ext = s.ext => r = s
  /\ \A i \in DOMAIN turns : turns[i].at = "done" =>
       \E r \in rows : r.id[1] = "in" /\ r.chat = turns[i].chat /\ r.ext = turns[i].msg

\* The answer under delivery: the identifier kept is that of its first part,
\* and before a part the one before it was accepted.
SendInv ==
  /\ \A i \in DOMAIN outbox : outbox[i].turn \in DOMAIN turns
  /\ send.pc # "idle" =>
       /\ send.answer.turn \in DOMAIN turns
       /\ send.first # 0 =>
            /\ send.first \in DOMAIN chat[To]
            /\ IsPart(chat[To][send.first], send.answer.turn, 1)
       /\ send.pc = "record" => send.first # 0
       /\ send.pc = "text" =>
            /\ send.part # 0
            /\ send.first = 0 => send.part = 1
            /\ send.part > 1 => \E l \in DOMAIN chat[To] : IsPart(chat[To][l], send.answer.turn, send.part - 1)

\* The updates below one that is handled were handled, or are so before it.
UpdateInv ==
  /\ IsFiniteSet(pending)
  /\ \A id \in 1..posted : id < offset => id \in handled
  /\ \A u \in batch : \A id \in 1..posted :
       id < u.id => id \in handled \/ \E v \in batch : v.id = id

\* The inductive invariant of the channel and of the history behind it.
TelegramInv ==
  /\ TelegramTypeOK
  /\ ChatInv /\ TurnInv
  /\ RowInv /\ RowOnce
  /\ SendInv
  /\ UpdateInv
  /\ ConfirmedWasHandled /\ PartsInOrder

-----------------------------------------------------------------------------
(* Telegram: what a step leaves as it is.                                  *)

\* The elements of a sequence.
LEMMA ElementOf ==
  ASSUME NEW S, NEW s \in Seq(S)
  PROVE  /\ Len(s) \in Nat /\ DOMAIN s = 1..Len(s)
         /\ \A i \in DOMAIN s : s[i] \in S
OBVIOUS

\* What a turn is.
LEMMA TurnTyped ==
  ASSUME TelegramTypeOK
  PROVE  /\ Len(turns) \in Nat /\ DOMAIN turns = 1..Len(turns)
         /\ \A i \in DOMAIN turns :
              /\ turns[i].chat \in Chat /\ turns[i].msg \in Nat /\ turns[i].quotes \in Nat
              /\ turns[i].at \in {"queued", "done", "lost"}
              /\ turns[i].repliedTo \subseteq RowId
<1> DEFINE R == [chat : Chat, msg : Nat, at : {"queued", "done", "lost"}, quotes : Nat,
                 repliedTo : SUBSET RowId]
<1>1. turns \in Seq(R)
  BY DEF TelegramTypeOK
<1>2. Len(turns) \in Nat /\ DOMAIN turns = 1..Len(turns) /\ \A i \in DOMAIN turns : turns[i] \in R
  <2> HIDE DEF R
  <2> QED
    BY <1>1, ElementOf
<1> QED
  BY <1>2

\* A chat is made of messages of users and of the bot.
Message == UserMessage \cup BotMessage

\* A step takes nothing out of a chat.
Grows ==
  \A c \in Chat : /\ DOMAIN chat[c] \subseteq DOMAIN chat'[c]
                  /\ \A k \in DOMAIN chat[c] : chat'[c][k] = chat[c][k]

\* A step leaves the turns there are about what they are about.
TurnsKeep ==
  /\ DOMAIN turns \subseteq DOMAIN turns'
  /\ \A i \in DOMAIN turns :
       /\ turns'[i].chat = turns[i].chat /\ turns'[i].msg = turns[i].msg
       /\ turns'[i].quotes = turns[i].quotes /\ turns'[i].repliedTo = turns[i].repliedTo

\* What is in a chat is a message of a user or of the bot.
LEMMA InChat ==
  ASSUME TelegramTypeOK, NEW c \in Chat
  PROVE  /\ chat[c] \in Seq(Message) /\ Len(chat[c]) \in Nat /\ DOMAIN chat[c] = 1..Len(chat[c])
         /\ \A k \in DOMAIN chat[c] : chat[c][k] \in Message
         /\ \A k \in Users(c) : chat[c][k] \in UserMessage
<1>1. chat[c] \in Seq(Message)
  BY DEF TelegramTypeOK, Message
<1>2. Len(chat[c]) \in Nat /\ DOMAIN chat[c] = 1..Len(chat[c]) /\ \A k \in DOMAIN chat[c] : chat[c][k] \in Message
  BY <1>1
<1>3. \A k \in Users(c) : chat[c][k] \in UserMessage
  BY <1>2 DEF Users, Message, UserMessage, BotMessage
<1> QED
  BY <1>1, <1>2, <1>3

\* A message sent to a chat comes last in it and changes nothing else.
LEMMA ChatAppends ==
  ASSUME TelegramTypeOK, NEW c \in Chat, NEW m \in Message,
         chat' = [chat EXCEPT ![c] = Append(@, m)]
  PROVE  /\ chat' \in [Chat -> Seq(Message)]
         /\ Grows
         /\ DOMAIN chat'[c] = DOMAIN chat[c] \cup {Len(chat[c]) + 1}
         /\ chat'[c][Len(chat[c]) + 1] = m
         /\ \A d \in Chat \ {c} : chat'[d] = chat[d]
<1>1. chat[c] \in Seq(Message) /\ chat \in [Chat -> Seq(Message)]
  BY DEF TelegramTypeOK, Message
<1>2. /\ Append(chat[c], m) \in Seq(Message)
      /\ Len(Append(chat[c], m)) = Len(chat[c]) + 1
      /\ Append(chat[c], m)[Len(chat[c]) + 1] = m
      /\ \A k \in 1..Len(chat[c]) : Append(chat[c], m)[k] = chat[c][k]
      /\ DOMAIN chat[c] = 1..Len(chat[c]) /\ DOMAIN Append(chat[c], m) = 1..(Len(chat[c]) + 1)
      /\ Len(chat[c]) \in Nat
  BY <1>1
<1>3. chat'[c] = Append(chat[c], m) /\ \A d \in Chat \ {c} : chat'[d] = chat[d]
  BY <1>1
<1>4. chat' \in [Chat -> Seq(Message)]
  BY <1>1, <1>2
<1>5. Grows
  BY <1>2, <1>3 DEF Grows
<1>6. DOMAIN chat'[c] = DOMAIN chat[c] \cup {Len(chat[c]) + 1} /\ chat'[c][Len(chat[c]) + 1] = m
  BY <1>2, <1>3
<1> QED
  BY <1>3, <1>4, <1>5, <1>6

\* What is sent to a chat is no older message.
LEMMA UsersGrow ==
  ASSUME Grows, NEW c \in Chat
  PROVE  \A k \in Users(c) : k \in Users(c)' /\ chat'[c][k] = chat[c][k]
  BY DEF Grows, Users

\* The row of a message stays the row of that message.
LEMMA RowOfKept ==
  ASSUME Grows, TurnsKeep, NEW c \in Chat, NEW k \in DOMAIN chat[c], NEW id,
         id[2] \in DOMAIN turns, IsRowOf(id, c, k)
  PROVE  IsRowOf(id, c, k)'
<1>1. chat'[c][k] = chat[c][k]
  BY DEF Grows
<1>2. turns'[id[2]].chat = turns[id[2]].chat /\ turns'[id[2]].msg = turns[id[2]].msg
  BY DEF TurnsKeep
<1> QED
  BY <1>1, <1>2 DEF IsRowOf

\* What turns, rows and replies say of the chats stays true as these grow.
LEMMA GrowthKeeps ==
  ASSUME TelegramInv, Grows, TurnsKeep
  PROVE  /\ \A i \in DOMAIN turns : IsTurn(i)' /\ IsReplied(i)'
         /\ \A r \in rows : IsRow(r)'
<1> USE DEF TelegramInv
<1>1. \A i \in DOMAIN turns : turns[i].chat \in Chat
  BY TurnTyped
<1>2. ASSUME NEW i \in DOMAIN turns PROVE IsTurn(i)'
  <2>1. IsTurn(i)
    BY DEF TurnInv
  <2>2. /\ turns[i].msg \in DOMAIN chat[turns[i].chat]
        /\ chat[turns[i].chat][turns[i].msg].by = "user"
    BY <2>1 DEF IsTurn, Users
  <2>3. /\ turns[i].msg \in DOMAIN chat'[turns[i].chat]
        /\ chat'[turns[i].chat][turns[i].msg].by = "user"
        /\ turns[i].quotes # 0 => turns[i].quotes \in DOMAIN chat'[turns[i].chat]
    BY <1>1, <2>1, <2>2 DEF IsTurn, Grows
  <2>4. /\ turns'[i].chat = turns[i].chat /\ turns'[i].msg = turns[i].msg
        /\ turns'[i].quotes = turns[i].quotes /\ turns'[i].repliedTo = turns[i].repliedTo
        /\ \A id \in turns[i].repliedTo : id[2] \in DOMAIN turns'
    BY <2>1 DEF IsTurn, TurnsKeep
  <2> QED
    BY <2>1, <2>3, <2>4 DEF IsTurn, Users
<1>3. ASSUME NEW i \in DOMAIN turns PROVE IsReplied(i)'
  <2>1. turns'[i].chat = turns[i].chat /\ turns'[i].quotes = turns[i].quotes /\ turns'[i].repliedTo = turns[i].repliedTo
    BY DEF TurnsKeep
  <2>2. PICK c \in Chat, k \in Nat : c = turns[i].chat /\ k = turns[i].quotes
    BY <1>1, TurnTyped
  <2>3. ASSUME NEW id \in turns[i].repliedTo PROVE IsRowOf(id, c, k)'
    <3>1. id[2] \in DOMAIN turns /\ k \in DOMAIN chat[c] /\ IsRowOf(id, c, k)
      BY <2>2 DEF TurnInv, IsTurn, IsReplied
    <3> QED
      BY <3>1, RowOfKept
  <2> QED
    BY <2>1, <2>2, <2>3 DEF IsReplied, IsRowOf
<1>4. ASSUME NEW r \in rows PROVE IsRow(r)'
  <2>1. IsRow(r) /\ r.chat \in Chat
    BY DEF RowInv, TelegramTypeOK
  <2>2. r.chat = turns'[r.id[2]].chat /\ turns'[r.id[2]].msg = turns[r.id[2]].msg /\ r.id[2] \in DOMAIN turns'
    BY <2>1 DEF IsRow, TurnsKeep
  <2> QED
    BY <2>1, <2>2 DEF IsRow, Grows
<1> QED
  BY <1>2, <1>3, <1>4

\* So does what is known of the answer under delivery.
LEMMA GrowthKeepsSend ==
  ASSUME TelegramInv, Grows, TurnsKeep, UNCHANGED send
  PROVE  /\ \A i \in DOMAIN outbox : outbox[i].turn \in DOMAIN turns'
         /\ outbox' = outbox => SendInv'
<1> USE DEF TelegramInv
<1>1. \A i \in DOMAIN turns : turns[i].chat \in Chat
  BY TurnTyped
<1>2. send.pc # "idle" => To \in Chat /\ To' = To /\ send.answer.turn \in DOMAIN turns'
  BY <1>1 DEF To, SendInv, TurnsKeep
<1>3. \A i \in DOMAIN outbox : outbox[i].turn \in DOMAIN turns'
  BY DEF SendInv, TurnsKeep
<1> QED
  BY <1>2, <1>3 DEF SendInv, Grows

\* If turns and rows stay the same, all of it is kept.
LEMMA RowsStay ==
  ASSUME TelegramInv, Grows, UNCHANGED <<turns, rows>>
  PROVE  TurnInv' /\ RowInv' /\ RowOnce'
<1>1. TurnsKeep
  BY DEF TurnsKeep
<1> QED
  BY <1>1, GrowthKeeps DEF TelegramInv, TurnInv, RowInv, RowOnce

\* The same of what is under delivery.
LEMMA SendStays ==
  ASSUME TelegramInv, Grows, UNCHANGED <<turns, outbox, send>>
  PROVE  SendInv'
  BY GrowthKeepsSend DEF TurnsKeep

\* A new last message has no part before its turn if the chat has the one before.
LEMMA PartAppends ==
  ASSUME TelegramTypeOK, PartsInOrder, NEW c \in Chat, NEW m \in Message,
         chat' = [chat EXCEPT ![c] = Append(@, m)],
         m.by = "bot" /\ m.turn # 0 /\ m.part > 1 =>
           \E l \in DOMAIN chat[c] : IsPart(chat[c][l], m.turn, m.part - 1)
  PROVE  PartsInOrder'
<1>1. /\ Grows
      /\ DOMAIN chat'[c] = DOMAIN chat[c] \cup {Len(chat[c]) + 1}
      /\ chat'[c][Len(chat[c]) + 1] = m
      /\ \A d \in Chat \ {c} : chat'[d] = chat[d]
  BY ChatAppends
<1>2. ASSUME NEW d \in Chat, NEW k \in DOMAIN chat'[d],
             chat'[d][k].by = "bot", chat'[d][k].turn # 0, chat'[d][k].part > 1
      PROVE  \E l \in 1..(k - 1) : IsPart(chat'[d][l], chat'[d][k].turn, chat'[d][k].part - 1)
  <2>1. Len(chat[d]) \in Nat /\ DOMAIN chat[d] = 1..Len(chat[d])
    BY InChat
  <2>2. CASE k \in DOMAIN chat[d]
    <3>1. chat'[d][k] = chat[d][k]
      BY <1>1, <2>2 DEF Grows
    <3>2. PICK l \in 1..(k - 1) : IsPart(chat[d][l], chat[d][k].turn, chat[d][k].part - 1)
      BY <1>2, <2>2, <3>1 DEF PartsInOrder, IsPart
    <3>3. l \in DOMAIN chat[d]
      BY <2>1, <2>2
    <3> QED
      BY <1>1, <3>1, <3>2, <3>3 DEF Grows
  <2>3. CASE k \notin DOMAIN chat[d]
    <3>1. d = c /\ k = Len(chat[c]) + 1 /\ chat'[d][k] = m
      BY <1>1, <1>2, <2>3
    <3>2. PICK l \in DOMAIN chat[c] : IsPart(chat[c][l], m.turn, m.part - 1)
      BY <1>2, <3>1
    <3>3. l \in 1..(k - 1) /\ chat'[c][l] = chat[c][l]
      BY <1>1, <2>1, <3>1 DEF Grows
    <3> QED
      BY <3>1, <3>2, <3>3
  <2> QED
    BY <2>2, <2>3
<1> QED
  BY <1>2 DEF PartsInOrder, IsPart

-----------------------------------------------------------------------------
(* Telegram: users, and the process.                                       *)

\* The invariant holds before the process is started.
LEMMA InitTelegramInv == TelegramInit => TelegramInv
<1> SUFFICES ASSUME TelegramInit PROVE TelegramInv
  OBVIOUS
<1> USE TelegramAssumption DEF TelegramInit
<1>1. TelegramTypeOK
  <2>1. <<>> \in Seq(UserMessage \cup BotMessage) /\ <<>> \in Seq(Outgoing)
    OBVIOUS
  <2>2. chat \in [Chat -> Seq(UserMessage \cup BotMessage)]
    BY <2>1
  <2>3. turns \in Seq([chat : Chat, msg : Nat, at : {"queued", "done", "lost"}, quotes : Nat,
                       repliedTo : SUBSET RowId])
    OBVIOUS
  <2> QED
    BY <2>1, <2>2, <2>3 DEF TelegramTypeOK
<1>2. ChatInv /\ TurnInv /\ RowInv /\ RowOnce /\ UpdateInv
  BY FS_EmptySet DEF ChatInv, TurnInv, RowInv, RowOnce, UpdateInv, Users
<1>3. SendInv
  BY DEF SendInv, Idle
<1>4. ConfirmedWasHandled /\ PartsInOrder
  BY DEF ConfirmedWasHandled, PartsInOrder
<1> QED
  BY <1>1, <1>2, <1>3, <1>4 DEF TelegramInv

\* An update that is announced has a number higher than all before.
LEMMA Announces ==
  ASSUME TelegramInv, NEW c \in Chat, NEW k \in Nat, Announce(c, k), UNCHANGED <<offset, batch, handled>>
  PROVE  /\ posted' \in Nat
         /\ (pending \cup batch)' \subseteq [id : 1..posted', chat : Chat, msg : Nat]
         /\ offset' \in 0..(posted' + 1) /\ handled' \subseteq 1..posted'
         /\ UpdateInv' /\ ConfirmedWasHandled'
<1> USE DEF TelegramInv, TelegramTypeOK
<1>1. posted' = posted + 1 /\ pending' = pending \cup {[id |-> posted + 1, chat |-> c, msg |-> k]}
  BY DEF Announce
<1>2. 1..posted' = (1..posted) \cup {posted + 1} /\ posted' \in Nat /\ offset' \in 0..(posted' + 1)
  BY <1>1
<1>3. (pending \cup batch)' \subseteq [id : 1..posted', chat : Chat, msg : Nat]
  <2>1. [id : 1..posted, chat : Chat, msg : Nat] \subseteq [id : 1..posted', chat : Chat, msg : Nat]
    BY <1>2
  <2>2. [id |-> posted + 1, chat |-> c, msg |-> k] \in [id : 1..posted', chat : Chat, msg : Nat]
    BY <1>2
  <2> QED
    BY <1>1, <2>1, <2>2
<1>4. ConfirmedWasHandled'
  <2> SUFFICES ASSUME NEW id \in 1..posted' PROVE id \in handled' \/ \E u \in pending' : u.id = id
    BY DEF ConfirmedWasHandled
  <2>1. CASE id \in 1..posted
    BY <1>1, <2>1 DEF ConfirmedWasHandled
  <2>2. CASE id = posted + 1
    <3>1. [id |-> posted + 1, chat |-> c, msg |-> k].id = id
      BY <2>2
    <3> QED
      BY <1>1, <3>1
  <2> QED
    BY <1>2, <2>1, <2>2
<1>5. UpdateInv'
  <2>1. IsFiniteSet(pending')
    BY <1>1, FS_AddElement DEF UpdateInv
  <2> QED
    BY <1>1, <1>2, <2>1 DEF UpdateInv
<1> QED
  BY <1>2, <1>3, <1>4, <1>5

\* A user sends a message.
LEMMA PostKeeps ==
  ASSUME TelegramInv, NEW c \in Chat, NEW text \in Texts, NEW q \in 0..Len(chat[c]), Post(c, q, text)
  PROVE  TelegramInv'
<1> USE DEF TelegramInv
<1> DEFINE m == [by |-> "user", quotes |-> q, text |-> text]
<1>1. /\ chat' = [chat EXCEPT ![c] = Append(@, m)]
      /\ Announce(c, Len(chat[c]) + 1)
      /\ UNCHANGED <<up, offset, batch, turns, rows, outbox, send, trouble, handled>>
  BY DEF Post
<1>2. Len(chat[c]) \in Nat /\ DOMAIN chat[c] = 1..Len(chat[c])
  BY InChat
<1>3. m \in Message /\ m.by = "user"
  BY <1>2 DEF Message, UserMessage
<1>4. /\ chat' \in [Chat -> Seq(Message)] /\ Grows
      /\ DOMAIN chat'[c] = DOMAIN chat[c] \cup {Len(chat[c]) + 1}
      /\ chat'[c][Len(chat[c]) + 1] = m
      /\ \A d \in Chat \ {c} : chat'[d] = chat[d]
  BY <1>1, <1>3, ChatAppends
<1>5. /\ posted' \in Nat
      /\ (pending \cup batch)' \subseteq [id : 1..posted', chat : Chat, msg : Nat]
      /\ offset' \in 0..(posted' + 1) /\ handled' \subseteq 1..posted'
      /\ UpdateInv' /\ ConfirmedWasHandled'
  BY <1>1, <1>2, Announces
<1>6. TelegramTypeOK'
  BY <1>1, <1>4, <1>5 DEF TelegramTypeOK, Message
<1>7. ChatInv'
  <2>1. \A d \in Chat : \A k \in Users(d)' : chat'[d][k].quotes # 0 => chat'[d][k].quotes \in DOMAIN chat'[d]
    <3> SUFFICES ASSUME NEW d \in Chat, NEW k \in Users(d)', chat'[d][k].quotes # 0
                 PROVE  chat'[d][k].quotes \in DOMAIN chat'[d]
      OBVIOUS
    <3>1. CASE k \in DOMAIN chat[d]
      BY <1>4, <3>1 DEF ChatInv, Users, Grows
    <3>2. CASE k \notin DOMAIN chat[d]
      <4>1. d = c /\ chat'[d][k] = m
        BY <1>4, <3>2 DEF Users
      <4> QED
        BY <1>2, <1>4, <4>1
    <3> QED
      BY <3>1, <3>2
  <2>2. \A u \in (pending \cup batch)' : u.msg \in Users(u.chat)'
    <3>1. \A u \in pending \cup batch : u.chat \in Chat /\ u.msg \in Users(u.chat)'
      BY <1>4, UsersGrow DEF ChatInv, TelegramTypeOK
    <3>2. Len(chat[c]) + 1 \in Users(c)'
      BY <1>3, <1>4 DEF Users
    <3> QED
      BY <1>1, <3>1, <3>2 DEF Announce
  <2> QED
    BY <2>1, <2>2 DEF ChatInv
<1>8. PartsInOrder'
  BY <1>1, <1>3, PartAppends
<1>9. TurnInv' /\ RowInv' /\ RowOnce' /\ SendInv'
  BY <1>1, <1>4, RowsStay, SendStays
<1> QED
  BY <1>5, <1>6, <1>7, <1>8, <1>9

\* A user edits one.
LEMMA EditKeeps ==
  ASSUME TelegramInv, NEW c \in Chat, NEW k \in Users(c), Edit(c, k)
  PROVE  TelegramInv'
<1> USE DEF TelegramInv
<1>1. Announce(c, k) /\ UNCHANGED <<chat, up, offset, batch, turns, rows, outbox, send, trouble, handled>>
  BY DEF Edit
<1>2. k \in Nat
  BY InChat DEF Users
<1>3. /\ posted' \in Nat
      /\ (pending \cup batch)' \subseteq [id : 1..posted', chat : Chat, msg : Nat]
      /\ offset' \in 0..(posted' + 1) /\ handled' \subseteq 1..posted'
      /\ UpdateInv' /\ ConfirmedWasHandled'
  BY <1>1, <1>2, Announces
<1>4. TelegramTypeOK'
  BY <1>1, <1>3 DEF TelegramTypeOK
<1>5. ChatInv'
  <2>1. pending' = pending \cup {[id |-> posted + 1, chat |-> c, msg |-> k]}
    BY <1>1 DEF Announce
  <2> QED
    BY <1>1, <2>1 DEF ChatInv, Users
<1>6. Grows
  BY <1>1 DEF Grows
<1>7. PartsInOrder'
  BY <1>1 DEF PartsInOrder
<1>8. TurnInv' /\ RowInv' /\ RowOnce' /\ SendInv'
  BY <1>1, <1>6, RowsStay, SendStays
<1> QED
  BY <1>3, <1>4, <1>5, <1>7, <1>8

\* The process starts.
LEMMA StartKeeps ==
  ASSUME TelegramInv, Start
  PROVE  TelegramInv'
<1> USE DEF TelegramInv, Start
<1>1. Grows
  BY DEF Grows
<1>2. TelegramTypeOK'
  BY DEF TelegramTypeOK
<1>3. ChatInv' /\ PartsInOrder' /\ ConfirmedWasHandled'
  BY DEF ChatInv, Users, PartsInOrder, ConfirmedWasHandled
<1>4. UpdateInv'
  BY DEF UpdateInv, TelegramTypeOK
<1> QED
  BY <1>1, <1>2, <1>3, <1>4, RowsStay, SendStays

\* It dies: queued messages are lost, and what is under delivery.
LEMMA CrashKeeps ==
  ASSUME TelegramInv, Crash
  PROVE  TelegramInv'
<1> USE DEF TelegramInv
<1>1. /\ batch' = {} /\ outbox' = <<>> /\ send' = Idle
      /\ turns' = [i \in DOMAIN turns |->
                     IF turns[i].at = "queued" THEN [turns[i] EXCEPT !.at = "lost"] ELSE turns[i]]
      /\ UNCHANGED <<chat, pending, offset, rows, posted, handled>>
  BY DEF Crash
<1> DEFINE R == [chat : Chat, msg : Nat, at : {"queued", "done", "lost"}, quotes : Nat,
                 repliedTo : SUBSET RowId]
<1>2. \A i \in DOMAIN turns : turns[i] \in R
  <2>1. turns \in Seq(R)
    BY DEF TelegramTypeOK
  <2> HIDE DEF R
  <2> QED
    BY <2>1, ElementOf
<1>3. /\ DOMAIN turns' = DOMAIN turns
      /\ \A i \in DOMAIN turns :
           /\ turns'[i] \in R
           /\ turns'[i].chat = turns[i].chat /\ turns'[i].msg = turns[i].msg
           /\ turns'[i].quotes = turns[i].quotes /\ turns'[i].repliedTo = turns[i].repliedTo
           /\ turns'[i].at = "done" => turns[i].at = "done"
  BY <1>1, <1>2
<1>4. turns' \in Seq(R)
  <2>1. Len(turns) \in Nat /\ DOMAIN turns = 1..Len(turns)
    BY TurnTyped
  <2>2. turns' \in [1..Len(turns) -> R]
    <3> HIDE DEF R
    <3> QED
      BY <1>1, <1>3, <2>1
  <2> HIDE DEF R
  <2> QED
    BY <2>1, <2>2
<1>5. TelegramTypeOK'
  BY <1>1, <1>4 DEF TelegramTypeOK
<1>6. ChatInv' /\ PartsInOrder' /\ ConfirmedWasHandled' /\ UpdateInv'
  BY <1>1 DEF ChatInv, Users, PartsInOrder, ConfirmedWasHandled, UpdateInv
<1>7. TurnsKeep /\ Grows
  BY <1>1, <1>3 DEF TurnsKeep, Grows
<1>8. TurnInv' /\ RowInv'
  BY <1>1, <1>3, <1>7, GrowthKeeps DEF TurnInv, RowInv, TurnsKeep
<1>9. RowOnce'
  BY <1>1, <1>3 DEF RowOnce
<1>10. SendInv'
  BY <1>1 DEF SendInv, Idle
<1> QED
  BY <1>5, <1>6, <1>8, <1>9, <1>10

-----------------------------------------------------------------------------
(* Telegram: polls and updates.                                            *)

\* The updates of a batch are the first ones: one that is still there and is
\* older than one of the batch is in it too.
LEMMA FirstIsClosed ==
  ASSUME NEW S, IsFiniteSet(S), NEW n \in Nat, \A u \in S : u.id \in Nat,
         NEW u \in First(n, S), NEW w \in S, w.id < u.id
  PROVE  w \in First(n, S)
<1> DEFINE Before(x) == {v \in S : v.id < x.id}
<1>1. Cardinality(Before(u)) < n /\ u \in S
  BY DEF First
<1>2. Before(w) \subseteq Before(u)
  <2>1. u.id \in Nat /\ w.id \in Nat
    BY <1>1
  <2>2. \A v \in S : v.id < w.id => v.id < u.id
    BY <2>1
  <2> QED
    BY <2>2
<1>3. IsFiniteSet(Before(u))
  BY FS_Subset
<1>4. /\ Cardinality(Before(w)) =< Cardinality(Before(u))
      /\ Cardinality(Before(u)) \in Nat /\ Cardinality(Before(w)) \in Nat
  BY <1>2, <1>3, FS_Subset, FS_CardinalityType
<1>5. Cardinality(Before(w)) < n
  <2> HIDE DEF Before
  <2> QED
    BY <1>1, <1>4
<1> QED
  BY <1>5 DEF First

\* An update that is neither handled nor confirmed is still there.
LEMMA UnconfirmedIsThere ==
  ASSUME TelegramInv, NEW id \in 1..posted, id \notin handled
  PROVE  \E u \in Unconfirmed : u.id = id
<1>1. PICK u \in pending : u.id = id
  BY DEF TelegramInv, ConfirmedWasHandled
<1>2. ~(id < offset) /\ id \in Nat /\ offset \in Nat
  BY DEF TelegramInv, UpdateInv, TelegramTypeOK
<1> QED
  BY <1>1, <1>2 DEF Unconfirmed

\* A poll, whether it succeeds or fails, confirms what lies before the offset.
LEMMA PollKeeps ==
  ASSUME TelegramInv, Poll \/ PollFails
  PROVE  TelegramInv'
<1> USE DEF TelegramInv
<1>1. /\ UNCHANGED <<chat, up, offset, turns, rows, outbox, send, posted, handled>>
      /\ pending' \in {pending, Unconfirmed}
  BY DEF Poll, PollFails
<1>2. pending' \subseteq pending /\ (batch' = batch \/ batch' = First(Limit, Unconfirmed))
  BY <1>1 DEF Poll, PollFails, Unconfirmed
<1>3. First(Limit, Unconfirmed) \subseteq pending
  BY DEF First, Unconfirmed
<1>4. TelegramTypeOK'
  BY <1>1, <1>2, <1>3 DEF TelegramTypeOK
<1>5. Grows
  BY <1>1 DEF Grows
<1>6. ChatInv' /\ PartsInOrder'
  BY <1>1, <1>2, <1>3 DEF ChatInv, Users, PartsInOrder
<1>7. ConfirmedWasHandled'
  <2> SUFFICES ASSUME NEW id \in 1..posted, id \notin handled PROVE \E u \in pending' : u.id = id
    BY <1>1 DEF ConfirmedWasHandled
  <2>1. CASE pending' = pending
    BY <2>1 DEF ConfirmedWasHandled
  <2>2. CASE pending' = Unconfirmed
    BY <2>2, UnconfirmedIsThere
  <2> QED
    BY <1>1, <2>1, <2>2
<1>8. UpdateInv'
  <2>1. IsFiniteSet(pending')
    BY <1>2, FS_Subset DEF UpdateInv
  <2>2. ASSUME batch' = First(Limit, Unconfirmed), NEW u \in batch', NEW id \in 1..posted, id < u.id, id \notin handled
        PROVE  \E v \in batch' : v.id = id
    <3>1. PICK w \in Unconfirmed : w.id = id
      BY <2>2, UnconfirmedIsThere
    <3>2. IsFiniteSet(Unconfirmed)
      BY FS_Subset DEF UpdateInv, Unconfirmed
    <3>3. \A v \in Unconfirmed : v.id \in Nat
      BY DEF TelegramTypeOK, Unconfirmed
    <3>4. w \in First(Limit, Unconfirmed)
      BY <2>2, <3>1, <3>2, <3>3, FirstIsClosed, TelegramAssumption
    <3> QED
      BY <2>2, <3>1, <3>4
  <2> QED
    BY <1>1, <1>2, <2>1, <2>2 DEF UpdateInv
<1> QED
  BY <1>1, <1>4, <1>5, <1>6, <1>7, <1>8, RowsStay, SendStays

\* What is next of a batch has nothing unhandled before it.
LEMMA NextIsHandled ==
  ASSUME TelegramInv, NEW u \in batch, IsNext(u),
         offset' = After(u), batch' = batch \ {u}, handled' = handled \cup {u.id},
         UNCHANGED <<pending, posted>>
  PROVE  /\ u.id \in 1..posted /\ u.chat \in Chat /\ u.msg \in Users(u.chat)
         /\ offset' \in 0..(posted + 1) /\ handled' \subseteq 1..posted
         /\ UpdateInv' /\ ConfirmedWasHandled'
<1> USE DEF TelegramInv
<1>1. u.id \in 1..posted /\ u.chat \in Chat /\ u.msg \in Users(u.chat) /\ posted \in Nat
  BY DEF TelegramTypeOK, ChatInv
<1>2. \A v \in batch : v.id \in Nat
  BY DEF TelegramTypeOK
<1>3. offset' = u.id + 1 /\ offset' \in 0..(posted + 1) /\ handled' \subseteq 1..posted
  BY <1>1 DEF After, TelegramTypeOK
<1>4. ConfirmedWasHandled'
  BY DEF ConfirmedWasHandled
<1>5. \A id \in 1..posted : id < offset' => id \in handled'
  <2> SUFFICES ASSUME NEW id \in 1..posted, id < offset', id # u.id PROVE id \in handled
    OBVIOUS
  <2>1. id < u.id
    BY <1>1, <1>3
  <2>2. ~\E v \in batch : v.id = id
    BY <1>1, <1>2, <2>1 DEF IsNext
  <2> QED
    BY <2>1, <2>2 DEF UpdateInv
<1>6. UpdateInv'
  BY <1>5 DEF UpdateInv
<1> QED
  BY <1>1, <1>3, <1>4, <1>6

\* The notice about a file that is too large is no part of an answer.
LEMMA NoticeGrows ==
  ASSUME TelegramInv, NEW c \in Chat, NEW m, Notice(c, m)
  PROVE  /\ chat' \in [Chat -> Seq(Message)] /\ Grows
         /\ PartsInOrder'
         /\ \A d \in Chat : Users(d)' = Users(d)
<1> DEFINE notice == [by |-> "bot", turn |-> 0, part |-> 0]
<1> USE DEF TelegramInv
<1>1. CASE UNCHANGED chat
  BY <1>1 DEF Grows, TelegramTypeOK, Message, PartsInOrder, Users
<1>2. CASE chat' = [chat EXCEPT ![c] = Append(@, notice)]
  <2>1. notice \in Message /\ notice.by = "bot" /\ notice.turn = 0
    BY DEF Message, BotMessage
  <2>2. /\ chat' \in [Chat -> Seq(Message)] /\ Grows
        /\ DOMAIN chat'[c] = DOMAIN chat[c] \cup {Len(chat[c]) + 1}
        /\ chat'[c][Len(chat[c]) + 1] = notice
        /\ \A d \in Chat \ {c} : chat'[d] = chat[d]
    BY <1>2, <2>1, ChatAppends
  <2>3. PartsInOrder'
    BY <1>2, <2>1, PartAppends
  <2>4. \A d \in Chat : Users(d)' = Users(d)
    BY <2>1, <2>2 DEF Users, Grows
  <2> QED
    BY <2>2, <2>3, <2>4
<1> QED
  BY <1>1, <1>2 DEF Notice

\* Updates and messages of users stay what they are.
LEMMA ChatInvKept ==
  ASSUME TelegramInv, Grows, \A d \in Chat : Users(d)' = Users(d), (pending \cup batch)' \subseteq pending \cup batch
  PROVE  ChatInv'
<1>1. \A c \in Chat : \A k \in Users(c)' : chat'[c][k].quotes # 0 => chat'[c][k].quotes \in DOMAIN chat'[c]
  <2> SUFFICES ASSUME NEW c \in Chat, NEW k \in Users(c), chat'[c][k].quotes # 0
               PROVE  chat'[c][k].quotes \in DOMAIN chat'[c]
    OBVIOUS
  <2>1. chat'[c][k] = chat[c][k]
    BY DEF Grows, Users
  <2> QED
    BY <2>1 DEF TelegramInv, ChatInv, Grows
<1>2. \A u \in (pending \cup batch)' : u.msg \in Users(u.chat)'
  BY DEF TelegramInv, ChatInv, TelegramTypeOK
<1> QED
  BY <1>1, <1>2 DEF ChatInv

\* A row that is inserted is there if its message has none yet; a message has
\* one row afterwards, and no two.
LEMMA InsertedOnce ==
  ASSUME TelegramInv, NEW r \in [id : RowId, chat : Chat, ext : Nat], r.id[1] = "in", r.ext \in Users(r.chat)
  PROVE  /\ Inserted(r) \subseteq rows \cup {r} /\ rows \subseteq Inserted(r)
         /\ \E s \in Inserted(r) : s.id[1] = "in" /\ s.chat = r.chat /\ s.ext = r.ext
         /\ \A s, t \in Inserted(r) :
              s.id[1] = "in" /\ t.id[1] = "in" /\ s.chat = t.chat /\ s.ext = t.ext => s = t
<1> USE DEF TelegramInv
<1>1. CASE Found(r.chat, r.ext) = {}
  <2>1. Inserted(r) = rows \cup {r} /\ \A s \in rows : ~(s.chat = r.chat /\ s.ext = r.ext)
    BY <1>1 DEF Inserted, Found
  <2> QED
    BY <2>1 DEF RowOnce
<1>2. CASE Found(r.chat, r.ext) # {}
  <2>1. Inserted(r) = rows
    BY <1>2 DEF Inserted
  <2>2. PICK s \in rows : s.chat = r.chat /\ s.ext = r.ext
    BY <1>2 DEF Found
  <2>3. s.id[1] \in {"in", "out"} /\ r.ext # 0
    BY InChat DEF TelegramTypeOK, RowId, Users
  <2>4. s.id[1] = "in"
    <3> SUFFICES ASSUME s.id[1] = "out" PROVE FALSE
      BY <2>3
    <3>1. chat[r.chat][r.ext].by = "bot"
      BY <2>2, <2>3 DEF RowInv, IsRow, IsPart
    <3> QED
      BY <3>1 DEF Users
  <2> QED
    BY <2>1, <2>2, <2>4 DEF RowOnce
<1> QED
  BY <1>1, <1>2

\* What the mapper finds of a quoted message are rows of that message.
LEMMA ResolvedIsRow ==
  ASSUME TelegramInv, NEW c \in Chat, NEW k \in Nat, k # 0 => k \in DOMAIN chat[c]
  PROVE  /\ Resolved(c, k) \subseteq RowId
         /\ Resolved(c, k) # {} => k # 0
         /\ \A id \in Resolved(c, k) : id[2] \in DOMAIN turns /\ IsRowOf(id, c, k)
<1> USE DEF TelegramInv
<1>1. Resolved(c, k) # {} => k # 0
  BY DEF Resolved
<1>2. ASSUME NEW id \in Resolved(c, k)
      PROVE  id \in RowId /\ id[2] \in DOMAIN turns /\ IsRowOf(id, c, k)
  <2>1. PICK r \in rows : r.chat = c /\ r.ext = k /\ r.id = id
    BY DEF Resolved, Found
  <2>2. k # 0
    BY <1>1
  <2>3. id \in RowId /\ IsRow(r)
    BY <2>1 DEF RowInv, TelegramTypeOK
  <2>4. id = <<id[1], id[2]>> /\ id[1] \in {"in", "out"}
    BY <2>3 DEF RowId
  <2>5. CASE id[1] = "in"
    <3>1. turns[id[2]].chat = c /\ turns[id[2]].msg = k /\ id[2] \in DOMAIN turns
      BY <2>1, <2>3, <2>5 DEF IsRow
    <3>2. k \in Users(c)
      BY <3>1 DEF TurnInv, IsTurn
    <3> QED
      BY <2>3, <2>5, <3>1, <3>2 DEF IsRowOf, Users
  <2>6. CASE id[1] = "out"
    <3>1. id[2] \in DOMAIN turns /\ IsPart(chat[c][k], id[2], 1)
      BY <2>1, <2>2, <2>3, <2>6 DEF IsRow
    <3>2. id = <<"out", chat[c][k].turn>>
      BY <2>4, <2>6, <3>1 DEF IsPart
    <3> QED
      BY <2>3, <3>1, <3>2 DEF IsRowOf, IsPart
  <2> QED
    BY <2>4, <2>5, <2>6
<1> QED
  BY <1>1, <1>2

\* An update is handled: the message becomes a turn, or a row at once.
LEMMA HandleKeeps ==
  ASSUME TelegramInv, HandleUpdate
  PROVE  TelegramInv'
<1> USE DEF TelegramInv
<1> DEFINE R == [chat : Chat, msg : Nat, at : {"queued", "done", "lost"}, quotes : Nat,
                 repliedTo : SUBSET RowId]
<1>0. PICK n \in Nat : n = Len(turns) + 1
  BY TurnTyped
<1>1. PICK u \in batch :
        /\ IsNext(u)
        /\ offset' = After(u) /\ batch' = batch \ {u} /\ handled' = handled \cup {u.id}
        /\ Notice(u.chat, chat[u.chat][u.msg])
        /\ \/ turns' = Append(turns, Incoming(u)) /\ rows' = rows
           \/ /\ turns' = Append(turns, [Incoming(u) EXCEPT !.at = "done"])
              /\ rows' = Inserted([id |-> <<"in", n>>, chat |-> u.chat, ext |-> u.msg])
  BY <1>0 DEF HandleUpdate
<1>2. UNCHANGED <<pending, up, outbox, send, posted, trouble>>
  BY DEF HandleUpdate
<1>3. /\ u.id \in 1..posted /\ u.chat \in Chat /\ u.msg \in Users(u.chat)
      /\ offset' \in 0..(posted + 1) /\ handled' \subseteq 1..posted
      /\ UpdateInv' /\ ConfirmedWasHandled'
  BY <1>1, <1>2, NextIsHandled
<1>4. /\ chat' \in [Chat -> Seq(Message)] /\ Grows
      /\ PartsInOrder'
      /\ \A d \in Chat : Users(d)' = Users(d)
  BY <1>1, <1>3, NoticeGrows
<1>5. ChatInv'
  BY <1>1, <1>2, <1>4, ChatInvKept
<1> DEFINE t == turns'[n]
           r == [id |-> <<"in", n>>, chat |-> u.chat, ext |-> u.msg]
<1>6. PICK q \in Nat :
        u.msg \in Nat /\ q = chat[u.chat][u.msg].quotes /\ (q # 0 => q \in DOMAIN chat[u.chat])
  BY <1>3, InChat DEF ChatInv, Users, UserMessage
<1>7. /\ Resolved(u.chat, q) \subseteq RowId
      /\ Resolved(u.chat, q) # {} => q # 0
      /\ \A id \in Resolved(u.chat, q) : id[2] \in DOMAIN turns /\ IsRowOf(id, u.chat, q)
  BY <1>3, <1>6, ResolvedIsRow
<1>8. Incoming(u) \in R /\ [Incoming(u) EXCEPT !.at = "done"] \in R
  BY <1>3, <1>6, <1>7 DEF Incoming
<1>9. /\ turns' \in Seq(R) /\ DOMAIN turns = 1..Len(turns) /\ DOMAIN turns' = DOMAIN turns \cup {n}
      /\ n \notin DOMAIN turns /\ n \in Nat
      /\ \A i \in DOMAIN turns : turns'[i] = turns[i]
      /\ \/ t = Incoming(u) /\ rows' = rows
         \/ t = [Incoming(u) EXCEPT !.at = "done"] /\ rows' = Inserted(r)
  <2>1. turns \in Seq(R)
    BY DEF TelegramTypeOK
  <2> HIDE DEF R
  <2>2. PICK x \in R : /\ turns' = Append(turns, x)
                       /\ \/ x = Incoming(u) /\ rows' = rows
                          \/ x = [Incoming(u) EXCEPT !.at = "done"] /\ rows' = Inserted(r)
    BY <1>1, <1>8
  <2> QED
    BY <1>0, <2>1, <2>2
<1>10. /\ t.chat = u.chat /\ t.msg = u.msg /\ t.quotes = q /\ t.repliedTo = Resolved(u.chat, q)
       /\ (t.at = "queued" /\ rows' = rows) \/ (t.at = "done" /\ rows' = Inserted(r))
  BY <1>6, <1>9 DEF Incoming
<1>11. TurnsKeep
  BY <1>9 DEF TurnsKeep
<1>12. r \in [id : RowId, chat : Chat, ext : Nat] /\ r.id[1] = "in" /\ r.id[2] = n
       /\ r.chat = u.chat /\ r.ext = u.msg
  BY <1>3, <1>6, <1>9 DEF RowId
<1>13. /\ Inserted(r) \subseteq rows \cup {r} /\ rows \subseteq Inserted(r)
       /\ \E s \in Inserted(r) : s.id[1] = "in" /\ s.chat = r.chat /\ s.ext = r.ext
       /\ \A s, v \in Inserted(r) :
            s.id[1] = "in" /\ v.id[1] = "in" /\ s.chat = v.chat /\ s.ext = v.ext => s = v
  BY <1>3, <1>12, InsertedOnce
<1>14. TelegramTypeOK'
  <2>1. rows' \subseteq [id : RowId, chat : Chat, ext : Nat]
    <3>1. PICK x : x = r
      OBVIOUS
    <3>2. rows' = rows \/ rows' = Inserted(x)
      BY <1>10, <3>1
    <3>3. Inserted(x) \subseteq rows \cup {x}
      BY <1>13, <3>1
    <3>4. rows' \subseteq rows \cup {x}
      BY <3>2, <3>3
    <3>5. x \in [id : RowId, chat : Chat, ext : Nat]
      BY <1>12, <3>1
    <3>6. rows \subseteq [id : RowId, chat : Chat, ext : Nat]
      BY DEF TelegramTypeOK
    <3> QED
      BY <3>4, <3>5, <3>6
  <2>2. chat' \in [Chat -> Seq(UserMessage \cup BotMessage)]
    BY <1>4 DEF Message
  <2> QED
    BY <1>1, <1>2, <1>3, <1>9, <2>1, <2>2 DEF TelegramTypeOK
<1>15. TurnInv'
  <2> SUFFICES ASSUME NEW i \in DOMAIN turns'
               PROVE  IsTurn(i)' /\ IsReplied(i)'
    BY DEF TurnInv
  <2>1. CASE i \in DOMAIN turns
    BY <1>4, <1>11, <2>1, GrowthKeeps
  <2>2. CASE i = n
    <3>1. IsTurn(i)'
      <4>1. u.msg \in Users(u.chat)'
        BY <1>3, <1>4
      <4>2. q # 0 => q \in DOMAIN chat'[u.chat]
        BY <1>3, <1>4, <1>6 DEF Grows
      <4>3. t.msg \in DOMAIN chat'[t.chat] /\ chat'[t.chat][t.msg].by = "user"
        BY <1>10, <4>1 DEF Users
      <4> QED
        BY <1>7, <1>9, <1>10, <2>2, <4>2, <4>3 DEF IsTurn, Users
    <3>2. ASSUME NEW id \in Resolved(u.chat, q) PROVE IsRowOf(id, u.chat, q)'
      <4>1. q \in DOMAIN chat[u.chat] /\ id[2] \in DOMAIN turns /\ IsRowOf(id, u.chat, q)
        BY <1>6, <1>7
      <4> QED
        BY <1>3, <1>4, <1>11, <4>1, RowOfKept
    <3> QED
      BY <1>10, <2>2, <3>1, <3>2 DEF IsReplied, IsRowOf
  <2> QED
    BY <1>9, <2>1, <2>2
<1>16. RowInv'
  <2>1. IsRow(r)'
    BY <1>9, <1>10, <1>12 DEF IsRow
  <2>2. \A s \in rows : IsRow(s)'
    BY <1>4, <1>11, GrowthKeeps
  <2> QED
    BY <1>10, <1>13, <2>1, <2>2 DEF RowInv
<1>17. RowOnce'
  <2>1. ASSUME NEW i \in DOMAIN turns', turns'[i].at = "done"
        PROVE  \E s \in rows' : s.id[1] = "in" /\ s.chat = turns'[i].chat /\ s.ext = turns'[i].msg
    <3>1. CASE i \in DOMAIN turns
      <4>1. turns'[i] = turns[i] /\ rows \subseteq rows'
        BY <1>9, <1>10, <1>13, <3>1
      <4> QED
        BY <2>1, <3>1, <4>1 DEF RowOnce
    <3>2. CASE i = n
      BY <1>10, <1>12, <1>13, <2>1, <3>2
    <3> QED
      BY <1>9, <2>1, <3>1, <3>2
  <2>2. \A s, v \in rows' : s.id[1] = "in" /\ v.id[1] = "in" /\ s.chat = v.chat /\ s.ext = v.ext => s = v
    BY <1>10, <1>13 DEF RowOnce
  <2> QED
    BY <2>1, <2>2 DEF RowOnce
<1>18. SendInv'
  BY <1>2, <1>4, <1>11, GrowthKeepsSend
<1> QED
  BY <1>3, <1>4, <1>5, <1>14, <1>15, <1>16, <1>17, <1>18

\* The handling of an update fails.
LEMMA HandleFailsKeeps ==
  ASSUME TelegramInv, HandleFails
  PROVE  TelegramInv'
<1> USE DEF TelegramInv
<1>1. PICK u \in batch :
        /\ IsNext(u)
        /\ offset' = After(u) /\ batch' = batch \ {u} /\ handled' = handled \cup {u.id}
        /\ Notice(u.chat, chat[u.chat][u.msg])
  BY DEF HandleFails
<1>2. UNCHANGED <<pending, up, turns, rows, outbox, send, posted>>
  BY DEF HandleFails
<1>3. /\ u.id \in 1..posted /\ u.chat \in Chat /\ u.msg \in Users(u.chat)
      /\ offset' \in 0..(posted + 1) /\ handled' \subseteq 1..posted
      /\ UpdateInv' /\ ConfirmedWasHandled'
  BY <1>1, <1>2, NextIsHandled
<1>4. /\ chat' \in [Chat -> Seq(Message)] /\ Grows
      /\ PartsInOrder'
      /\ \A d \in Chat : Users(d)' = Users(d)
  BY <1>1, <1>3, NoticeGrows
<1>5. ChatInv'
  BY <1>1, <1>2, <1>4, ChatInvKept
<1>6. TelegramTypeOK'
  BY <1>1, <1>2, <1>3, <1>4 DEF TelegramTypeOK, Message
<1> QED
  BY <1>2, <1>3, <1>4, <1>5, <1>6, RowsStay, SendStays

-----------------------------------------------------------------------------
(* Telegram: turns and deliveries.                                         *)

\* A turn ends: its message has a row, its answer one without an identifier.
LEMMA TurnKeeps ==
  ASSUME TelegramInv, NEW i \in DOMAIN turns, NEW a \in Answers, Turn(i, a)
  PROVE  TelegramInv'
<1> USE DEF TelegramInv
<1> DEFINE R == [chat : Chat, msg : Nat, at : {"queued", "done", "lost"}, quotes : Nat,
                 repliedTo : SUBSET RowId]
<1>1. PICK c \in Chat, k \in Nat : c = turns[i].chat /\ k = turns[i].msg /\ k \in Users(c)
  BY TurnTyped DEF TurnInv, IsTurn
<1> DEFINE r == [id |-> <<"in", i>>, chat |-> c, ext |-> k]
           o == [id |-> <<"out", i>>, chat |-> c, ext |-> 0]
           x == [turn |-> i, parts |-> a.parts, file |-> a.file]
<1>2. /\ turns' = [turns EXCEPT ![i].at = "done"]
      /\ rows' = Inserted(r) \cup {o}
      /\ outbox' = Append(outbox, x)
      /\ UNCHANGED <<chat, pending, up, offset, batch, send, posted, trouble, handled>>
  BY <1>1 DEF Turn, WithMessage
<1>3. /\ Len(turns) \in Nat /\ DOMAIN turns = 1..Len(turns) /\ i \in Nat
      /\ \A j \in DOMAIN turns : turns[j] \in R
      /\ turns \in Seq(R)
  <2>1. turns \in Seq(R)
    BY DEF TelegramTypeOK
  <2> HIDE DEF R
  <2> QED
    BY <2>1, ElementOf
<1>4. [turns[i] EXCEPT !.at = "done"] \in R
  BY <1>3
<1>5. /\ turns' \in Seq(R) /\ DOMAIN turns' = DOMAIN turns
      /\ turns'[i] = [turns[i] EXCEPT !.at = "done"]
      /\ \A j \in DOMAIN turns \ {i} : turns'[j] = turns[j]
  <2>1. turns' = [turns EXCEPT ![i] = [turns[i] EXCEPT !.at = "done"]]
    BY <1>2
  <2> HIDE DEF R
  <2> QED
    BY <1>3, <1>4, <2>1
<1>6. /\ TurnsKeep /\ Grows
      /\ \A j \in DOMAIN turns' : turns'[j].at = "done" => j = i \/ turns[j].at = "done"
  BY <1>2, <1>3, <1>5 DEF TurnsKeep, Grows
<1>7. /\ r \in [id : RowId, chat : Chat, ext : Nat] /\ r.id[1] = "in" /\ r.id[2] = i /\ r.chat = c /\ r.ext = k
      /\ o \in [id : RowId, chat : Chat, ext : Nat] /\ o.id[1] = "out" /\ o.id[2] = i /\ o.chat = c /\ o.ext = 0
  BY <1>1, <1>3 DEF RowId
<1>8. /\ Inserted(r) \subseteq rows \cup {r} /\ rows \subseteq Inserted(r)
      /\ \E s \in Inserted(r) : s.id[1] = "in" /\ s.chat = c /\ s.ext = k
      /\ \A s, v \in Inserted(r) :
           s.id[1] = "in" /\ v.id[1] = "in" /\ s.chat = v.chat /\ s.ext = v.ext => s = v
  BY <1>1, <1>7, InsertedOnce
<1>9. x \in Outgoing /\ x.turn = i
  BY <1>3, TelegramAssumption DEF Outgoing
<1>10. turns'[i].chat = c /\ turns'[i].msg = k
  BY <1>1, <1>5
<1> HIDE DEF r, o, x
<1>11. TelegramTypeOK'
  <2>1. rows' \subseteq [id : RowId, chat : Chat, ext : Nat]
    BY <1>2, <1>7, <1>8 DEF TelegramTypeOK
  <2>2. outbox' \in Seq(Outgoing)
    BY <1>2, <1>9 DEF TelegramTypeOK
  <2> QED
    BY <1>2, <1>5, <2>1, <2>2 DEF TelegramTypeOK
<1>12. ChatInv' /\ PartsInOrder' /\ UpdateInv' /\ ConfirmedWasHandled'
  BY <1>2 DEF ChatInv, Users, PartsInOrder, UpdateInv, ConfirmedWasHandled
<1>13. TurnInv'
  BY <1>5, <1>6, GrowthKeeps DEF TurnInv
<1>14. RowInv'
  <2>1. IsRow(r)' /\ IsRow(o)'
    BY <1>5, <1>7, <1>10 DEF IsRow
  <2> QED
    BY <1>2, <1>6, <1>8, <2>1, GrowthKeeps DEF RowInv
<1>15. RowOnce'
  <2>1. \A s, v \in rows' : s.id[1] = "in" /\ v.id[1] = "in" /\ s.chat = v.chat /\ s.ext = v.ext => s = v
    BY <1>2, <1>7, <1>8
  <2>2. ASSUME NEW j \in DOMAIN turns', turns'[j].at = "done"
        PROVE  \E s \in rows' : s.id[1] = "in" /\ s.chat = turns'[j].chat /\ s.ext = turns'[j].msg
    <3>1. CASE j = i
      BY <1>2, <1>8, <1>10, <3>1
    <3>2. CASE j # i
      <4>1. turns'[j] = turns[j] /\ j \in DOMAIN turns /\ rows \subseteq rows'
        BY <1>2, <1>5, <1>8, <3>2
      <4> QED
        BY <2>2, <4>1 DEF RowOnce
    <3> QED
      BY <3>1, <3>2
  <2> QED
    BY <2>1, <2>2 DEF RowOnce
<1>16. SendInv'
  <2>1. \A j \in DOMAIN outbox' : outbox'[j].turn \in DOMAIN turns'
    <3>1. \A j \in DOMAIN outbox : outbox[j].turn \in DOMAIN turns'
      BY <1>2, <1>6, GrowthKeepsSend
    <3>2. outbox \in Seq(Outgoing)
      BY DEF TelegramTypeOK
    <3>3. \A j \in DOMAIN outbox' : (j \in DOMAIN outbox /\ outbox'[j] = outbox[j]) \/ outbox'[j] = x
      BY <1>2, <1>9, <3>2
    <3> QED
      BY <1>5, <1>9, <3>1, <3>3
  <2>2. send.pc # "idle" => To' = To
    BY <1>2, <1>6 DEF To, SendInv, TurnsKeep
  <2> QED
    BY <1>2, <1>5, <2>1, <2>2 DEF SendInv
<1> QED
  BY <1>11, <1>12, <1>13, <1>14, <1>15, <1>16

\* A turn fails: its message may have a row, what it answers has none.
LEMMA TurnFailsKeeps ==
  ASSUME TelegramInv, NEW i \in DOMAIN turns, TurnFails(i)
  PROVE  TelegramInv'
<1> USE DEF TelegramInv
<1> DEFINE R == [chat : Chat, msg : Nat, at : {"queued", "done", "lost"}, quotes : Nat,
                 repliedTo : SUBSET RowId]
<1>1. PICK c \in Chat, k \in Nat : c = turns[i].chat /\ k = turns[i].msg /\ k \in Users(c)
  BY TurnTyped DEF TurnInv, IsTurn
<1> DEFINE r == [id |-> <<"in", i>>, chat |-> c, ext |-> k]
           x == [turn |-> i, parts |-> 1, file |-> FALSE]
<1>2. /\ turns' = [turns EXCEPT ![i].at = "lost"]
      /\ rows' \in {rows, Inserted(r)}
      /\ outbox' = Append(outbox, x)
      /\ trouble < MaxTrouble /\ trouble' = trouble + 1
      /\ UNCHANGED <<chat, pending, up, offset, batch, send, posted, handled>>
  BY <1>1 DEF TurnFails, WithMessage, Trouble
<1>3. /\ Len(turns) \in Nat /\ DOMAIN turns = 1..Len(turns) /\ i \in Nat
      /\ \A j \in DOMAIN turns : turns[j] \in R
      /\ turns \in Seq(R)
  <2>1. turns \in Seq(R)
    BY DEF TelegramTypeOK
  <2> HIDE DEF R
  <2> QED
    BY <2>1, ElementOf
<1>4. [turns[i] EXCEPT !.at = "lost"] \in R
  BY <1>3
<1>5. /\ turns' \in Seq(R) /\ DOMAIN turns' = DOMAIN turns
      /\ turns'[i] = [turns[i] EXCEPT !.at = "lost"]
      /\ \A j \in DOMAIN turns \ {i} : turns'[j] = turns[j]
  <2>1. turns' = [turns EXCEPT ![i] = [turns[i] EXCEPT !.at = "lost"]]
    BY <1>2
  <2> HIDE DEF R
  <2> QED
    BY <1>3, <1>4, <2>1
<1>6. /\ TurnsKeep /\ Grows
      /\ \A j \in DOMAIN turns' : turns'[j].at = "done" => j # i
  BY <1>2, <1>3, <1>5 DEF TurnsKeep, Grows
<1>7. /\ r \in [id : RowId, chat : Chat, ext : Nat] /\ r.id[1] = "in" /\ r.id[2] = i /\ r.chat = c /\ r.ext = k
  BY <1>1, <1>3 DEF RowId
<1>8. /\ Inserted(r) \subseteq rows \cup {r} /\ rows \subseteq Inserted(r)
      /\ \E s \in Inserted(r) : s.id[1] = "in" /\ s.chat = c /\ s.ext = k
      /\ \A s, v \in Inserted(r) :
           s.id[1] = "in" /\ v.id[1] = "in" /\ s.chat = v.chat /\ s.ext = v.ext => s = v
  BY <1>1, <1>7, InsertedOnce
<1>9. x \in Outgoing /\ x.turn = i
  BY <1>3 DEF Outgoing
<1>10. turns'[i].chat = c /\ turns'[i].msg = k
  BY <1>1, <1>5
<1> HIDE DEF r, x
<1>11. TelegramTypeOK'
  <2>1. rows' \subseteq [id : RowId, chat : Chat, ext : Nat]
    BY <1>2, <1>7, <1>8 DEF TelegramTypeOK
  <2>2. outbox' \in Seq(Outgoing)
    BY <1>2, <1>9 DEF TelegramTypeOK
  <2> QED
    BY <1>2, <1>5, <2>1, <2>2 DEF TelegramTypeOK
<1>12. ChatInv' /\ PartsInOrder' /\ UpdateInv' /\ ConfirmedWasHandled'
  BY <1>2 DEF ChatInv, Users, PartsInOrder, UpdateInv, ConfirmedWasHandled
<1>13. TurnInv'
  BY <1>5, <1>6, GrowthKeeps DEF TurnInv
<1>14. RowInv'
  <2>1. IsRow(r)'
    BY <1>5, <1>7, <1>10 DEF IsRow
  <2> QED
    BY <1>2, <1>6, <1>8, <2>1, GrowthKeeps DEF RowInv
<1>15. RowOnce'
  <2>1. \A s, v \in rows' : s.id[1] = "in" /\ v.id[1] = "in" /\ s.chat = v.chat /\ s.ext = v.ext => s = v
    BY <1>2, <1>8 DEF RowOnce
  <2>2. ASSUME NEW j \in DOMAIN turns', turns'[j].at = "done"
        PROVE  \E s \in rows' : s.id[1] = "in" /\ s.chat = turns'[j].chat /\ s.ext = turns'[j].msg
    <3>1. j # i /\ j \in DOMAIN turns /\ turns'[j] = turns[j]
      BY <1>5, <1>6, <2>2
    <3>2. rows \subseteq rows'
      BY <1>2, <1>8
    <3> QED
      BY <2>2, <3>1, <3>2 DEF RowOnce
  <2> QED
    BY <2>1, <2>2 DEF RowOnce
<1>16. SendInv'
  <2>1. \A j \in DOMAIN outbox' : outbox'[j].turn \in DOMAIN turns'
    <3>1. \A j \in DOMAIN outbox : outbox[j].turn \in DOMAIN turns'
      BY <1>2, <1>6, GrowthKeepsSend
    <3>2. outbox \in Seq(Outgoing)
      BY DEF TelegramTypeOK
    <3>3. \A j \in DOMAIN outbox' : (j \in DOMAIN outbox /\ outbox'[j] = outbox[j]) \/ outbox'[j] = x
      BY <1>2, <1>9, <3>2
    <3> QED
      BY <1>5, <1>9, <3>1, <3>3
  <2>2. send.pc # "idle" => To' = To
    BY <1>2, <1>6 DEF To, SendInv, TurnsKeep
  <2> QED
    BY <1>2, <1>5, <2>1, <2>2 DEF SendInv
<1> QED
  BY <1>11, <1>12, <1>13, <1>14, <1>15, <1>16

\* What the answer under delivery is.
LEMMA SendTyped ==
  ASSUME TelegramInv, send.pc # "idle"
  PROVE  /\ send \in [pc : {"text", "file", "record"}, answer : Outgoing, part : Nat, plain : BOOLEAN, first : Nat]
         /\ send.answer.turn \in Nat /\ send.answer.turn \in DOMAIN turns
         /\ To \in Chat /\ To = turns[send.answer.turn].chat
<1> USE DEF TelegramInv
<1>1. send \in [pc : {"text", "file", "record"}, answer : Outgoing, part : Nat, plain : BOOLEAN, first : Nat]
  BY DEF TelegramTypeOK, Idle
<1>2. send.answer.turn \in Nat
  BY <1>1 DEF Outgoing
<1> QED
  BY <1>1, <1>2, TurnTyped DEF SendInv, To

\* The next answer is taken from the outbound topic.
LEMMA DeliverKeeps ==
  ASSUME TelegramInv, Deliver
  PROVE  TelegramInv'
<1> USE DEF TelegramInv
<1>1. /\ outbox # <<>>
      /\ send' = [pc |-> IF Head(outbox).parts > 0 THEN "text" ELSE "file", answer |-> Head(outbox),
                  part |-> 1, plain |-> FALSE, first |-> 0]
      /\ outbox' = Tail(outbox)
      /\ UNCHANGED <<chat, pending, up, offset, batch, turns, rows, posted, trouble, handled>>
  BY DEF Deliver
<1>2. /\ Head(outbox) \in Outgoing /\ Tail(outbox) \in Seq(Outgoing)
      /\ Head(outbox).turn \in DOMAIN turns
      /\ \A j \in DOMAIN Tail(outbox) : j + 1 \in DOMAIN outbox /\ Tail(outbox)[j] = outbox[j + 1]
  <2>1. outbox \in Seq(Outgoing)
    BY DEF TelegramTypeOK
  <2>2. Head(outbox) = outbox[1] /\ 1 \in DOMAIN outbox
    BY <1>1, <2>1
  <2>3. Head(outbox) \in Outgoing /\ Tail(outbox) \in Seq(Outgoing)
        /\ \A j \in DOMAIN Tail(outbox) : j + 1 \in DOMAIN outbox /\ Tail(outbox)[j] = outbox[j + 1]
    BY <1>1, <2>1
  <2> QED
    BY <2>2, <2>3 DEF SendInv
<1>3. TelegramTypeOK'
  BY <1>1, <1>2 DEF TelegramTypeOK
<1>4. Grows
  BY <1>1 DEF Grows
<1>5. ChatInv' /\ PartsInOrder' /\ UpdateInv' /\ ConfirmedWasHandled'
  BY <1>1 DEF ChatInv, Users, PartsInOrder, UpdateInv, ConfirmedWasHandled
<1>6. SendInv'
  <2>1. \A j \in DOMAIN outbox' : outbox'[j].turn \in DOMAIN turns
    BY <1>1, <1>2 DEF SendInv
  <2>2. send'.answer.turn \in DOMAIN turns /\ send'.first = 0 /\ send'.part = 1 /\ send'.pc \in {"text", "file"}
    BY <1>1, <1>2
  <2> QED
    BY <1>1, <2>1, <2>2 DEF SendInv
<1> QED
  BY <1>1, <1>3, <1>4, <1>5, <1>6, RowsStay

\* The platform accepts a part of the answer, or a file, or refuses it.
LEMMA BotSends ==
  ASSUME TelegramInv, send.pc # "idle", NEW part \in Nat, Accepted(part) \/ UNCHANGED chat,
         part > 1 => \E l \in DOMAIN chat[To] : IsPart(chat[To][l], send.answer.turn, part - 1),
         UNCHANGED <<pending, batch>>
  PROVE  /\ chat' \in [Chat -> Seq(Message)] /\ Grows
         /\ PartsInOrder' /\ ChatInv'
         /\ Accepted(part) => /\ Len(chat[To]) + 1 \in DOMAIN chat'[To]
                              /\ IsPart(chat'[To][Len(chat[To]) + 1], send.answer.turn, part)
                              /\ Len(chat[To]) + 1 \in Nat \ {0}
<1> USE DEF TelegramInv
<1>1. PICK c \in Chat, n \in Nat : c = To /\ n = send.answer.turn
  BY SendTyped
<1> DEFINE m == [by |-> "bot", turn |-> n, part |-> part]
<1>2. CASE UNCHANGED chat /\ ~Accepted(part)
  <2>1. Grows /\ chat' \in [Chat -> Seq(Message)] /\ PartsInOrder'
    BY <1>2 DEF Grows, TelegramTypeOK, Message, PartsInOrder
  <2>2. \A d \in Chat : Users(d)' = Users(d)
    BY <1>2 DEF Users
  <2> QED
    BY <1>2, <2>1, <2>2, ChatInvKept
<1>3. CASE Accepted(part)
  <2>1. m \in Message /\ m.by = "bot" /\ m.turn = n /\ m.part = part
    BY DEF Message, BotMessage
  <2>2. chat' = [chat EXCEPT ![c] = Append(@, m)]
    BY <1>1, <1>3 DEF Accepted
  <2>3. /\ chat' \in [Chat -> Seq(Message)] /\ Grows
        /\ DOMAIN chat'[c] = DOMAIN chat[c] \cup {Len(chat[c]) + 1}
        /\ chat'[c][Len(chat[c]) + 1] = m
        /\ \A d \in Chat \ {c} : chat'[d] = chat[d]
    BY <2>1, <2>2, ChatAppends
  <2>4. PartsInOrder'
    BY <1>1, <2>1, <2>2, PartAppends
  <2>5. \A d \in Chat : Users(d)' = Users(d)
    BY <2>1, <2>3 DEF Users, Grows
  <2>6. ChatInv'
    BY <2>3, <2>5, ChatInvKept
  <2>7. Len(chat[c]) \in Nat
    BY InChat
  <2> QED
    BY <1>1, <2>1, <2>3, <2>4, <2>6, <2>7 DEF IsPart
<1> QED
  BY <1>2, <1>3

\* A part is sent, or has failed: then it is sent again or the rest dropped.
LEMMA SendPartKeeps ==
  ASSUME TelegramInv, SendPart \/ SendPartFails
  PROVE  TelegramInv'
<1> USE DEF TelegramInv
<1>1. /\ send.pc = "text"
      /\ UNCHANGED <<pending, up, offset, batch, turns, rows, outbox, posted, handled>>
      /\ \/ Accepted(send.part) /\ send' = NextPart
         \/ (Accepted(send.part) \/ UNCHANGED chat) /\ send' = AfterError
  BY DEF SendPart, SendPartFails
<1>2. /\ send \in [pc : {"text", "file", "record"}, answer : Outgoing, part : Nat, plain : BOOLEAN, first : Nat]
      /\ send.answer.turn \in DOMAIN turns /\ To \in Chat
  BY <1>1, SendTyped
<1>3. PICK p \in Nat, c \in Chat, n \in Nat : p = send.part /\ c = To /\ n = Len(chat[c]) + 1
  BY <1>2, InChat
<1>4. /\ chat' \in [Chat -> Seq(Message)] /\ Grows
      /\ PartsInOrder' /\ ChatInv'
      /\ Accepted(p) => /\ n \in DOMAIN chat'[c]
                        /\ IsPart(chat'[c][n], send.answer.turn, p)
                        /\ n \in Nat \ {0}
  <2>1. p > 1 => \E l \in DOMAIN chat[To] : IsPart(chat[To][l], send.answer.turn, p - 1)
    BY <1>1, <1>3 DEF SendInv
  <2> QED
    BY <1>1, <1>3, <2>1, BotSends
<1>5. UpdateInv' /\ ConfirmedWasHandled'
  BY <1>1 DEF UpdateInv, ConfirmedWasHandled
<1>6. \A l \in DOMAIN chat[c] : l \in DOMAIN chat'[c] /\ chat'[c][l] = chat[c][l]
  BY <1>4 DEF Grows
<1>7. \A i \in DOMAIN outbox' : outbox'[i].turn \in DOMAIN turns'
  BY <1>1 DEF SendInv
<1>8. CASE send' = Idle
  <2>1. TelegramTypeOK'
    BY <1>1, <1>4, <1>8 DEF TelegramTypeOK, Message
  <2>2. SendInv'
    BY <1>7, <1>8 DEF SendInv, Idle
  <2> QED
    BY <1>1, <1>4, <1>5, <2>1, <2>2, RowsStay
<1>9. CASE send' = [send EXCEPT !.plain = TRUE]
  <2>1. /\ send' \in [pc : {"text", "file", "record"}, answer : Outgoing, part : Nat, plain : BOOLEAN, first : Nat]
        /\ send'.pc = send.pc /\ send'.answer = send.answer /\ send'.part = send.part /\ send'.first = send.first
    BY <1>2, <1>9
  <2>2. TelegramTypeOK'
    BY <1>1, <1>4, <2>1 DEF TelegramTypeOK, Message
  <2>3. To' = c
    BY <1>1, <1>3, <2>1 DEF To
  <2>4. SendInv'
    BY <1>1, <1>3, <1>6, <1>7, <2>1, <2>3 DEF SendInv
  <2> QED
    BY <1>1, <1>4, <1>5, <2>2, <2>4, RowsStay
<1>10. CASE send' = NextPart /\ Accepted(p)
  <2>1. PICK f \in Nat : f = FirstId /\ f = IF send.first = 0 THEN n ELSE send.first
    BY <1>2, <1>3, <1>4, <1>10 DEF FirstId
  <2>2. /\ f # 0 /\ f \in DOMAIN chat'[c]
        /\ IsPart(chat'[c][f], send.answer.turn, 1)
    <3>1. CASE send.first = 0
      <4>1. p = 1
        BY <1>1, <1>3, <3>1 DEF SendInv
      <4> QED
        BY <1>4, <1>10, <2>1, <3>1, <4>1
    <3>2. CASE send.first # 0
      <4>1. f \in DOMAIN chat[c] /\ IsPart(chat[c][f], send.answer.turn, 1)
        BY <1>1, <1>3, <2>1, <3>2 DEF SendInv
      <4> QED
        BY <1>6, <2>1, <3>2, <4>1
    <3> QED
      BY <3>1, <3>2
  <2>3. \/ send' = [send EXCEPT !.part = p + 1, !.plain = FALSE, !.first = f]
        \/ send' = [send EXCEPT !.pc = "file", !.first = f]
    BY <1>3, <1>10, <2>1 DEF NextPart
  <2>4. /\ send' \in [pc : {"text", "file", "record"}, answer : Outgoing, part : Nat, plain : BOOLEAN, first : Nat]
        /\ send'.answer = send.answer /\ send'.first = f
        /\ (send'.pc = "text" /\ send'.part = p + 1) \/ send'.pc = "file"
    <3> DEFINE S == [pc : {"text", "file", "record"}, answer : Outgoing, part : Nat, plain : BOOLEAN, first : Nat]
    <3>1. CASE send' = [send EXCEPT !.part = p + 1, !.plain = FALSE, !.first = f]
      <4>1. p + 1 \in Nat /\ send \in S
        BY <1>2
      <4>2. send' \in S
        BY <3>1, <4>1, Zenon
      <4>3. send'.pc = send.pc /\ send'.answer = send.answer /\ send'.first = f /\ send'.part = p + 1
        BY <3>1, <4>1
      <4> QED
        BY <1>1, <4>2, <4>3
    <3>2. CASE send' = [send EXCEPT !.pc = "file", !.first = f]
      BY <1>2, <3>2
    <3> QED
      BY <2>3, <3>1, <3>2
  <2>5. TelegramTypeOK'
    BY <1>1, <1>4, <2>4 DEF TelegramTypeOK, Message
  <2>6. To' = c
    BY <1>1, <1>3, <2>4 DEF To
  <2>7. send'.pc = "text" =>
          \E l \in DOMAIN chat'[c] : IsPart(chat'[c][l], send.answer.turn, send'.part - 1)
    BY <1>4, <1>10, <2>4
  <2>8. SendInv'
    BY <1>1, <1>2, <1>7, <2>2, <2>4, <2>6, <2>7 DEF SendInv
  <2> QED
    BY <1>1, <1>4, <1>5, <2>5, <2>8, RowsStay
<1> QED
  BY <1>1, <1>3, <1>8, <1>9, <1>10 DEF AfterError

\* The file that goes with an answer is sent, or not.
LEMMA AttachmentKeeps ==
  ASSUME TelegramInv, SendAttachment
  PROVE  TelegramInv'
<1> USE DEF TelegramInv
<1>1. /\ send.pc = "file"
      /\ UNCHANGED <<pending, up, offset, batch, turns, rows, outbox, posted, handled>>
      /\ Accepted(0) \/ UNCHANGED chat
      /\ send' = IF send.first = 0 THEN Idle ELSE [send EXCEPT !.pc = "record"]
  BY DEF SendAttachment
<1>2. /\ send \in [pc : {"text", "file", "record"}, answer : Outgoing, part : Nat, plain : BOOLEAN, first : Nat]
      /\ send.answer.turn \in DOMAIN turns /\ To \in Chat
  BY <1>1, SendTyped
<1>3. PICK c \in Chat : c = To
  BY <1>2
<1>4. /\ chat' \in [Chat -> Seq(Message)] /\ Grows
      /\ PartsInOrder' /\ ChatInv'
  BY <1>1, BotSends
<1>5. UpdateInv' /\ ConfirmedWasHandled'
  BY <1>1 DEF UpdateInv, ConfirmedWasHandled
<1>6. \A l \in DOMAIN chat[c] : l \in DOMAIN chat'[c] /\ chat'[c][l] = chat[c][l]
  BY <1>4 DEF Grows
<1>7. \A i \in DOMAIN outbox' : outbox'[i].turn \in DOMAIN turns'
  BY <1>1 DEF SendInv
<1>8. CASE send.first = 0
  <2>1. TelegramTypeOK'
    BY <1>1, <1>4, <1>8 DEF TelegramTypeOK, Message
  <2>2. SendInv'
    BY <1>1, <1>7, <1>8 DEF SendInv, Idle
  <2> QED
    BY <1>1, <1>4, <1>5, <2>1, <2>2, RowsStay
<1>9. CASE send.first # 0
  <2>1. /\ send' \in [pc : {"text", "file", "record"}, answer : Outgoing, part : Nat, plain : BOOLEAN, first : Nat]
        /\ send'.pc = "record" /\ send'.answer = send.answer /\ send'.first = send.first
    BY <1>1, <1>2, <1>9
  <2>2. TelegramTypeOK'
    BY <1>1, <1>4, <2>1 DEF TelegramTypeOK, Message
  <2>3. To' = c
    BY <1>1, <1>3, <2>1 DEF To
  <2>4. SendInv'
    BY <1>1, <1>3, <1>6, <1>7, <1>9, <2>1, <2>3 DEF SendInv
  <2> QED
    BY <1>1, <1>4, <1>5, <2>2, <2>4, RowsStay
<1> QED
  BY <1>8, <1>9

\* The row of the answer gets the identifier of the first part, or keeps none.
LEMMA RecordKeeps ==
  ASSUME TelegramInv, Record
  PROVE  TelegramInv'
<1> USE DEF TelegramInv
<1>1. /\ send.pc = "record"
      /\ \/ rows' = {IF r.id = Answered THEN [r EXCEPT !.ext = send.first] ELSE r : r \in rows}
         \/ UNCHANGED rows
      /\ send' = Idle
      /\ UNCHANGED <<chat, pending, up, offset, batch, turns, outbox, posted, handled>>
  BY DEF Record
<1>2. /\ send \in [pc : {"text", "file", "record"}, answer : Outgoing, part : Nat, plain : BOOLEAN, first : Nat]
      /\ send.answer.turn \in DOMAIN turns /\ To = turns[send.answer.turn].chat
  BY <1>1, SendTyped
<1>3. PICK f \in Nat, n \in Nat : f = send.first /\ n = send.answer.turn
  BY <1>2 DEF Outgoing
<1>4. f # 0 /\ f \in DOMAIN chat[turns[n].chat] /\ IsPart(chat[turns[n].chat][f], n, 1)
  BY <1>1, <1>2, <1>3 DEF SendInv
<1>5. Grows /\ TurnsKeep
  BY <1>1 DEF Grows, TurnsKeep
<1>6. ChatInv' /\ PartsInOrder' /\ UpdateInv' /\ ConfirmedWasHandled'
  BY <1>1 DEF ChatInv, Users, PartsInOrder, UpdateInv, ConfirmedWasHandled
<1>7. SendInv'
  BY <1>1 DEF SendInv, Idle
<1>8. TurnInv'
  BY <1>1, <1>5, GrowthKeeps DEF TurnInv
<1>9. CASE UNCHANGED rows
  <2>1. TelegramTypeOK'
    BY <1>1, <1>9 DEF TelegramTypeOK
  <2> QED
    BY <1>1, <1>5, <1>6, <1>7, <1>9, <2>1, RowsStay
<1>10. CASE rows' = {IF r.id = Answered THEN [r EXCEPT !.ext = send.first] ELSE r : r \in rows}
  <2>1. \A r \in rows : r \in [id : RowId, chat : Chat, ext : Nat]
    BY DEF TelegramTypeOK
  <2>2. \A r \in rows : r.id = Answered => r.id[1] = "out" /\ r.id[2] = n
    BY <1>3 DEF Answered
  <2>3. ASSUME NEW s \in rows'
        PROVE  \/ s \in rows
               \/ /\ s \in [id : RowId, chat : Chat, ext : Nat]
                  /\ \E r \in rows : s.id = r.id /\ s.chat = r.chat
                  /\ s.id[1] = "out" /\ s.id[2] = n /\ s.ext = f
    <3>1. PICK r \in rows : s = IF r.id = Answered THEN [r EXCEPT !.ext = f] ELSE r
      BY <1>3, <1>10
    <3>2. CASE r.id = Answered
      <4>1. s \in [id : RowId, chat : Chat, ext : Nat] /\ s.id = r.id /\ s.chat = r.chat /\ s.ext = f
        BY <2>1, <3>1, <3>2
      <4> QED
        BY <2>2, <3>2, <4>1
    <3> QED
      BY <3>1, <3>2
  <2>4. \A r \in rows : r.id[1] = "in" => r \in rows'
    <3> SUFFICES ASSUME NEW r \in rows, r.id[1] = "in" PROVE r \in rows'
      OBVIOUS
    <3>1. r.id # Answered
      BY <2>2
    <3> QED
      BY <1>10, <3>1
  <2>5. \A s \in rows' : s.id[1] = "in" => s \in rows
    BY <2>3
  <2>6. TelegramTypeOK'
    <3>1. rows' \subseteq [id : RowId, chat : Chat, ext : Nat]
      BY <2>1, <2>3
    <3> QED
      BY <1>1, <3>1 DEF TelegramTypeOK
  <2>7. RowInv'
    <3> SUFFICES ASSUME NEW s \in rows' PROVE IsRow(s)'
      BY DEF RowInv
    <3>1. CASE s \in rows
      BY <1>5, <3>1, GrowthKeeps
    <3>2. CASE /\ \E r \in rows : s.id = r.id /\ s.chat = r.chat
               /\ s.id[1] = "out" /\ s.id[2] = n /\ s.ext = f
      <4>1. s.id[2] \in DOMAIN turns /\ s.chat = turns[s.id[2]].chat
        BY <3>2 DEF RowInv, IsRow
      <4> QED
        BY <1>1, <1>4, <3>2, <4>1 DEF IsRow
    <3> QED
      BY <2>3, <3>1, <3>2
  <2>8. RowOnce'
    <3>1. \A s, v \in rows' : s.id[1] = "in" /\ v.id[1] = "in" /\ s.chat = v.chat /\ s.ext = v.ext => s = v
      BY <2>5 DEF RowOnce
    <3>2. \A i \in DOMAIN turns : turns[i].at = "done" =>
            \E s \in rows' : s.id[1] = "in" /\ s.chat = turns[i].chat /\ s.ext = turns[i].msg
      BY <2>4 DEF RowOnce
    <3> QED
      BY <1>1, <3>1, <3>2 DEF RowOnce
  <2> QED
    BY <1>6, <1>7, <1>8, <2>6, <2>7, <2>8
<1> QED
  BY <1>1, <1>9, <1>10

\* Every step of the channel keeps the invariant.
LEMMA TelegramStep ==
  ASSUME TelegramInv, [TelegramNext]_telegramVars
  PROVE  TelegramInv'
<1>1. CASE UNCHANGED telegramVars
  <2>1. Grows
    BY <1>1 DEF telegramVars, Grows
  <2>2. TelegramTypeOK' /\ ChatInv' /\ UpdateInv' /\ ConfirmedWasHandled' /\ PartsInOrder'
    <3>1. TelegramTypeOK'
      BY <1>1 DEF telegramVars, TelegramInv, TelegramTypeOK
    <3>2. ChatInv'
      BY <1>1 DEF telegramVars, TelegramInv, ChatInv, Users
    <3>3. UpdateInv'
      BY <1>1 DEF telegramVars, TelegramInv, UpdateInv
    <3>4. ConfirmedWasHandled'
      BY <1>1 DEF telegramVars, TelegramInv, ConfirmedWasHandled
    <3>5. PartsInOrder'
      BY <1>1 DEF telegramVars, TelegramInv, PartsInOrder
    <3> QED
      BY <3>1, <3>2, <3>3, <3>4, <3>5
  <2> QED
    BY <1>1, <2>1, <2>2, RowsStay, SendStays DEF telegramVars, TelegramInv
<1>2. CASE TelegramNext
  BY <1>2, PostKeeps, EditKeeps, StartKeeps, CrashKeeps, PollKeeps, HandleKeeps, HandleFailsKeeps, TurnKeeps, TurnFailsKeeps,
     DeliverKeeps, SendPartKeeps, AttachmentKeeps, RecordKeeps DEF TelegramNext
<1> QED
  BY <1>1, <1>2

-----------------------------------------------------------------------------
(* Theorems about Telegram.                                                *)

\* TelegramInv holds in every state, whatever users, platform and faults do.
THEOREM TelegramInvariant == TelegramSpec => []TelegramInv
  BY InitTelegramInv, TelegramStep, PTL DEF TelegramSpec

\* Every variable of the channel keeps its type.
THEOREM TelegramTypes == TelegramSpec => []TelegramTypeOK
<1>1. TelegramInv => TelegramTypeOK
  BY DEF TelegramInv
<1> QED
  BY <1>1, TelegramInvariant, PTL

\* However often an update comes and wherever deliveries fail, the history has
\* one row of a message whose turn is over, and what it has of an answer points
\* at the first part of that answer.
THEOREM HistoryFollowsChats == TelegramSpec => []RowsMatchMessages
<1>1. TelegramInv => RowsMatchMessages
  <2> SUFFICES ASSUME TelegramInv PROVE RowsMatchMessages
    OBVIOUS
  <2> USE DEF TelegramInv
  <2>1. OneRowPerMessage
    <3> SUFFICES ASSUME NEW i \in DOMAIN turns, turns[i].at = "done"
                 PROVE  Cardinality({r \in rows : r.chat = turns[i].chat /\ r.ext = turns[i].msg}) = 1
      BY DEF OneRowPerMessage
    <3>1. PICK s \in rows : s.id[1] = "in" /\ s.chat = turns[i].chat /\ s.ext = turns[i].msg
      BY DEF RowOnce
    <3>2. ASSUME NEW r \in rows, r.chat = turns[i].chat, r.ext = turns[i].msg PROVE r = s
      <4>1. turns[i].msg \in Users(turns[i].chat) /\ turns[i].msg # 0
        BY TurnTyped, InChat DEF TurnInv, IsTurn, Users
      <4>2. r.id[1] \in {"in", "out"}
        BY DEF TelegramTypeOK, RowId
      <4>3. r.id[1] # "out"
        BY <3>2, <4>1 DEF RowInv, IsRow, IsPart, Users
      <4> QED
        BY <3>1, <3>2, <4>2, <4>3 DEF RowOnce
    <3>3. {r \in rows : r.chat = turns[i].chat /\ r.ext = turns[i].msg} = {s}
      BY <3>1, <3>2
    <3> QED
      BY <3>3, FS_Singleton
  <2>2. ExternalIsItsFirstPart
    <3> SUFFICES ASSUME NEW r \in rows, r.id[1] = "out", r.ext # 0
                 PROVE  /\ r.ext \in DOMAIN chat[r.chat]
                        /\ chat[r.chat][r.ext] = [by |-> "bot", turn |-> r.id[2], part |-> 1]
      BY DEF ExternalIsItsFirstPart
    <3>1. r.chat \in Chat /\ r.ext \in DOMAIN chat[r.chat] /\ IsPart(chat[r.chat][r.ext], r.id[2], 1)
      BY DEF RowInv, IsRow, TelegramTypeOK
    <3>2. chat[r.chat][r.ext] \in Message
      BY <3>1, InChat
    <3>3. chat[r.chat][r.ext] \in BotMessage
      BY <3>1, <3>2 DEF Message, UserMessage, IsPart
    <3>4. chat[r.chat][r.ext] = [by |-> "bot", turn |-> r.id[2], part |-> 1]
      BY <3>1, <3>3 DEF BotMessage, IsPart
    <3> QED
      BY <3>1, <3>4
  <2> QED
    BY <2>1, <2>2 DEF RowsMatchMessages
<1> QED
  BY <1>1, TelegramInvariant, PTL

\* What the mapper finds of a quoted message is the row of that message, though
\* identifiers of chats are the same and answers are recorded late.
THEOREM RepliesAreQuoted == TelegramSpec => []RepliedIsQuoted
<1>1. TelegramInv => RepliedIsQuoted
  BY DEF TelegramInv, TurnInv, IsReplied, IsRowOf, RepliedIsQuoted
<1> QED
  BY <1>1, TelegramInvariant, PTL

\* No part of an answer is on the platform without the part before it.
THEOREM PartsComeInOrder == TelegramSpec => []PartsInOrder
<1>1. TelegramInv => PartsInOrder
  BY DEF TelegramInv
<1> QED
  BY <1>1, TelegramInvariant, PTL

\* An update that Telegram forgets was handed to the handler.
THEOREM ConfirmedAreHandled == TelegramSpec => []ConfirmedWasHandled
<1>1. TelegramInv => ConfirmedWasHandled
  BY DEF TelegramInv
<1> QED
  BY <1>1, TelegramInvariant, PTL
=============================================================================
