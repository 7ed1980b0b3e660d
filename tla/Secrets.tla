------------------------------- MODULE Secrets -------------------------------
(***************************************************************************)
(* The secrets of one tenant (service/secret): the tools that set and      *)
(* delete them, the one-time form a user enters them in (app/gateway), the *)
(* commands that run with them in the user's sandbox (loop/proxy.go), and  *)
(* the redaction of what these commands print.                             *)
(*                                                                         *)
(* Forms are HTTP requests and commands are tool calls of the same or of   *)
(* different turns: any number of each is under way.  A call of the store  *)
(* or of the sandbox is a step, and may fail where Faulty.  Encryption is  *)
(* a value that can be read back, unless the key of the installation was   *)
(* changed since: Bad.                                                     *)
(***************************************************************************)
EXTENDS Naturals, FiniteSets

CONSTANTS
  User,
  Shared,     \* the owner of the tenant's own secrets
  Key,        \* names of secrets
  VarOf,      \* the variable of a name: several names may share one
  Val,        \* values
  Short,      \* those of less than four letters
  PartOf,     \* <<v, w>>: v is part of w
  Bad,        \* a value that cannot be decrypted
  Token,
  Form,       \* submissions of forms
  Command,    \* executions
  Given,      \* what the tenant may have under a name before, None included
  MaxWrites,  \* bounds the calls of the tools that set and delete
  Faulty,     \* whether calls of the store and of the sandbox fail
  None

Owner == User \cup {Shared}
Mode == {"value", "file"}
Var == {VarOf[k] : k \in Key}
Entry == [val : Val \cup {Bad}, mode : Mode]

ASSUME SecretsAssumption ==
  /\ Shared \notin User
  /\ VarOf \in [Key -> Var]
  /\ Bad \notin Val
  /\ Short \subseteq Val
  /\ PartOf \subseteq Val \X Val
  /\ Given \subseteq Entry \cup {None}
  /\ MaxWrites \in Nat
  /\ Faulty \in BOOLEAN

VARIABLES
  secrets,   \* table: the secret of an owner and name
  tokens,    \* table
  form,      \* submissions under way
  command,   \* commands under way
  dir,       \* /tmp/secrets in the sandbox of a user: None, or its files
  writes,    \* calls of the tools
  notified,  \* history: messages "the secrets were set" by token
  left       \* history: users whose files the last clean-up did not reach

vars == <<secrets, tokens, form, command, dir, writes, notified, left>>

NoFiles == [v \in Var |-> None]
AtRest == [pc |-> "rest"]

\* The tenant's secrets are there before; a change of the installation's key
\* makes what was written under the old one Bad.
SecretsInit ==
  /\ \E shared \in [Key -> Given] :
       secrets = [x \in Owner \X Key |-> IF x[1] = Shared THEN shared[x[2]] ELSE None]
  /\ tokens = [t \in Token |-> [user |-> None, state |-> "none"]]
  /\ form = [f \in Form |-> AtRest]
  /\ command = [c \in Command |-> AtRest]
  /\ dir = [u \in User |-> None]
  /\ writes = 0
  /\ notified = [t \in Token |-> 0]
  /\ left = {}

-----------------------------------------------------------------------------
(* The table.                                                              *)

\* ListSecrets reads the user's secrets and the tenant's.  Of one name the
\* user's own counts.
Effective(u, k) == IF secrets[<<u, k>>] # None THEN secrets[<<u, k>>] ELSE secrets[<<Shared, k>>]

Listed(u) == {k \in Key : Effective(u, k) # None}

\* Commands whose user sees a change between their start and their redaction.
Seen(o, c) == command[c].pc # "rest" /\ o \in {command[c].user, Shared}

\* SaveSecret is an upsert.
Put(o, k, e) ==
  /\ secrets' = [secrets EXCEPT ![<<o, k>>] = e]
  /\ command' = [c \in Command |-> IF Seen(o, c) THEN [command[c] EXCEPT !.changed = TRUE] ELSE command[c]]

\* The tool secret_set stores values only.
Set(u, k, v) ==
  /\ writes < MaxWrites
  /\ writes' = writes + 1
  /\ Put(u, k, [val |-> v, mode |-> "value"])
  /\ UNCHANGED <<tokens, form, dir, notified, left>>

\* The tool secret_delete: the user's own only.
Delete(u, k) ==
  /\ writes < MaxWrites
  /\ secrets[<<u, k>>] # None
  /\ writes' = writes + 1
  /\ Put(u, k, None)
  /\ UNCHANGED <<tokens, form, dir, notified, left>>

-----------------------------------------------------------------------------
(* The form.                                                               *)

RequestEntry(u, t) ==
  /\ tokens[t].state = "none"
  /\ tokens' = [tokens EXCEPT ![t] = [user |-> u, state |-> "open"]]
  /\ UNCHANGED <<secrets, form, command, dir, writes, notified, left>>

\* The hour is over.
Expire(t) ==
  /\ tokens[t].state = "open"
  /\ tokens' = [tokens EXCEPT ![t].state = "expired"]
  /\ UNCHANGED <<secrets, form, command, dir, writes, notified, left>>

ValidateToken(t) == tokens[t].state = "open"

FormGoes(f, r) == form' = [form EXCEPT ![f] = r]

\* handleSubmit: the keys are those of the body, whatever the token asks for.
Submit(f, t, keys) ==
  /\ form[f].pc = "rest"
  /\ ValidateToken(t)
  /\ FormGoes(f, [pc |-> "consume", token |-> t, todo |-> keys])
  /\ UNCHANGED <<secrets, tokens, command, dir, writes, notified, left>>

\* ConsumeToken looks at the token once more.
Consume(f) ==
  /\ form[f].pc = "consume"
  /\ FormGoes(f, IF ValidateToken(form[f].token) THEN [form[f] EXCEPT !.pc = "store"] ELSE AtRest)
  /\ UNCHANGED <<secrets, tokens, command, dir, writes, notified, left>>

\* The body's value e of a key.
StoreValue(f, k, e) ==
  /\ form[f].pc = "store"
  /\ k \in form[f].todo
  /\ Put(tokens[form[f].token].user, k, e)
  /\ FormGoes(f, [form[f] EXCEPT !.todo = @ \ {k}])
  /\ UNCHANGED <<tokens, dir, writes, notified, left>>

\* Mutant: the update does not look whether the token is used.
MarkableAlways(t) == TRUE

Markable(t) == tokens[t].state # "used"

\* ConsumeSecretToken, last; then the message to the agent is on its way (its
\* goroutine is in AgentRuntime).
MarkUsed(f) ==
  LET t == form[f].token IN
  /\ form[f].pc = "store"
  /\ form[f].todo = {}
  /\ IF Markable(t)
       THEN /\ tokens' = [tokens EXCEPT ![t].state = "used"]
            /\ notified' = [notified EXCEPT ![t] = @ + 1]
       ELSE UNCHANGED <<tokens, notified>>
  /\ FormGoes(f, AtRest)
  /\ UNCHANGED <<secrets, command, dir, writes, left>>

\* A store call fails: what is written stays, and the token is as it was.
FormFails(f) ==
  /\ Faulty
  /\ form[f].pc # "rest"
  /\ FormGoes(f, AtRest)
  /\ UNCHANGED <<secrets, tokens, command, dir, writes, notified, left>>

-----------------------------------------------------------------------------
(* A command in the sandbox.                                               *)

CommandGoes(c, r) == command' = [command EXCEPT ![c] = r]
Goes(c, pc) == CommandGoes(c, [command[c] EXCEPT !.pc = pc])

\* EnvVars: nothing at all when one of the values cannot be decrypted.
EnvVars(u) ==
  IF \E k \in Listed(u) : Effective(u, k).val = Bad THEN {} ELSE Listed(u)

\* The names are gone through in no order: of those that share a variable the
\* last one counts.  A command that gets no secret is left out.
Exec(c, u) ==
  LET keys == EnvVars(u)
      named == {VarOf[k] : k \in keys}
      files == {k \in keys : Effective(u, k).mode = "file"}
  IN \E last \in [named -> keys] :
       /\ command[c].pc = "rest"
       /\ keys # {}
       /\ \A v \in named : VarOf[last[v]] = v
       /\ CommandGoes(c, [pc |-> IF files = {} THEN "run" ELSE "mkdir", user |-> u,
                          keys |-> {last[v] : v \in named}, todo |-> files,
                          given |-> [k \in keys |-> Effective(u, k)],
                          printed |-> {}, changed |-> FALSE])
       /\ UNCHANGED <<secrets, tokens, form, dir, writes, notified, left>>

MakeDir(c) ==
  LET u == command[c].user IN
  /\ command[c].pc = "mkdir"
  /\ dir' = [dir EXCEPT ![u] = IF @ = None THEN NoFiles ELSE @]
  /\ Goes(c, "write")
  /\ UNCHANGED <<secrets, tokens, form, writes, notified, left>>

MakeDirFails(c) ==
  /\ Faulty
  /\ command[c].pc = "mkdir"
  /\ Goes(c, "run")
  /\ UNCHANGED <<secrets, tokens, form, dir, writes, notified, left>>

\* Without the directory the shell writes nothing, and nobody looks at its exit
\* code.
WriteFile(c, k) ==
  LET u == command[c].user
      rest == command[c].todo \ {k}
  IN /\ command[c].pc = "write"
     /\ k \in command[c].todo
     /\ k \in command[c].keys => \A r \in rest : VarOf[r] # VarOf[k]
     /\ \/ dir' = IF dir[u] = None THEN dir
                  ELSE [dir EXCEPT ![u][VarOf[k]] = command[c].given[k].val]
        \/ Faulty /\ UNCHANGED dir
     /\ CommandGoes(c, [command[c] EXCEPT !.todo = rest, !.pc = IF rest = {} THEN "run" ELSE "write"])
     /\ UNCHANGED <<secrets, tokens, form, writes, notified, left>>

\* What a command finds: variables, and the files that others name.
Content(c, k) ==
  IF command[c].given[k].mode = "value" THEN command[c].given[k].val
  ELSE IF dir[command[c].user] = None THEN None
  ELSE dir[command[c].user][VarOf[k]]

\* Mutant: a command that failed returns before its files are removed.
AfterRunReturns(c) == {"clean", "redact"}

AfterRun(c) == {"clean"}

HasFiles(c) == \E k \in DOMAIN command[c].given : command[c].given[k].mode = "file"

\* It may print all it finds.  An error is no reason to leave out the clean-up.
Run(c) ==
  /\ command[c].pc = "run"
  /\ \E pc \in IF HasFiles(c) THEN AfterRun(c) ELSE {"redact"} :
       CommandGoes(c, [command[c] EXCEPT !.pc = pc,
                         !.printed = {Content(c, k) : k \in command[c].keys} \ {None}])
  /\ UNCHANGED <<secrets, tokens, form, dir, writes, notified, left>>

\* rm -rf: of all the files, whosever they are.
Clean(c) ==
  /\ command[c].pc = "clean"
  /\ dir' = [dir EXCEPT ![command[c].user] = None]
  /\ left' = left \ {command[c].user}
  /\ Goes(c, "redact")
  /\ UNCHANGED <<secrets, tokens, form, writes, notified>>

\* The clean-up has the context of the command: when the turn's deadline ended
\* the command it does not run either.
CleanFails(c) ==
  /\ Faulty
  /\ command[c].pc = "clean"
  /\ left' = left \cup {command[c].user}
  /\ Goes(c, "redact")
  /\ UNCHANGED <<secrets, tokens, form, dir, writes, notified>>

\* Mutant: the tenant's value is taken for a name both have.
ValuesOfTenant(u) ==
  {IF secrets[<<Shared, k>>] # None THEN secrets[<<Shared, k>>].val ELSE secrets[<<u, k>>].val :
     k \in Listed(u)} \ ({Bad} \cup Short)

\* What Redact looks for where it can read the table: Bad ones are skipped before
\* the user's own are taken for the tenant's, short ones always.
Values(u) ==
  LET readable(o, k) == secrets[<<o, k>>] # None /\ secrets[<<o, k>>].val # Bad
  IN ({secrets[<<u, k>>].val : k \in {x \in Key : readable(u, x)}}
      \cup {secrets[<<Shared, k>>].val : k \in {x \in Key : readable(Shared, x) /\ ~readable(u, x)}}) \ Short

\* The values a command was given.
GivenTo(c) == {command[c].given[k].val : k \in command[c].keys}

\* The text the model and the user see.
Show(c, listed, leaked) ==
  CommandGoes(c, [pc |-> "shown", user |-> command[c].user, changed |-> command[c].changed,
                  listed |-> listed, leaked |-> leaked])

\* Redact: the values are replaced in no order, and one of which a part was
\* replaced before is not found.
Redact(c) ==
  LET values == Values(command[c].user)
      containing == {x \in values : \E y \in values \ {x} : <<y, x>> \in PartOf}
  IN /\ command[c].pc = "redact"
     /\ \E broken \in SUBSET containing :
          Show(c, TRUE, (command[c].printed \cap GivenTo(c)) \ (values \ broken))
     /\ UNCHANGED <<secrets, tokens, form, dir, writes, notified, left>>

\* ListSecrets fails: the text is returned as it is.
RedactFails(c) ==
  /\ Faulty
  /\ command[c].pc = "redact"
  /\ Show(c, FALSE, command[c].printed \cap GivenTo(c))
  /\ UNCHANGED <<secrets, tokens, form, dir, writes, notified, left>>

Return(c) ==
  /\ command[c].pc = "shown"
  /\ CommandGoes(c, AtRest)
  /\ UNCHANGED <<secrets, tokens, form, dir, writes, notified, left>>

SecretsNext ==
  \/ \E u \in User, k \in Key : Delete(u, k) \/ \E v \in Val : Set(u, k, v)
  \/ \E t \in Token : Expire(t) \/ \E u \in User : RequestEntry(u, t)
  \/ \E f \in Form :
       \/ \E t \in Token, keys \in SUBSET Key : Submit(f, t, keys)
       \/ Consume(f) \/ MarkUsed(f) \/ FormFails(f)
       \/ \E k \in Key, e \in [val : Val, mode : Mode] : StoreValue(f, k, e)
  \/ \E c \in Command :
       \/ \E u \in User : Exec(c, u)
       \/ MakeDir(c) \/ MakeDirFails(c) \/ Run(c) \/ Clean(c) \/ CleanFails(c)
       \/ \E k \in Key : WriteFile(c, k)
       \/ Redact(c) \/ RedactFails(c) \/ Return(c)

SecretsSpec == SecretsInit /\ [][SecretsNext]_vars

-----------------------------------------------------------------------------
(* Properties.                                                             *)

Submission == [pc : {"consume", "store"}, token : Token, todo : SUBSET Key]

Execution ==
  [pc : {"mkdir", "write", "run", "clean", "redact"}, user : User, keys : SUBSET Key, todo : SUBSET Key,
   given : UNION {[some -> [val : Val, mode : Mode]] : some \in SUBSET Key},
   printed : SUBSET Val, changed : BOOLEAN]

Answer ==
  [pc : {"shown"}, user : User, changed : BOOLEAN, listed : BOOLEAN, leaked : SUBSET Val]

SecretsTypeOK ==
  /\ secrets \in [Owner \X Key -> Entry \cup {None}]
  /\ tokens \in [Token -> [user : User \cup {None}, state : {"none", "open", "expired", "used"}]]
  /\ form \in [Form -> Submission \cup {AtRest}]
  /\ command \in [Command -> Execution \cup Answer \cup {AtRest}]
  /\ dir \in [User -> [Var -> Val \cup {None}] \cup {None}]
  /\ writes \in 0..MaxWrites
  /\ notified \in [Token -> Nat]
  /\ left \subseteq User

\* However often and at the same time a form is sent, the agent is told once
\* that the secrets are set, and goes on once with the task that waited for
\* them (secret.go:141-167, ConsumeSecretToken).
ToldOnce == \A t \in Token : notified[t] <= 1

\* Values that cannot be found in a text once another one was replaced there.
Breakable == {x \in Val : \E y \in Val : <<y, x>> \in PartOf}

\* What a command was given is not shown, whatever the tenant and the user have
\* under one name and whatever cannot be decrypted, but for values too short to
\* look for and those of which a part was replaced (EnvVars and Redact each merge
\* the two owners' secrets).  That holds where nobody changed a secret while the
\* command ran and Redact could list the secrets afterwards (impl.go:176).
GivenIsRedacted ==
  \A c \in Command :
    command[c].pc = "shown" /\ ~command[c].changed /\ command[c].listed
      => command[c].leaked \subseteq Short \cup Breakable

\* Secret files lie in a sandbox only while a command of its user is under way
\* that will remove them, although commands remove each other's, unless the
\* removal itself fails (proxy.go:168).
FilesAreRemoved ==
  \A u \in User \ left :
    dir[u] # None =>
      \E c \in Command : command[c].pc \in {"write", "run", "clean"} /\ command[c].user = u

-----------------------------------------------------------------------------
(* What the code's words promise and the code does not do.                 *)

\* "RequestEntry creates a one-time token" (impl.go:251): once it is used nothing
\* is stored by it any more.
UsedIsOver == \A f \in Form : form[f].pc = "store" => tokens[form[f].token].state # "used"

\* "replaces decrypted secret values in text with [REDACTED]" (impl.go:168).
NothingShown == \A c \in Command : command[c].pc = "shown" => command[c].leaked = {}

\* "Write file-mode secrets to temp files inside the container" (proxy.go:129):
\* a command finds the files its variables name.
FilesFound ==
  \A c \in Command :
    command[c].pc = "run" =>
      \A k \in command[c].keys : Content(c, k) = command[c].given[k].val

\* "Clean up file-mode secrets after execution" (proxy.go:168).
NoFilesLeft == left = {}
=============================================================================
