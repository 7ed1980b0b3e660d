------------------------------- MODULE Skills -------------------------------
(***************************************************************************)
(* The synchronisation of one tenant's skills (service/skill) with the     *)
(* global ones, which skills.Extract writes anew whenever the process      *)
(* starts.  A skill is a directory with SKILL.md and the rest of its       *)
(* files; a copy is marked as one by a .state file with the hash of the    *)
(* SKILL.md it was made from.  Contents are versions, 0 if missing.        *)
(***************************************************************************)
EXTENDS Naturals, FiniteSets

CONSTANTS
  Name,         \* of skills
  Owned,        \* skills the tenant made itself
  MaxVersion,   \* bounds the releases of the program
  MaxErrors,   \* bounds crashes and failing calls of the file system
  MaxChanges,   \* bounds the changes of the tenant's allowed_skills
  Absent        \* no file, no directory

ASSUME SkillsAssumption ==
  /\ Owned \subseteq Name
  /\ MaxVersion \in Nat \ {0} /\ MaxErrors \in Nat /\ MaxChanges \in Nat
  /\ Absent \notin Nat
  /\ Absent \notin [md : Nat, rest : Nat, state : Nat \cup {Absent}]

VARIABLES
  release,   \* the version of the program
  globals,   \* skills_dir: the names in it
  allowed,   \* table tenants: allowed_skills
  dir,       \* the tenant's directory: Absent, or the files of a skill
  fresh,     \* the last sync is not older than the TTL
  sync,      \* the sync under way
  errors, changes

skillVars == <<release, globals, allowed, dir, fresh, sync, errors, changes>>

NoSync == [pc |-> "idle"]

Empty == [md |-> 0, rest |-> 0, state |-> Absent]

SkillsInit ==
  /\ release = 1
  /\ globals \in SUBSET Name
  /\ allowed = {}
  /\ dir = [n \in Name |-> IF n \in Owned THEN [md |-> 1, rest |-> 1, state |-> Absent] ELSE Absent]
  /\ fresh = FALSE
  /\ sync = NoSync
  /\ errors = 0
  /\ changes = 0

Error == errors < MaxErrors /\ errors' = errors + 1

\* The CLI writes the tenant.
TenantUpdate(names) ==
  /\ changes < MaxChanges
  /\ changes' = changes + 1
  /\ allowed' = names
  /\ UNCHANGED <<release, globals, dir, fresh, sync, errors>>

\* The hour is over.
Expire ==
  /\ fresh
  /\ fresh' = FALSE
  /\ UNCHANGED <<release, globals, allowed, dir, sync, errors, changes>>

\* The process starts again, at the same or the next release.
NewProcess(names) ==
  /\ Error
  /\ \/ release' = release /\ names = globals
     \/ release < MaxVersion /\ release' = release + 1
  /\ globals' = names
  /\ fresh' = FALSE
  /\ sync' = NoSync
  /\ UNCHANGED <<allowed, dir, changes>>

-----------------------------------------------------------------------------
(* syncTenant.                                                             *)

\* One sync of a tenant at a time.
EnsureSync ==
  /\ sync.pc = "idle"
  /\ ~fresh
  /\ sync' = [pc |-> "load", wanted |-> {}, todo |-> {}, name |-> Absent, failed |-> FALSE]
  /\ UNCHANGED <<release, globals, allowed, dir, fresh, errors, changes>>

\* The tenant, or the global skills, cannot be read: the sync is over, and the
\* next one comes when the TTL is over.
LoadFails ==
  /\ sync.pc = "load"
  /\ Error
  /\ sync' = [sync EXCEPT !.pc = "end", !.failed = TRUE]
  /\ UNCHANGED <<release, globals, allowed, dir, fresh, changes>>

\* No list allows all.
Load ==
  /\ sync.pc = "load"
  /\ LET wanted == IF allowed = {} THEN globals ELSE globals \cap allowed IN
     sync' = [sync EXCEPT !.pc = "next", !.wanted = wanted, !.todo = wanted]
  /\ UNCHANGED <<release, globals, allowed, dir, fresh, errors, changes>>

\* Mutants: what is not there under this hash is a copy to be renewed.
KindOwnless(n) ==
  IF dir[n] = Absent THEN "missing"
  ELSE IF dir[n].state = release THEN "current" ELSE "old"

Kind(n) ==
  IF dir[n] = Absent THEN "missing"
  ELSE IF dir[n].state = Absent THEN "owned"
  ELSE IF dir[n].state = release THEN "current" ELSE "old"

\* What is up to date or the tenant's own is left alone.
Look(n) ==
  /\ sync.pc = "next"
  /\ n \in sync.todo
  /\ sync' = [sync EXCEPT !.todo = @ \ {n}, !.name = n,
       !.pc = CASE Kind(n) = "missing" -> "copy" [] Kind(n) = "old" -> "remove" [] OTHER -> "next"]
  /\ UNCHANGED <<release, globals, allowed, dir, fresh, errors, changes>>

\* RemoveAll, which may fail after any of the files.
Without(n) ==
  {[md |-> m, rest |-> r, state |-> s] :
     m \in {0, dir[n].md}, r \in {0, dir[n].rest}, s \in {Absent, dir[n].state}}

RemoveOld ==
  /\ sync.pc = "remove"
  /\ dir' = [dir EXCEPT ![sync.name] = Absent]
  /\ sync' = [sync EXCEPT !.pc = "copy"]
  /\ UNCHANGED <<release, globals, allowed, fresh, errors, changes>>

RemoveFails ==
  /\ sync.pc = "remove"
  /\ Error
  /\ \E d \in Without(sync.name) : dir' = [dir EXCEPT ![sync.name] = d]
  /\ sync' = [sync EXCEPT !.pc = "next", !.failed = TRUE]
  /\ UNCHANGED <<release, globals, allowed, fresh, changes>>

\* copyDir and writeState: the directory, then file by file.
Order == [copy |-> "made", made |-> "md", md |-> "rest", rest |-> "state", state |-> "next"]

Write(d, file) == IF file \in {"md", "rest", "state"} THEN [d EXCEPT ![file] = release] ELSE d

Copy ==
  /\ sync.pc \in DOMAIN Order
  /\ LET d == IF dir[sync.name] = Absent THEN Empty ELSE dir[sync.name] IN
     dir' = [dir EXCEPT ![sync.name] = Write(d, Order[sync.pc])]
  /\ sync' = [sync EXCEPT !.pc = Order[sync.pc]]
  /\ UNCHANGED <<release, globals, allowed, fresh, errors, changes>>

CopyFails ==
  /\ sync.pc \in {"copy", "made", "md", "rest"}
  /\ Error
  /\ sync' = [sync EXCEPT !.pc = "next", !.failed = TRUE]
  /\ UNCHANGED <<release, globals, allowed, dir, fresh, changes>>

\* The second pass, over the directories that are there now.  Mutant: it asks
\* for the tenant's list only.
SurplusByList == {n \in Name : dir[n] # Absent /\ dir[n].state # Absent /\ allowed # {} /\ n \notin allowed}

Surplus == {n \in Name : dir[n] # Absent /\ dir[n].state # Absent /\ n \notin sync.wanted}

CleanUp ==
  /\ sync.pc = "next"
  /\ sync.todo = {}
  /\ sync' = [sync EXCEPT !.pc = "clean", !.todo = Surplus]
  /\ UNCHANGED <<release, globals, allowed, dir, fresh, errors, changes>>

\* The directory cannot be listed: no second pass.
CleanUpFails ==
  /\ sync.pc = "next"
  /\ sync.todo = {}
  /\ Error
  /\ sync' = [sync EXCEPT !.pc = "end", !.failed = TRUE]
  /\ UNCHANGED <<release, globals, allowed, dir, fresh, changes>>

CleanUpOne(n) ==
  /\ sync.pc = "clean"
  /\ n \in sync.todo
  /\ \/ /\ dir' = [dir EXCEPT ![n] = Absent]
        /\ sync' = [sync EXCEPT !.todo = @ \ {n}]
        /\ UNCHANGED errors
     \/ /\ Error
        /\ \E d \in Without(n) : dir' = [dir EXCEPT ![n] = d]
        /\ sync' = [sync EXCEPT !.todo = @ \ {n}, !.failed = TRUE]
  /\ UNCHANGED <<release, globals, allowed, fresh, changes>>

CleanUpEnds ==
  /\ sync.pc = "clean"
  /\ sync.todo = {}
  /\ sync' = [sync EXCEPT !.pc = "end"]
  /\ UNCHANGED <<release, globals, allowed, dir, fresh, errors, changes>>

\* lastSync is set whether it failed or not.
SyncEnds ==
  /\ sync.pc = "end"
  /\ fresh' = TRUE
  /\ sync' = NoSync
  /\ UNCHANGED <<release, globals, allowed, dir, errors, changes>>

-----------------------------------------------------------------------------
SkillsNext ==
  \/ \E names \in SUBSET Name : TenantUpdate(names) \/ NewProcess(names)
  \/ Expire \/ EnsureSync \/ Load \/ LoadFails
  \/ \E n \in Name : Look(n) \/ CleanUpOne(n)
  \/ RemoveOld \/ RemoveFails \/ Copy \/ CopyFails
  \/ CleanUp \/ CleanUpFails \/ CleanUpEnds \/ SyncEnds

SkillsSpec == SkillsInit /\ [][SkillsNext]_skillVars

-----------------------------------------------------------------------------
\* The directory of a skill, with files of the releases so far.
SkillRow == [md : 0..release, rest : 0..release, state : 1..release \cup {Absent}]

SyncRow ==
  [pc : {"load", "next", "remove", "copy", "made", "md", "rest", "state", "clean", "end"},
   wanted : SUBSET Name, todo : SUBSET Name, name : Name \cup {Absent}, failed : BOOLEAN]

\* Every variable has its type, and no file is of a release to come.
SkillsTypeOK ==
  /\ release \in 1..MaxVersion
  /\ globals \subseteq Name /\ allowed \subseteq Name
  /\ dir \in [Name -> SkillRow \cup {Absent}]
  /\ fresh \in BOOLEAN
  /\ sync \in {NoSync} \cup SyncRow
  /\ errors \in 0..MaxErrors /\ changes \in 0..MaxChanges

\* No sync touches what the tenant made itself, also under the name of a
\* global skill, allowed or not.
OwnedUntouched ==
  \A n \in Owned : dir[n] = [md |-> 1, rest |-> 1, state |-> Absent]

\* After a sync that met no error the tenant has no copy of a skill that was
\* not allowed, or not global any more, when it read both.
DisallowedIsGone ==
  sync.pc = "end" /\ ~sync.failed =>
    \A n \in Name : dir[n] # Absent /\ dir[n].state # Absent => n \in sync.wanted

\* A sync, however it is interrupted and whatever the tenant or the release
\* change under it, touches copies only, and none too few of them.
SyncKeepsToCopies == OwnedUntouched /\ DisallowedIsGone

\* Violated: a copy that a sync takes for up to date is one.  A clean-up that
\* failed half way leaves the mark on what it left, and once the skill is
\* allowed again the hash of the mark is that of the global skill.
CurrentIsComplete ==
  \A n \in Name : dir[n] # Absent /\ dir[n].state = release => dir[n].md = release /\ dir[n].rest = release

\* Violated: after such a sync the tenant has the allowed skills.  A copy that
\* was interrupted has no mark, and is taken for the tenant's own ever after.
AllowedIsThere ==
  sync.pc = "end" /\ ~sync.failed =>
    \A n \in sync.wanted \ Owned : dir[n] # Absent /\ dir[n].md = release /\ dir[n].rest = release
=============================================================================
