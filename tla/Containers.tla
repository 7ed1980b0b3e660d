----------------------------- MODULE Containers -----------------------------
(***************************************************************************)
(* The Docker sandbox (pkg/plugins/sandbox/docker): the pool of one        *)
(* container per user, with ensure, exec, release and the idle sweep, the  *)
(* service containers beside it, and Start and Stop of the plugin, over a  *)
(* Docker daemon that outlives the process.                                *)
(*                                                                         *)
(* Turns of the agent loop (Turn) use the pool; two turns of one user run  *)
(* at the same time when the user writes in two chats.  Every call of the  *)
(* daemon is a step and may fail.  Containers have numbers, and 0 stands   *)
(* for none.                                                               *)
(***************************************************************************)
EXTENDS Naturals, FiniteSets, FiniteSetsExt

CONSTANTS
  User,
  Turn,        \* sessions of users, each one turn after the other
  UserOf,      \* whose session it is
  BindsOf,     \* the mounts its turns ask for: those of its conversation
  NameOf,      \* container name of a user: the first eight letters of the ID
  Service,     \* sidecar services
  MaxBoxes,    \* bounds the containers ever created
  MaxLife,     \* bounds the runs of the process
  Refusing,    \* whether the daemon may refuse to stop and remove a container
  None

ASSUME ContainersAssumption ==
  /\ IsFiniteSet(Turn)
  /\ UserOf \in [Turn -> User]
  /\ None \notin User \cup Service
  /\ User \cap Service = {}
  /\ MaxBoxes \in Nat
  /\ MaxLife \in Nat
  /\ Refusing \in BOOLEAN

Box == 1..MaxBoxes
Releaser == {"sweep", "stop"}

VARIABLES
  box,         \* daemon: state, label (user or service), name and mounts of each container
  containers,  \* pool: the container of each user
  idle,        \* pool: containers whose last use is longer ago than the idle timeout
  active,      \* pool: execs in progress per container
  turn,        \* what each turn is about to do, and the container it knows
  releasing,   \* the release under way in the sweep and in stopAll
  sweep,       \* users the sweep still has to look at; history: the turns that
               \* took the container from the pool too late to be counted
  plugin,      \* where Start and Stop are, and what they have left to do
  life         \* the current run of the process

pool == <<containers, idle, active>>
vars == <<box, pool, turn, releasing, sweep, plugin, life>>

NoBox == [state |-> "none", label |-> None, name |-> None, binds |-> None]
AtRest == [pc |-> "rest", box |-> 0]
SweepOff == [pc |-> "off", todo |-> {}, late |-> {}]

Exists(c) == box[c].state \in {"created", "running", "exited"}
Running(c) == box[c].state = "running"
Boxes(l) == {c \in Box : Exists(c) /\ box[c].label = l}
Taken(name) == \E c \in Box : Exists(c) /\ box[c].name = name
Fresh == {c \in Box : box[c].state = "none" /\ \A d \in 1..(c - 1) : box[d].state # "none"}

ContainersInit ==
  /\ box = [c \in Box |-> NoBox]
  /\ containers = [u \in User |-> 0]
  /\ idle = {}
  /\ active = [c \in Box |-> 0]
  /\ turn = [t \in Turn |-> AtRest]
  /\ releasing = [r \in Releaser |-> AtRest]
  /\ sweep = SweepOff
  /\ plugin = [pc |-> "services", todo |-> Service]
  /\ life = 1

-----------------------------------------------------------------------------
(* What the daemon does, or does not, when it is asked.                    *)

Gone == [state |-> "gone", label |-> None, name |-> None, binds |-> None]

\* All of C are asked to stop and then to go.  The errors of both calls are
\* ignored, and a container that is stopped but not removed keeps its name.
Destroyed(C) ==
  \E kept \in IF Refusing THEN SUBSET C ELSE {{}}, exited \in SUBSET C :
    box' = [c \in Box |->
              IF c \in C \ kept THEN IF Exists(c) THEN Gone ELSE box[c]
              ELSE IF c \in exited /\ Running(c) THEN [box[c] EXCEPT !.state = "exited"]
              ELSE box[c]]

-----------------------------------------------------------------------------
(* ensure, for a turn.                                                     *)

Go(t, from, to) ==
  /\ turn[t].pc = from
  /\ turn' = [turn EXCEPT ![t].pc = to]

\* The plugin has no pool before Start and keeps it after Stop.
Load(t) ==
  LET c == containers[UserOf[t]]
  IN /\ turn[t].pc = "rest"
     /\ plugin.pc \in {"ready", "stopping", "stopped"}
     /\ turn' = [turn EXCEPT ![t] = [pc |-> IF c = 0 THEN "create" ELSE "inspect", box |-> c]]
     /\ UNCHANGED <<box, pool, releasing, sweep, plugin, life>>

\* The mounts of this conversation, in any order.
BindsMatch(c, t) == box[c].binds = BindsOf[t]

\* Running, and with the right mounts: keep it.
Reuse(t) ==
  LET c == turn[t].box
  IN /\ Go(t, "inspect", "ready")
     /\ Running(c)
     /\ BindsMatch(c, t)
     /\ idle' = idle \ {c}
     /\ UNCHANGED <<box, containers, active, releasing, sweep, plugin, life>>

\* Not running, other mounts, or no answer: replace it.
Replace(t) ==
  /\ Go(t, "inspect", "destroy")
  /\ UNCHANGED <<box, pool, releasing, sweep, plugin, life>>

DestroyOld(t) ==
  /\ Go(t, "destroy", "delete")
  /\ Destroyed({turn[t].box})
  /\ UNCHANGED <<pool, releasing, sweep, plugin, life>>

DeleteOld(t) ==
  /\ Go(t, "delete", "create")
  /\ containers' = [containers EXCEPT ![UserOf[t]] = 0]
  /\ UNCHANGED <<box, idle, active, releasing, sweep, plugin, life>>

NewBox(c, label, name, binds) ==
  box' = [box EXCEPT ![c] = [state |-> "created", label |-> label, name |-> name, binds |-> binds]]

\* Mutant: the conversation is part of the name.
CreatePerChat(t) ==
  \E c \in Fresh :
    /\ turn[t].pc = "create"
    /\ ~Taken(<<NameOf[UserOf[t]], BindsOf[t]>>)
    /\ NewBox(c, UserOf[t], <<NameOf[UserOf[t]], BindsOf[t]>>, BindsOf[t])
    /\ turn' = [turn EXCEPT ![t] = [pc |-> "start", box |-> c]]
    /\ UNCHANGED <<pool, releasing, sweep, plugin, life>>

Create(t) ==
  \E c \in Fresh :
    /\ turn[t].pc = "create"
    /\ ~Taken(NameOf[UserOf[t]])
    /\ NewBox(c, UserOf[t], NameOf[UserOf[t]], BindsOf[t])
    /\ turn' = [turn EXCEPT ![t] = [pc |-> "start", box |-> c]]
    /\ UNCHANGED <<pool, releasing, sweep, plugin, life>>

\* A name that is taken is no error to the client (checkStatus), which then
\* starts and removes a container without an ID: both fail.
CreateFails(t) ==
  /\ turn[t].pc = "create"
  /\ turn' = [turn EXCEPT ![t] = AtRest]
  /\ UNCHANGED <<box, pool, releasing, sweep, plugin, life>>

Start(t) ==
  /\ Go(t, "start", "store")
  /\ box[turn[t].box].state = "created"
  /\ box' = [box EXCEPT ![turn[t].box].state = "running"]
  /\ UNCHANGED <<pool, releasing, sweep, plugin, life>>

\* What was created is removed again.
StartFails(t) ==
  /\ turn[t].pc = "start"
  /\ Destroyed({turn[t].box})
  /\ turn' = [turn EXCEPT ![t] = AtRest]
  /\ UNCHANGED <<pool, releasing, sweep, plugin, life>>

Store(t) ==
  /\ Go(t, "store", "ready")
  /\ containers' = [containers EXCEPT ![UserOf[t]] = turn[t].box]
  /\ UNCHANGED <<box, idle, active, releasing, sweep, plugin, life>>

Ensure(t) ==
  \/ Load(t) \/ Reuse(t) \/ Replace(t) \/ DestroyOld(t) \/ DeleteOld(t)
  \/ Create(t) \/ CreateFails(t) \/ Start(t) \/ StartFails(t) \/ Store(t)

-----------------------------------------------------------------------------
(* exec, for a turn that has ensured its container.                        *)

\* The pool may have no container for the user any more.  The sweep that is about
\* to release it has looked already.
ExecLoad(t) ==
  /\ turn[t].pc = "ready"
  /\ containers[UserOf[t]] # 0
  /\ turn' = [turn EXCEPT ![t] = [pc |-> "enter", box |-> containers[UserOf[t]]]]
  /\ sweep' = IF sweep.pc = "release" /\ sweep.user = UserOf[t]
                THEN [sweep EXCEPT !.late = @ \cup {t}] ELSE sweep
  /\ UNCHANGED <<box, pool, releasing, plugin, life>>

ExecEnter(t) ==
  /\ Go(t, "enter", "exec")
  /\ active' = [active EXCEPT ![turn[t].box] = @ + 1]
  /\ UNCHANGED <<box, containers, idle, releasing, sweep, plugin, life>>

\* The command ran, was killed with its container, timed out, or never began.
ExecLeave(t) ==
  /\ Go(t, "exec", "ready")
  /\ active' = [active EXCEPT ![turn[t].box] = @ - 1]
  /\ idle' = idle \ {turn[t].box}
  /\ sweep' = [sweep EXCEPT !.late = @ \ {t}]
  /\ UNCHANGED <<box, containers, releasing, plugin, life>>

TurnEnds(t) ==
  /\ turn[t].pc = "ready"
  /\ turn' = [turn EXCEPT ![t] = AtRest]
  /\ UNCHANGED <<box, pool, releasing, sweep, plugin, life>>

Exec(t) == ExecLoad(t) \/ ExecEnter(t) \/ ExecLeave(t) \/ TurnEnds(t)

-----------------------------------------------------------------------------
(* release: LoadAndDelete, stop, remove.                                   *)

Release(r, u) ==
  /\ releasing[r].pc = "rest"
  /\ containers' = [containers EXCEPT ![u] = 0]
  /\ releasing' = IF containers[u] = 0 THEN releasing
                  ELSE [releasing EXCEPT ![r] = [pc |-> "destroy", box |-> containers[u]]]

ReleaseDestroy(r) ==
  /\ releasing[r].pc = "destroy"
  /\ Destroyed({releasing[r].box})
  /\ releasing' = [releasing EXCEPT ![r] = AtRest]
  /\ UNCHANGED <<pool, turn, sweep, plugin, life>>

-----------------------------------------------------------------------------
(* sweepOnce.                                                              *)

SweepTick ==
  /\ sweep.pc = "wait"
  /\ plugin.pc = "ready"
  /\ sweep' = [sweep EXCEPT !.pc = "range", !.todo = {u \in User : containers[u] # 0}]
  /\ UNCHANGED <<box, pool, turn, releasing, plugin, life>>

\* Mutant: execs in progress are not looked at.
UnusedIdle(c) == c \in idle

Unused(c) == active[c] = 0 /\ c \in idle

\* The entry is looked at here and loaded again by release.
SweepCheck(u) ==
  /\ sweep.pc = "range"
  /\ u \in sweep.todo
  /\ releasing["sweep"].pc = "rest"
  /\ sweep' = IF containers[u] # 0 /\ Unused(containers[u])
                THEN [pc |-> "release", todo |-> sweep.todo, user |-> u,
                      late |-> {t \in Turn : turn[t].pc = "enter" /\ turn[t].box = containers[u]}]
                ELSE [sweep EXCEPT !.todo = @ \ {u}]
  /\ UNCHANGED <<box, pool, turn, releasing, plugin, life>>

SweepRelease ==
  /\ sweep.pc = "release"
  /\ Release("sweep", sweep.user)
  /\ sweep' = [pc |-> "range", todo |-> sweep.todo \ {sweep.user}, late |-> sweep.late]
  /\ UNCHANGED <<box, idle, active, turn, plugin, life>>

SweepEnds ==
  /\ sweep.pc = "range"
  /\ sweep.todo = {}
  /\ releasing["sweep"].pc = "rest"
  /\ sweep' = [SweepOff EXCEPT !.pc = "wait"]
  /\ UNCHANGED <<box, pool, turn, releasing, plugin, life>>

\* A container has not been used for the idle timeout.
Ages(c) ==
  /\ \E u \in User : containers[u] = c
  /\ idle' = idle \cup {c}
  /\ UNCHANGED <<box, containers, active, turn, releasing, sweep, plugin, life>>

Sweep == SweepTick \/ (\E u \in User : SweepCheck(u)) \/ SweepRelease \/ SweepEnds

-----------------------------------------------------------------------------
(* Start and Stop of the plugin.                                           *)

\* buildServiceRequest: the label tells it from the containers of users.
ServiceBox(s) == [state |-> "running", label |-> s, name |-> s, binds |-> None]

\* startServices, for one service: stale containers go, and a new one comes up
\* and is healthy.
StartService(s) ==
  \E c \in Fresh :
    /\ plugin.pc = "services"
    /\ s \in plugin.todo
    /\ box' = [d \in Box |->
                 IF d = c THEN ServiceBox(s)
                 ELSE IF d \in Boxes(s) THEN Gone
                 ELSE box[d]]
    /\ plugin' = [plugin EXCEPT !.todo = @ \ {s}]
    /\ UNCHANGED <<pool, turn, releasing, sweep, life>>

\* A pull, the removal of a stale container (whose name is then taken), a
\* create, a start or a health check fails: the services started so far are
\* stopped, Start fails, and the process ends.
ServiceFails(s) ==
  /\ plugin.pc = "services"
  /\ s \in plugin.todo
  /\ Destroyed(UNION {Boxes(x) : x \in (Service \ plugin.todo) \cup {s}})
  /\ plugin' = [pc |-> "failed", todo |-> {}]
  /\ UNCHANGED <<pool, turn, releasing, sweep, life>>

Managed == {c \in Box : Exists(c)}

Orphans == {c \in Managed : box[c].label \notin Service}

\* cleanOrphans, and its list fails or not.
CleanOrphans ==
  /\ plugin.pc = "services"
  /\ plugin.todo = {}
  /\ Destroyed(Orphans) \/ (Refusing /\ UNCHANGED box)
  /\ plugin' = [plugin EXCEPT !.pc = "rebuild"]
  /\ UNCHANGED <<pool, turn, releasing, sweep, life>>

\* Mutant: whatever carries the label of the user is adopted.
AdoptableAny(u) == Boxes(u)

Adoptable(u) == {c \in Boxes(u) : Running(c)}

\* The plugin starts, whatever came of the list.
Ready ==
  /\ plugin.pc = "rebuild"
  /\ plugin' = [plugin EXCEPT !.pc = "ready"]
  /\ sweep' = [sweep EXCEPT !.pc = "wait"]
  /\ UNCHANGED <<box, idle, active, turn, releasing, life>>

\* rebuildFromLabels: of several containers of a user the last one counts.
Rebuild ==
  \E choice \in [User -> Box \cup {0}] :
    /\ \A u \in User : choice[u] \in IF Adoptable(u) = {} THEN {0} ELSE Adoptable(u)
    /\ containers' = choice
    /\ Ready

RebuildFails ==
  /\ Refusing
  /\ UNCHANGED containers
  /\ Ready

\* The loop has drained, or the deadline of the shutdown is over: turns may
\* still be running.  The sweep loop ends after the sweep under way.
Stop ==
  /\ plugin.pc = "ready"
  /\ plugin' = [pc |-> "stopping", todo |-> {u \in User : containers[u] # 0}]
  /\ UNCHANGED <<box, pool, turn, releasing, sweep, life>>

StopAll(u) ==
  /\ plugin.pc = "stopping"
  /\ u \in plugin.todo
  /\ Release("stop", u)
  /\ plugin' = [plugin EXCEPT !.todo = @ \ {u}]
  /\ UNCHANGED <<box, idle, active, turn, sweep, life>>

StopServices ==
  /\ plugin.pc = "stopping"
  /\ plugin.todo = {}
  /\ releasing["stop"].pc = "rest"
  /\ Destroyed(UNION {Boxes(s) : s \in Service})
  /\ plugin' = [plugin EXCEPT !.pc = "stopped"]
  /\ UNCHANGED <<pool, turn, releasing, sweep, life>>

\* The process ends, orderly or not, and is started again; the daemon keeps
\* its containers.
Restart ==
  /\ life < MaxLife
  /\ life' = life + 1
  /\ containers' = [u \in User |-> 0]
  /\ idle' = {}
  /\ active' = [c \in Box |-> 0]
  /\ turn' = [t \in Turn |-> AtRest]
  /\ releasing' = [r \in Releaser |-> AtRest]
  /\ sweep' = SweepOff
  /\ plugin' = [pc |-> "services", todo |-> Service]
  /\ UNCHANGED box

Lifecycle ==
  \/ \E s \in Service : StartService(s) \/ ServiceFails(s)
  \/ CleanOrphans \/ Rebuild \/ RebuildFails
  \/ Stop \/ (\E u \in User : StopAll(u)) \/ StopServices \/ Restart

ContainersNext ==
  \/ \E t \in Turn : Ensure(t) \/ Exec(t)
  \/ \E r \in Releaser : ReleaseDestroy(r)
  \/ \E c \in Box : Ages(c)
  \/ Sweep
  \/ Lifecycle

ContainersSpec == ContainersInit /\ [][ContainersNext]_vars

-----------------------------------------------------------------------------
(* Properties.                                                             *)

\* What the daemon knows of a container, a turn of the pool, and the sweep of
\* itself; while it releases a container it knows whose.
BoxRow == [state : {"none", "created", "running", "exited", "gone"},
           label : User \cup Service \cup {None},
           name : {NameOf[u] : u \in User} \cup Service \cup {None},
           binds : {BindsOf[t] : t \in Turn} \cup {None}]
TurnRow == [pc : {"rest", "inspect", "destroy", "delete", "create", "start", "store",
                  "ready", "enter", "exec"},
            box : Box \cup {0}]
ReleaseRow == [pc : {"rest", "destroy"}, box : Box \cup {0}]
SweepRow ==
  [pc : {"off", "wait", "range"}, todo : SUBSET User, late : SUBSET Turn] \cup
  [pc : {"release"}, todo : SUBSET User, user : User, late : SUBSET Turn]
PluginRow == [pc : {"services", "failed", "rebuild", "ready", "stopping", "stopped"},
              todo : SUBSET (User \cup Service)]

\* Every variable has its type.
ContainersTypeOK ==
  /\ box \in [Box -> BoxRow]
  /\ containers \in [User -> Box \cup {0}]
  /\ idle \subseteq Box
  /\ active \in [Box -> Nat]
  /\ turn \in [Turn -> TurnRow]
  /\ releasing \in [Releaser -> ReleaseRow]
  /\ sweep \in SweepRow
  /\ plugin \in PluginRow
  /\ life \in Nat

\* Two containers of one user never run at once, although two of its turns may
\* find none at the same time, and the process may have died and left one: the
\* name belongs to one of them (pool.go:200).
OneBoxPerUser ==
  \A c, d \in Box :
    Running(c) /\ Running(d) /\ box[c].label = box[d].label => c = d

\* The count that keeps the sweep away from a container is that of the execs in
\* it, although the container may be replaced under them: one too many and it is
\* never released, one too few and it is released under a command (pool.go:292).
ExecsCounted ==
  \A c \in Box : active[c] = Cardinality({t \in Turn : turn[t].pc = "exec" /\ turn[t].box = c})

\* The commands that run in a container the sweep removes all took it from the
\* pool before it was released and were not counted yet when the sweep looked:
\* none that was counted is met, although the entry that is released may be
\* another than the one looked at, and turns replace containers meanwhile
\* (pool.go:395, pool.go:399).
Swept(t) ==
  releasing["sweep"].pc = "destroy" /\ turn[t].pc = "exec" /\ turn[t].box = releasing["sweep"].box

SweepSparesExecs == \A t \in Turn : Swept(t) => t \in sweep.late

\* The clean-up of orphans at start comes after the services have started and
\* removes everything that is managed but a service (pool.go:425): they run when
\* the plugin is ready.
ServicesRun ==
  plugin.pc \in {"rebuild", "ready"} => \A s \in Service : \E c \in Boxes(s) : Running(c)

\* After a start for which the daemon listed its containers the pool is what the
\* daemon has: every container of a user that runs is in the pool, and every
\* container in the pool runs (rebuildFromLabels), whatever the life before left.
StartReconciles ==
  [][Rebuild =>
       \A c \in Box :
         Running(c) /\ box[c].label \in User <=> \E u \in User : containers'[u] = c]_vars

\* "sweep should not stop container with active execs" (pool_test.go:448).
NoExecSwept == \A t \in Turn : ~Swept(t)

\* "EnsureWithMounts creates or reuses a sandbox": no container is lost, that is,
\* runs under the name of its user while neither the pool nor anybody at work on
\* it knows it.
HandledBy(c) ==
  \/ \E t \in Turn : turn[t].box = c /\ turn[t].pc \in {"destroy", "start", "store"}
  \/ \E r \in Releaser : releasing[r].box = c

NoBoxLost ==
  \A c \in Box :
    Running(c) /\ box[c].label \in User /\ plugin.pc = "ready" =>
      containers[box[c].label] = c \/ HandledBy(c)
=============================================================================
