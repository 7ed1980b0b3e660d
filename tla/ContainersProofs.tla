-------------------------- MODULE ContainersProofs --------------------------
(***************************************************************************)
(* Proofs about Containers, for any users, turns, services and number of   *)
(* containers: a user's containers never run side by side, the sweep takes *)
(* a container only from commands it could not count, the pool is what the *)
(* daemon has after a start, and services keep running.                    *)
(***************************************************************************)
EXTENDS Containers, FiniteSetTheorems, TLAPS

\* The label of a container says whose it is, and a user's goes with his name;
\* what does not exist has no label.
LabelInv ==
  \A c \in Box :
    IF Exists(c)
      THEN /\ box[c].label \in User \cup Service
           /\ box[c].label \in User => box[c].name = NameOf[box[c].label]
      ELSE box[c].label = None

\* One container of each label exists.
UniqueInv ==
  \A c, d \in Box : Exists(c) /\ Exists(d) /\ box[c].label = box[d].label => c = d

\* Containers that the process knows for users'.
Held(c) ==
  \/ \E u \in User : containers[u] = c
  \/ \E t \in Turn : turn[t].box = c
  \/ \E r \in Releaser : releasing[r].box = c

\* They were created, and none is that of a service.
HeldInv == \A c \in Box : Held(c) => box[c].state # "none" /\ box[c].label \notin Service

Making(t) == turn[t].pc \in {"start", "store"}

\* Whoever works on a container knows which.
WorkInv ==
  /\ \A t \in Turn :
       turn[t].pc \in {"inspect", "destroy", "delete", "start", "store", "enter", "exec"}
         => turn[t].box # 0
  /\ \A r \in Releaser : releasing[r].pc = "destroy" => releasing[r].box # 0

\* A container in the making is known to the turn that makes it alone.
MakingInv ==
  \A t \in Turn : Making(t) =>
    /\ \A u \in User : containers[u] # turn[t].box
    /\ \A o \in Turn \ {t} : turn[o].box # turn[t].box
    /\ \A r \in Releaser : releasing[r].box # turn[t].box

\* A container is in the pool once, and not while it is being released.
PoolInv ==
  /\ \A u, v \in User : containers[u] # 0 /\ containers[u] = containers[v] => u = v
  /\ \A r \in Releaser : releasing[r].pc = "destroy" =>
       \A u \in User : containers[u] # releasing[r].box

\* The turns that took c from the pool to run a command in it.
Inside(c) == {t \in Turn : turn[t].pc \in {"enter", "exec"} /\ turn[t].box = c}

Execs(c) == {t \in Turn : turn[t].pc = "exec" /\ turn[t].box = c}

\* Before the plugin is ready nothing uses the pool.
EarlyInv ==
  plugin.pc \in {"services", "failed", "rebuild"} =>
    /\ turn = [t \in Turn |-> AtRest]
    /\ releasing = [r \in Releaser |-> AtRest]
    /\ containers = [u \in User |-> 0]
    /\ sweep = SweepOff

\* Whoever took the container the sweep is about to release, or releases, to run
\* a command in it, did so too late to be counted.
SweepInv ==
  /\ sweep.pc = "release" =>
       /\ releasing["sweep"].pc = "rest"
       /\ Inside(containers[sweep.user]) \subseteq sweep.late
  /\ releasing["sweep"].pc = "destroy" => Inside(releasing["sweep"].box) \subseteq sweep.late

Up(s) == \E c \in Boxes(s) : Running(c)

\* The services that were started run until the plugin stops.
ServiceInv ==
  /\ plugin.pc = "services" => plugin.todo \subseteq Service /\ \A s \in Service \ plugin.todo : Up(s)
  /\ plugin.pc = "stopping" => plugin.todo \subseteq User
  /\ ServicesRun

ContainersInv ==
  /\ ContainersTypeOK
  /\ LabelInv
  /\ UniqueInv
  /\ HeldInv
  /\ WorkInv
  /\ MakingInv
  /\ PoolInv
  /\ ExecsCounted
  /\ EarlyInv
  /\ SweepInv
  /\ ServiceInv

-----------------------------------------------------------------------------
(* Containers.                                                             *)

\* Whatever is destroyed, no container gets an owner or a name, runs, or comes
\* into being by it, and the others stay as they are.
LEMMA DestroyedBoxes ==
  ASSUME ContainersTypeOK, LabelInv, UniqueInv, NEW C, Destroyed(C)
  PROVE  /\ box' \in [Box -> BoxRow]
         /\ LabelInv' /\ UniqueInv'
         /\ \A c \in Box :
              /\ c \notin C => box'[c] = box[c]
              /\ box'[c].state = "none" <=> box[c].state = "none"
              /\ box'[c].label \in {box[c].label, None}
<1>1. PICK kept \in SUBSET C, exited \in SUBSET C :
        box' = [c \in Box |->
                 IF c \in C \ kept THEN IF Exists(c) THEN Gone ELSE box[c]
                 ELSE IF c \in exited /\ Running(c) THEN [box[c] EXCEPT !.state = "exited"]
                 ELSE box[c]]
  BY DEF Destroyed
<1>2. /\ Gone \in BoxRow /\ Gone.state = "gone" /\ Gone.label = None
      /\ \A c \in Box : box[c] \in BoxRow
  BY DEF Gone, BoxRow, ContainersTypeOK
<1>3. ASSUME NEW c \in Box
      PROVE  /\ [box[c] EXCEPT !.state = "exited"] \in BoxRow
             /\ [box[c] EXCEPT !.state = "exited"].state = "exited"
             /\ [box[c] EXCEPT !.state = "exited"].label = box[c].label
             /\ [box[c] EXCEPT !.state = "exited"].name = box[c].name
  BY <1>2 DEF BoxRow
<1> HIDE DEF Gone
<1>4. ASSUME NEW c \in Box
      PROVE  /\ box'[c] \in BoxRow
             /\ \/ box'[c] = box[c]
                \/ Exists(c) /\ box'[c] = Gone
                \/ /\ Exists(c) /\ box'[c].state = "exited"
                   /\ box'[c].label = box[c].label /\ box'[c].name = box[c].name
             /\ c \notin C => box'[c] = box[c]
  BY <1>1, <1>2, <1>3 DEF Exists, Running
<1>5. ASSUME NEW c \in Box
      PROVE  /\ Exists(c)' => Exists(c) /\ box'[c].label = box[c].label /\ box'[c].name = box[c].name
             /\ ~Exists(c)' => box'[c].label = None \/ (~Exists(c) /\ box'[c] = box[c])
             /\ box'[c].state = "none" <=> box[c].state = "none"
             /\ box'[c].label \in {box[c].label, None}
  BY <1>2, <1>4 DEF Exists
<1>6. box' \in [Box -> BoxRow]
  BY <1>1, <1>4
<1>7. LabelInv'
  BY <1>5 DEF LabelInv
<1>8. UniqueInv'
  BY <1>5 DEF UniqueInv
<1> QED
  BY <1>4, <1>5, <1>6, <1>7, <1>8

\* A user's container that is destroyed takes no service along.
LEMMA ServicesStay ==
  ASSUME HeldInv, NEW C,
         \A c \in Box : c \notin C => box'[c] = box[c],
         \A c \in C \cap Box : box[c].label \notin Service
  PROVE  \A s \in Service : Up(s) => Up(s)'
BY DEF Up, Boxes, Exists, Running

\* The containers the process knows stay those of users.
LEMMA HeldStay ==
  ASSUME ContainersInv,
         \A c \in Box : /\ box[c].state # "none" => box'[c].state # "none"
                        /\ box'[c].label \in {box[c].label, None},
         \A c \in Box : Held(c)' => Held(c)
  PROVE  HeldInv'
BY ContainersAssumption DEF ContainersInv, HeldInv

-----------------------------------------------------------------------------
(* Turns.                                                                  *)

\* Nobody but t knows the container; no other turn is making it.
Alone(t, c) ==
  /\ \A u \in User : containers[u] # c
  /\ \A o \in Turn \ {t} : turn[o].box # c
  /\ \A r \in Releaser : releasing[r].box # c
Spares(t, c) == \A o \in Turn \ {t} : Making(o) => turn[o].box # c

\* A turn goes on, neither to nor from a command, and the pool stays: the turns'
\* share of the invariant is kept.
LEMMA TurnMoves ==
  ASSUME ContainersInv, NEW t \in Turn, NEW r \in TurnRow,
         turn' = [turn EXCEPT ![t] = r],
         UNCHANGED <<containers, active, releasing, plugin>>,
         plugin.pc \notin {"services", "failed", "rebuild"},
         turn[t].pc # "exec", r.pc # "exec",
         r.pc \in {"inspect", "destroy", "delete", "start", "store", "enter"} => r.box # 0,
         Spares(t, r.box),
         r.pc \in {"start", "store"} => Alone(t, r.box)
  PROVE  /\ turn' \in [Turn -> TurnRow]
         /\ WorkInv' /\ MakingInv' /\ PoolInv' /\ ExecsCounted' /\ EarlyInv'
<1> USE DEF ContainersInv
<1>1. /\ turn' \in [Turn -> TurnRow] /\ turn'[t] = r
      /\ \A o \in Turn \ {t} : turn'[o] = turn[o]
  BY DEF ContainersTypeOK
<1>2. WorkInv'
  BY <1>1 DEF WorkInv
<1>3. MakingInv'
  BY <1>1 DEF MakingInv, Making, Alone, Spares
<1>4. ExecsCounted'
  <2>1. \A c \in Box : Execs(c)' = Execs(c)
    BY <1>1 DEF Execs
  <2> QED
    BY <2>1 DEF ExecsCounted, Execs
<1>5. EarlyInv' /\ PoolInv'
  BY DEF EarlyInv, PoolInv
<1> QED
  BY <1>1, <1>2, <1>3, <1>4, <1>5

\* Nothing the sweep does depends on turns that are not about to run a command.
LEMMA SweepStays ==
  ASSUME ContainersInv, NEW t \in Turn, NEW r \in TurnRow,
         turn' = [turn EXCEPT ![t] = r],
         UNCHANGED <<containers, releasing, sweep>>,
         turn[t].pc \notin {"enter", "exec"}, r.pc \notin {"enter", "exec"}
  PROVE  SweepInv'
<1>1. \A c : Inside(c)' = Inside(c)
  BY DEF Inside, ContainersInv, ContainersTypeOK
<1> QED
  BY <1>1 DEF ContainersInv, SweepInv

\* The containers the turn knows are those of users still.
LEMMA TurnHolds ==
  ASSUME ContainersInv, NEW t \in Turn, NEW r \in TurnRow,
         turn' = [turn EXCEPT ![t] = r],
         UNCHANGED <<containers, releasing>>,
         r.box # 0 => Held(r.box),
         \A c \in Box : /\ box[c].state # "none" => box'[c].state # "none"
                        /\ box'[c].label \in {box[c].label, None}
  PROVE  HeldInv'
<1>1. /\ turn'[t] = r
      /\ \A o \in Turn \ {t} : turn'[o] = turn[o]
  BY DEF ContainersInv, ContainersTypeOK
<1>2. ASSUME NEW c \in Box, Held(c)'
      PROVE  Held(c)
  <2>1. c # 0
    BY ContainersAssumption DEF Box
  <2> QED
    BY <1>1, <1>2, <2>1 DEF Held
<1> QED
  BY <1>2, HeldStay

\* The containers keep: what is said of them alone is kept.
LEMMA BoxesStay ==
  ASSUME ContainersInv, UNCHANGED <<box, plugin>>
  PROVE  /\ box' \in [Box -> BoxRow]
         /\ LabelInv' /\ UniqueInv' /\ ServiceInv'
         /\ \A c \in Box : /\ box[c].state # "none" => box'[c].state # "none"
                           /\ box'[c].label \in {box[c].label, None}
BY DEF ContainersInv, ContainersTypeOK, LabelInv, UniqueInv, ServiceInv, ServicesRun, Up, Boxes, Exists, Running

\* Somebody destroys containers of users.
LEMMA UsersBoxDestroyed ==
  ASSUME ContainersInv, NEW C, Destroyed(C), plugin' = plugin,
         \A c \in C \cap Box : box[c].label \notin Service
  PROVE  /\ box' \in [Box -> BoxRow]
         /\ LabelInv' /\ UniqueInv' /\ ServiceInv'
         /\ \A c \in Box : /\ box[c].state # "none" => box'[c].state # "none"
                           /\ box'[c].label \in {box[c].label, None}
<1>1. /\ box' \in [Box -> BoxRow]
      /\ LabelInv' /\ UniqueInv'
      /\ \A c \in Box :
           /\ c \notin C => box'[c] = box[c]
           /\ box'[c].state = "none" <=> box[c].state = "none"
           /\ box'[c].label \in {box[c].label, None}
  BY DestroyedBoxes DEF ContainersInv
<1>2. \A c \in Box : c \notin C => box'[c] = box[c]
  BY <1>1
<1>3. \A s \in Service : Up(s) => Up(s)'
  BY <1>2, ServicesStay DEF ContainersInv
<1>4. ServiceInv'
  BY <1>3 DEF ContainersInv, ServiceInv, ServicesRun, Up
<1>5. \A c \in Box : /\ box[c].state # "none" => box'[c].state # "none"
                   /\ box'[c].label \in {box[c].label, None}
  BY <1>1
<1> QED
  BY <1>1, <1>4, <1>5

\* The turn loads the entry of its user, keeps the container, or gives it up.
LEMMA LoadStep ==
  ASSUME ContainersInv, NEW t \in Turn, Load(t) \/ Reuse(t) \/ Replace(t) \/ CreateFails(t)
                                      \/ TurnEnds(t)
  PROVE  ContainersInv'
<1> USE DEF ContainersInv
<1>1. PICK r \in TurnRow :
        /\ turn' = [turn EXCEPT ![t] = r]
        /\ UNCHANGED <<box, containers, active, releasing, sweep, plugin, life>>
        /\ idle' \subseteq idle
        /\ r.box \in {0, turn[t].box, containers[UserOf[t]]}
        /\ r.pc \in {"rest", "inspect", "create", "ready", "destroy"}
        /\ r.pc \in {"inspect", "destroy"} => r.box # 0
        /\ turn[t].pc \in {"rest", "inspect", "create", "ready"}
        /\ turn[t].pc = "rest" => plugin.pc \notin {"services", "failed", "rebuild"}
  <2>1. /\ turn[t] \in TurnRow /\ containers[UserOf[t]] \in Box \cup {0}
        /\ turn[t] = [pc |-> turn[t].pc, box |-> turn[t].box]
    BY ContainersAssumption DEF ContainersTypeOK, TurnRow
  <2>2. \A p \in {"rest", "inspect", "create", "ready", "destroy"}, c \in Box \cup {0} :
          [pc |-> p, box |-> c] \in TurnRow
    BY DEF TurnRow
  <2>3. CASE Load(t)
    <3> DEFINE c == containers[UserOf[t]]
               r == [pc |-> IF c = 0 THEN "create" ELSE "inspect", box |-> c]
    <3>1. r \in TurnRow /\ r.box = c /\ r.pc = IF c = 0 THEN "create" ELSE "inspect"
      BY <2>1, <2>2
    <3> QED
      BY <2>1, <2>3, <3>1 DEF Load, pool
  <2>4. CASE Reuse(t)
    <3> DEFINE r == [pc |-> "ready", box |-> turn[t].box]
    <3>1. r \in TurnRow /\ [turn[t] EXCEPT !.pc = "ready"] = r
      BY <2>1 DEF TurnRow
    <3> QED
      BY <2>1, <2>4, <3>1 DEF Reuse, Go
  <2>5. CASE Replace(t)
    <3> DEFINE r == [pc |-> "destroy", box |-> turn[t].box]
    <3>1. r \in TurnRow /\ [turn[t] EXCEPT !.pc = "destroy"] = r
      BY <2>1 DEF TurnRow
    <3>2. turn[t].pc = "inspect" => turn[t].box # 0
      BY DEF WorkInv
    <3> QED
      BY <2>1, <2>5, <3>1, <3>2 DEF Replace, Go, pool
  <2>6. CASE CreateFails(t) \/ TurnEnds(t)
    <3>1. AtRest \in TurnRow /\ AtRest.box = 0 /\ AtRest.pc = "rest"
      BY <2>2 DEF AtRest
    <3> QED
      BY <2>1, <2>6, <3>1 DEF CreateFails, TurnEnds, pool
  <2> QED
    BY <2>3, <2>4, <2>5, <2>6
<1>2. plugin.pc \notin {"services", "failed", "rebuild"}
  BY <1>1 DEF EarlyInv, AtRest
<1>3. r.box # 0 => Held(r.box)
  BY <1>1, ContainersAssumption DEF Held
<1>4. Spares(t, r.box)
  BY <1>1, ContainersAssumption DEF MakingInv, WorkInv, Making, Spares
<1>5. /\ turn' \in [Turn -> TurnRow]
      /\ WorkInv' /\ MakingInv' /\ PoolInv' /\ ExecsCounted' /\ EarlyInv' /\ SweepInv'
  BY <1>1, <1>2, <1>4, TurnMoves, SweepStays
<1>6. /\ box' \in [Box -> BoxRow]
      /\ LabelInv' /\ UniqueInv' /\ ServiceInv'
      /\ \A c \in Box : /\ box[c].state # "none" => box'[c].state # "none"
                        /\ box'[c].label \in {box[c].label, None}
  BY <1>1, BoxesStay
<1>7. HeldInv'
  BY <1>1, <1>3, <1>6, TurnHolds
<1> QED
  BY <1>1, <1>5, <1>6, <1>7 DEF ContainersTypeOK

\* The turn destroys the container it replaces, or the one it failed to start.
LEMMA DestroyStep ==
  ASSUME ContainersInv, NEW t \in Turn, DestroyOld(t) \/ StartFails(t)
  PROVE  ContainersInv'
<1> USE DEF ContainersInv
<1>1. PICK r \in TurnRow :
        /\ turn' = [turn EXCEPT ![t] = r]
        /\ UNCHANGED <<containers, idle, active, releasing, sweep, plugin, life>>
        /\ Destroyed({turn[t].box})
        /\ r.box \in {0, turn[t].box}
        /\ r.pc \in {"rest", "delete"}
        /\ r.pc = "delete" => r.box # 0
        /\ turn[t].pc \in {"destroy", "start"}
        /\ turn[t].box # 0
  <2>1. /\ turn[t] \in TurnRow
        /\ turn[t] = [pc |-> turn[t].pc, box |-> turn[t].box]
        /\ turn[t].pc \in {"destroy", "start"} => turn[t].box # 0
    BY DEF ContainersTypeOK, TurnRow, WorkInv
  <2>2. CASE DestroyOld(t)
    <3> DEFINE r == [pc |-> "delete", box |-> turn[t].box]
    <3>1. r \in TurnRow /\ [turn[t] EXCEPT !.pc = "delete"] = r
      BY <2>1 DEF TurnRow
    <3> QED
      BY <2>1, <2>2, <3>1 DEF DestroyOld, Go, pool
  <2>3. CASE StartFails(t)
    <3>1. AtRest \in TurnRow /\ AtRest.box = 0 /\ AtRest.pc = "rest"
      BY DEF AtRest, TurnRow
    <3> QED
      BY <2>1, <2>3, <3>1 DEF StartFails, pool
  <2> QED
    BY <2>2, <2>3
<1>2. plugin.pc \notin {"services", "failed", "rebuild"}
  BY <1>1 DEF EarlyInv, AtRest
<1>3. r.box # 0 => Held(r.box)
  BY <1>1 DEF Held
<1>4. Spares(t, r.box)
  BY <1>1 DEF MakingInv, WorkInv, Making, Spares
<1>5. /\ turn' \in [Turn -> TurnRow]
      /\ WorkInv' /\ MakingInv' /\ PoolInv' /\ ExecsCounted' /\ EarlyInv' /\ SweepInv'
  BY <1>1, <1>2, <1>4, TurnMoves, SweepStays
<1>6. \A c \in {turn[t].box} \cap Box : box[c].label \notin Service
  BY DEF HeldInv, Held
<1>7. /\ box' \in [Box -> BoxRow]
      /\ LabelInv' /\ UniqueInv' /\ ServiceInv'
      /\ \A c \in Box : /\ box[c].state # "none" => box'[c].state # "none"
                        /\ box'[c].label \in {box[c].label, None}
  BY <1>1, <1>6, UsersBoxDestroyed
<1>8. HeldInv'
  BY <1>1, <1>3, <1>7, TurnHolds
<1> QED
  BY <1>1, <1>5, <1>7, <1>8 DEF ContainersTypeOK

\* A new container is nobody's yet, and its user has no other.
LEMMA CreateStep ==
  ASSUME ContainersInv, NEW t \in Turn, Create(t)
  PROVE  ContainersInv'
<1> USE DEF ContainersInv
<1>1. PICK c \in Fresh :
        /\ turn[t].pc = "create"
        /\ ~Taken(NameOf[UserOf[t]])
        /\ NewBox(c, UserOf[t], NameOf[UserOf[t]], BindsOf[t])
        /\ turn' = [turn EXCEPT ![t] = [pc |-> "start", box |-> c]]
        /\ UNCHANGED <<containers, idle, active, releasing, sweep, plugin, life>>
  BY DEF Create, pool
<1> DEFINE r == [pc |-> "start", box |-> c]
           b == [state |-> "created", label |-> UserOf[t], name |-> NameOf[UserOf[t]], binds |-> BindsOf[t]]
<1>2. /\ c \in Box /\ c # 0 /\ box[c].state = "none"
      /\ UserOf[t] \in User /\ UserOf[t] \notin Service /\ UserOf[t] # None
  BY ContainersAssumption DEF Fresh, Box
<1>3. r \in TurnRow /\ r.pc = "start" /\ r.box = c
  BY <1>2 DEF TurnRow
<1>4. /\ b \in BoxRow /\ b.state = "created" /\ b.label = UserOf[t]
      /\ b.name = NameOf[UserOf[t]]
  BY <1>2 DEF BoxRow
<1> HIDE DEF r, b
<1>5. /\ box' \in [Box -> BoxRow] /\ box'[c] = b
      /\ \A d \in Box \ {c} : box'[d] = box[d]
  BY <1>1, <1>2, <1>4 DEF NewBox, ContainersTypeOK, b
<1>6. /\ Exists(c)' /\ ~Exists(c)
      /\ \A d \in Box \ {c} : Exists(d)' <=> Exists(d)
  BY <1>2, <1>4, <1>5 DEF Exists
<1>7. LabelInv'
  BY <1>2, <1>4, <1>5, <1>6 DEF LabelInv
<1>8. UniqueInv'
  <2>1. \A d \in Box : Exists(d) => box[d].label # UserOf[t]
    BY <1>1, <1>2 DEF LabelInv, Taken
  <2> QED
    BY <1>4, <1>5, <1>6, <2>1 DEF UniqueInv
<1>9. ~Held(c)
  BY <1>2 DEF HeldInv
<1>10. turn' = [turn EXCEPT ![t] = r]
  BY <1>1 DEF r
<1>11. plugin.pc \notin {"services", "failed", "rebuild"}
  BY <1>1 DEF EarlyInv, AtRest
<1>12. /\ turn' \in [Turn -> TurnRow]
       /\ WorkInv' /\ MakingInv' /\ PoolInv' /\ ExecsCounted' /\ EarlyInv' /\ SweepInv'
  <2>1. /\ \A u \in User : containers[u] # c
        /\ \A o \in Turn : turn[o].box # c
        /\ \A q \in Releaser : releasing[q].box # c
    BY <1>9 DEF Held
  <2>2. Alone(t, r.box) /\ Spares(t, r.box)
    BY <1>3, <2>1 DEF Alone, Spares
  <2>3. turn[t].pc # "exec" /\ r.pc # "exec" /\ r.box # 0
    BY <1>1, <1>2, <1>3
  <2> QED
    BY <1>1, <1>3, <1>10, <1>11, <2>2, <2>3, TurnMoves, SweepStays
<1>13. HeldInv'
  <2>1. /\ turn'[t].box = c
        /\ \A o \in Turn \ {t} : turn'[o] = turn[o]
    BY <1>3, <1>10 DEF ContainersTypeOK
  <2>2. \A d \in Box \ {c} : Held(d)' => Held(d)
    BY <1>1, <2>1 DEF Held
  <2>3. box'[c].state # "none" /\ box'[c].label \notin Service
    BY <1>2, <1>4, <1>5
  <2> QED
    BY <1>5, <2>2, <2>3 DEF HeldInv
<1>14. ServiceInv'
  <2>1. \A s \in Service : Up(s) => Up(s)'
    BY <1>5, <1>6 DEF Up, Boxes, Exists, Running
  <2> QED
    BY <1>1, <2>1 DEF ServiceInv, ServicesRun, Up
<1> QED
  BY <1>1, <1>5, <1>7, <1>8, <1>12, <1>13, <1>14 DEF ContainersTypeOK

\* What was created runs.
LEMMA StartStep ==
  ASSUME ContainersInv, NEW t \in Turn, Start(t)
  PROVE  ContainersInv'
<1> USE DEF ContainersInv
<1> DEFINE c == turn[t].box
           r == [pc |-> "store", box |-> c]
           b == [box[c] EXCEPT !.state = "running"]
<1>1. /\ turn[t].pc = "start" /\ turn' = [turn EXCEPT ![t].pc = "store"]
      /\ box[c].state = "created" /\ box' = [box EXCEPT ![c].state = "running"]
      /\ UNCHANGED <<containers, idle, active, releasing, sweep, plugin, life>>
  BY DEF Start, Go, pool
<1>2. turn[t] \in TurnRow /\ c # 0 /\ c \in Box /\ box[c] \in BoxRow
  BY <1>1 DEF ContainersTypeOK, WorkInv, TurnRow
<1>3. r \in TurnRow /\ r.pc = "store" /\ r.box = c /\ [turn[t] EXCEPT !.pc = "store"] = r
  BY <1>2 DEF TurnRow
<1>4. b \in BoxRow /\ b.state = "running" /\ b.label = box[c].label /\ b.name = box[c].name
  BY <1>2 DEF BoxRow
<1> HIDE DEF c, r, b
<1>5. /\ box' \in [Box -> BoxRow] /\ box'[c] = b
      /\ \A d \in Box \ {c} : box'[d] = box[d]
  BY <1>1, <1>2, <1>4 DEF ContainersTypeOK, b
<1>6. \A d \in Box : /\ Exists(d)' <=> Exists(d)
                   /\ box'[d].label = box[d].label
                   /\ box'[d].name = box[d].name
  BY <1>1, <1>4, <1>5 DEF Exists
<1>7. LabelInv' /\ UniqueInv'
  BY <1>6 DEF LabelInv, UniqueInv
<1>8. turn' = [turn EXCEPT ![t] = r]
  BY <1>1, <1>3 DEF c
<1>9. plugin.pc \notin {"services", "failed", "rebuild"}
  BY <1>1 DEF EarlyInv, AtRest
<1>10. /\ turn' \in [Turn -> TurnRow]
       /\ WorkInv' /\ MakingInv' /\ PoolInv' /\ ExecsCounted' /\ EarlyInv' /\ SweepInv'
  <2>1. /\ \A u \in User : containers[u] # c
        /\ \A o \in Turn \ {t} : turn[o].box # c
        /\ \A q \in Releaser : releasing[q].box # c
    BY <1>1 DEF MakingInv, Making, c
  <2>2. Alone(t, r.box) /\ Spares(t, r.box)
    BY <1>3, <2>1 DEF Alone, Spares
  <2>3. turn[t].pc # "exec" /\ r.pc # "exec" /\ r.box # 0
    BY <1>1, <1>2, <1>3
  <2> QED
    BY <1>1, <1>3, <1>8, <1>9, <2>2, <2>3, TurnMoves, SweepStays
<1>11. HeldInv'
  <2>1. Held(c)
    BY DEF Held, c
  <2>2. \A d \in Box : /\ box[d].state # "none" => box'[d].state # "none"
                     /\ box'[d].label \in {box[d].label, None}
    BY <1>4, <1>5, <1>6
  <2> QED
    BY <1>1, <1>3, <1>8, <2>1, <2>2, TurnHolds
<1>12. ServiceInv'
  <2>1. \A s \in Service : Up(s) => Up(s)'
    BY <1>4, <1>5, <1>6 DEF Up, Boxes, Running
  <2> QED
    BY <1>1, <2>1 DEF ServiceInv, ServicesRun, Up
<1> QED
  BY <1>1, <1>5, <1>7, <1>10, <1>11, <1>12 DEF ContainersTypeOK

\* A turn takes the container of its user from the pool, or puts the one it made
\* there, which nobody has taken to run a command in.
LEMMA PoolStep ==
  ASSUME ContainersInv, NEW t \in Turn, DeleteOld(t) \/ Store(t)
  PROVE  ContainersInv'
<1> USE DEF ContainersInv
<1> DEFINE u == UserOf[t]
<1>1. PICK r \in TurnRow, c \in {0, turn[t].box} :
        /\ turn' = [turn EXCEPT ![t] = r]
        /\ containers' = [containers EXCEPT ![u] = c]
        /\ UNCHANGED <<box, idle, active, releasing, sweep, plugin, life>>
        /\ turn[t].pc \in {"delete", "store"}
        /\ c # 0 => turn[t].pc = "store"
        /\ r.pc \in {"create", "ready"} /\ r.box = turn[t].box
        /\ turn[t].box # 0
  <2>1. /\ turn[t] \in TurnRow
        /\ turn[t] = [pc |-> turn[t].pc, box |-> turn[t].box]
        /\ turn[t].pc \in {"delete", "store"} => turn[t].box # 0
    BY DEF ContainersTypeOK, TurnRow, WorkInv
  <2>2. CASE DeleteOld(t)
    <3> DEFINE r == [pc |-> "create", box |-> turn[t].box]
    <3>1. r \in TurnRow /\ [turn[t] EXCEPT !.pc = "create"] = r
      BY <2>1 DEF TurnRow
    <3> QED
      BY <2>1, <2>2, <3>1 DEF DeleteOld, Go
  <2>3. CASE Store(t)
    <3> DEFINE r == [pc |-> "ready", box |-> turn[t].box]
    <3>1. r \in TurnRow /\ [turn[t] EXCEPT !.pc = "ready"] = r
      BY <2>1 DEF TurnRow
    <3> QED
      BY <2>1, <2>3, <3>1 DEF Store, Go
  <2> QED
    BY <2>2, <2>3
<1>2. plugin.pc \notin {"services", "failed", "rebuild"}
  BY <1>1 DEF EarlyInv, AtRest
<1>3. /\ u \in User /\ turn[t] \in TurnRow
      /\ turn' \in [Turn -> TurnRow] /\ turn'[t] = r
      /\ \A o \in Turn \ {t} : turn'[o] = turn[o]
      /\ containers' \in [User -> Box \cup {0}] /\ containers'[u] = c
      /\ \A v \in User \ {u} : containers'[v] = containers[v]
  BY <1>1, ContainersAssumption DEF ContainersTypeOK, TurnRow
<1> HIDE DEF u
<1>4. WorkInv'
  BY <1>1, <1>3 DEF WorkInv
<1>5. MakingInv' /\ PoolInv'
  <2>1. MakingInv'
    BY <1>1, <1>3 DEF MakingInv, Making, WorkInv
  <2>2. /\ \A v \in User : c # 0 => containers[v] # c
        /\ \A q \in Releaser : c # 0 => releasing[q].box # c
    BY <1>1 DEF MakingInv, Making
  <2>3. \A q \in Releaser : releasing[q].pc = "destroy" => releasing[q].box # 0
    BY DEF WorkInv
  <2>4. PoolInv'
    BY <1>1, <1>3, <2>2, <2>3 DEF PoolInv
  <2> QED
    BY <2>1, <2>4
<1>6. ExecsCounted'
  <2>1. \A d \in Box : Execs(d)' = Execs(d)
    BY <1>1, <1>3 DEF Execs
  <2> QED
    BY <1>1, <2>1 DEF ExecsCounted, Execs
<1>7. EarlyInv'
  BY <1>1, <1>2 DEF EarlyInv
<1>8. SweepInv'
  <2>1. \A d : Inside(d)' = Inside(d)
    BY <1>1, <1>3 DEF Inside
  <2>2. Inside(c) = {}
    BY <1>1 DEF Inside, MakingInv, Making, WorkInv
  <2>3. sweep.pc = "release" => sweep.user \in User
    BY DEF ContainersTypeOK, SweepRow
  <2>4. sweep.pc = "release" => Inside(containers'[sweep.user]) \subseteq sweep.late
    BY <1>3, <2>2, <2>3 DEF SweepInv
  <2> QED
    BY <1>1, <2>1, <2>4 DEF SweepInv
<1>9. HeldInv'
  <2>1. \A d \in Box : Held(d)' => Held(d)
    <3>1. \A d \in Box : d # 0
      BY ContainersAssumption DEF Box
    <3> QED
      BY <1>1, <1>3, <3>1 DEF Held
  <2> QED
    BY <1>1, <2>1, BoxesStay, HeldStay
<1> QED
  BY <1>1, <1>3, <1>4, <1>5, <1>6, <1>7, <1>8, <1>9, BoxesStay DEF ContainersTypeOK

\* A turn takes the container of its user from the pool to run a command in it:
\* the sweep that is about to release it has looked.
LEMMA ExecLoadStep ==
  ASSUME ContainersInv, NEW t \in Turn, ExecLoad(t)
  PROVE  ContainersInv'
<1> USE DEF ContainersInv
<1>0. PICK u \in User, c \in Box \cup {0} : u = UserOf[t] /\ c = containers[u]
  BY ContainersAssumption DEF ContainersTypeOK
<1> DEFINE r == [pc |-> "enter", box |-> c]
           mine == sweep.pc = "release" /\ sweep.user = u
<1>1. /\ turn[t].pc = "ready" /\ c # 0 /\ turn' = [turn EXCEPT ![t] = r]
      /\ sweep' = IF mine THEN [sweep EXCEPT !.late = @ \cup {t}] ELSE sweep
      /\ UNCHANGED <<box, containers, idle, active, releasing, plugin, life>>
  BY <1>0 DEF ExecLoad, pool
<1>2. c \in Box /\ r \in TurnRow /\ r.pc = "enter" /\ r.box = c
  BY <1>0, <1>1 DEF ContainersTypeOK, TurnRow
<1> HIDE DEF r
<1>3. /\ turn' \in [Turn -> TurnRow] /\ turn'[t] = r
      /\ \A o \in Turn \ {t} : turn'[o] = turn[o]
  BY <1>1, <1>2 DEF ContainersTypeOK
<1>4. plugin.pc \notin {"services", "failed", "rebuild"}
  BY <1>1 DEF EarlyInv, AtRest
<1>5. /\ turn' \in [Turn -> TurnRow]
      /\ WorkInv' /\ MakingInv' /\ PoolInv' /\ ExecsCounted' /\ EarlyInv'
  <2>1. Spares(t, r.box)
    BY <1>0, <1>2 DEF MakingInv, Spares
  <2> QED
    BY <1>1, <1>2, <1>4, <2>1, TurnMoves
<1>6. /\ sweep' \in SweepRow /\ sweep'.pc = sweep.pc
      /\ sweep.pc = "release" => sweep'.user = sweep.user
      /\ sweep'.late = IF mine THEN sweep.late \cup {t} ELSE sweep.late
  <2>1. CASE mine
    BY <1>1, <2>1 DEF ContainersTypeOK, SweepRow
  <2>2. CASE ~mine
    BY <1>1, <2>2 DEF ContainersTypeOK
  <2> QED
    BY <2>1, <2>2
<1>7. SweepInv'
  <2>1. \A d : Inside(d)' \subseteq IF d = c THEN Inside(d) \cup {t} ELSE Inside(d)
    BY <1>2, <1>3 DEF Inside
  <2>2. sweep.pc = "release" => sweep.user \in User
    BY DEF ContainersTypeOK, SweepRow
  <2>3. sweep.pc = "release" => Inside(containers[sweep.user])' \subseteq sweep'.late
    <3>1. CASE mine
      BY <1>1, <1>6, <2>1, <3>1 DEF SweepInv
    <3>2. CASE sweep.pc = "release" /\ ~mine
      <4>1. containers[sweep.user] # c
        BY <1>0, <1>1, <2>2, <3>2 DEF PoolInv
      <4> QED
        BY <1>1, <1>6, <2>1, <3>2, <4>1 DEF SweepInv
    <3> QED
      BY <3>1, <3>2
  <2>4. releasing["sweep"].pc = "destroy" => Inside(releasing["sweep"].box)' \subseteq sweep'.late
    <3>1. releasing["sweep"].pc = "destroy" => releasing["sweep"].box # c
      BY <1>0 DEF PoolInv, Releaser
    <3> QED
      BY <1>1, <1>6, <2>1, <3>1 DEF SweepInv
  <2> QED
    BY <1>1, <1>6, <2>3, <2>4 DEF SweepInv
<1>8. HeldInv'
  <2>1. Held(c) /\ r.box # 0
    BY <1>0, <1>1, <1>2 DEF Held
  <2> QED
    BY <1>1, <1>2, <2>1, BoxesStay, TurnHolds
<1> QED
  BY <1>1, <1>5, <1>6, <1>7, <1>8, BoxesStay DEF ContainersTypeOK

\* A command begins, of a turn that was about to.
LEMMA EnterStep ==
  ASSUME ContainersInv, NEW t \in Turn, ExecEnter(t)
  PROVE  ContainersInv'
<1> USE DEF ContainersInv
<1>0. PICK c : c = turn[t].box
  OBVIOUS
<1> DEFINE r == [pc |-> "exec", box |-> c]
<1>1. /\ turn[t].pc = "enter" /\ turn' = [turn EXCEPT ![t].pc = "exec"]
      /\ active' = [active EXCEPT ![c] = @ + 1]
      /\ UNCHANGED <<box, containers, idle, releasing, sweep, plugin, life>>
  BY <1>0 DEF ExecEnter, Go
<1>2. turn[t] \in TurnRow /\ c # 0 /\ c \in Box /\ active[c] \in Nat
  BY <1>0, <1>1 DEF ContainersTypeOK, WorkInv, TurnRow
<1>3. r \in TurnRow /\ r.pc = "exec" /\ r.box = c /\ [turn[t] EXCEPT !.pc = "exec"] = r
  BY <1>0, <1>2 DEF TurnRow
<1> HIDE DEF r
<1>4. /\ turn' \in [Turn -> TurnRow] /\ turn'[t] = r
      /\ \A o \in Turn \ {t} : turn'[o] = turn[o]
  BY <1>0, <1>1, <1>3 DEF ContainersTypeOK
<1>5. /\ active' \in [Box -> Nat] /\ active'[c] = active[c] + 1
      /\ \A d \in Box \ {c} : active'[d] = active[d]
  BY <1>0, <1>1, <1>2 DEF ContainersTypeOK
<1>6. plugin.pc \notin {"services", "failed", "rebuild"}
  BY <1>1 DEF EarlyInv, AtRest
<1>7. WorkInv' /\ MakingInv' /\ PoolInv'
  BY <1>0, <1>1, <1>2, <1>3, <1>4 DEF WorkInv, MakingInv, Making, PoolInv
<1>8. ExecsCounted'
  <2>1. \A d \in Box \ {c} : Execs(d)' = Execs(d)
    BY <1>0, <1>1, <1>3, <1>4 DEF Execs
  <2>2. Execs(c)' = Execs(c) \cup {t} /\ t \notin Execs(c)
    BY <1>0, <1>1, <1>3, <1>4 DEF Execs
  <2>3. IsFiniteSet(Execs(c))
    BY FS_Subset, ContainersAssumption DEF Execs
  <2>4. Cardinality(Execs(c)') = Cardinality(Execs(c)) + 1
    BY <2>2, <2>3, FS_AddElement
  <2> QED
    BY <1>2, <1>5, <2>1, <2>4 DEF ExecsCounted, Execs
<1>9. EarlyInv'
  BY <1>0, <1>1, <1>6 DEF EarlyInv
<1>10. SweepInv'
  <2>1. \A d : Inside(d)' = Inside(d)
    BY <1>0, <1>1, <1>3, <1>4 DEF Inside
  <2> QED
    BY <1>1, <2>1 DEF SweepInv
<1>11. HeldInv'
  <2>1. \A d \in Box : Held(d)' => Held(d)
    BY <1>0, <1>1, <1>3, <1>4 DEF Held
  <2> QED
    BY <1>0, <1>1, <2>1, BoxesStay, HeldStay
<1> QED
  BY <1>0, <1>1, <1>4, <1>5, <1>7, <1>8, <1>9, <1>10, <1>11, BoxesStay DEF ContainersTypeOK

\* It ends, and the sweep forgets it.
LEMMA LeaveStep ==
  ASSUME ContainersInv, NEW t \in Turn, ExecLeave(t)
  PROVE  ContainersInv'
<1> USE DEF ContainersInv
<1>0. PICK c : c = turn[t].box
  OBVIOUS
<1> DEFINE r == [pc |-> "ready", box |-> c]
<1>1. /\ turn[t].pc = "exec" /\ turn' = [turn EXCEPT ![t].pc = "ready"]
      /\ active' = [active EXCEPT ![c] = @ - 1]
      /\ idle' \subseteq idle
      /\ sweep' = [sweep EXCEPT !.late = @ \ {t}]
      /\ UNCHANGED <<box, containers, releasing, plugin, life>>
  BY <1>0 DEF ExecLeave, Go
<1>2. turn[t] \in TurnRow /\ c # 0 /\ c \in Box /\ active[c] \in Nat
  BY <1>0, <1>1 DEF ContainersTypeOK, WorkInv, TurnRow
<1>3. r \in TurnRow /\ r.pc = "ready" /\ r.box = c /\ [turn[t] EXCEPT !.pc = "ready"] = r
  BY <1>0, <1>2 DEF TurnRow
<1> HIDE DEF r
<1>4. /\ turn' \in [Turn -> TurnRow] /\ turn'[t] = r
      /\ \A o \in Turn \ {t} : turn'[o] = turn[o]
  BY <1>0, <1>1, <1>3 DEF ContainersTypeOK
<1>5. plugin.pc \notin {"services", "failed", "rebuild"}
  BY <1>1 DEF EarlyInv, AtRest
<1>6. WorkInv' /\ MakingInv' /\ PoolInv'
  BY <1>0, <1>1, <1>2, <1>3, <1>4 DEF WorkInv, MakingInv, Making, PoolInv
<1>7. active' \in [Box -> Nat] /\ ExecsCounted'
  <2>1. \A d \in Box \ {c} : Execs(d)' = Execs(d)
    BY <1>0, <1>1, <1>3, <1>4 DEF Execs
  <2>2. Execs(c)' = Execs(c) \ {t} /\ t \in Execs(c)
    BY <1>0, <1>1, <1>3, <1>4 DEF Execs
  <2>3. IsFiniteSet(Execs(c))
    BY FS_Subset, ContainersAssumption DEF Execs
  <2>4. /\ Cardinality(Execs(c)') = Cardinality(Execs(c)) - 1
        /\ Cardinality(Execs(c)') \in Nat
    BY <2>2, <2>3, FS_RemoveElement, FS_CardinalityType
  <2>5. active[c] = Cardinality(Execs(c))
    BY <1>2 DEF ExecsCounted, Execs
  <2>6. active[c] - 1 \in Nat
    BY <2>4, <2>5
  <2>7. /\ active' \in [Box -> Nat] /\ active'[c] = active[c] - 1
        /\ \A d \in Box \ {c} : active'[d] = active[d]
    BY <1>0, <1>1, <1>2, <2>6 DEF ContainersTypeOK
  <2> QED
    BY <1>2, <2>1, <2>4, <2>5, <2>7 DEF ExecsCounted, Execs
<1>8. EarlyInv'
  BY <1>0, <1>1, <1>5 DEF EarlyInv
<1>9. /\ sweep' \in SweepRow
      /\ sweep'.late = sweep.late \ {t} /\ sweep'.pc = sweep.pc
      /\ sweep.pc = "release" => sweep'.user = sweep.user
  <2>1. CASE sweep.pc = "release"
    BY <1>0, <1>1, <2>1 DEF ContainersTypeOK, SweepRow
  <2>2. CASE sweep.pc # "release"
    BY <1>0, <1>1, <2>2 DEF ContainersTypeOK, SweepRow
  <2> QED
    BY <2>1, <2>2
<1>10. SweepInv'
  <2>1. \A d : Inside(d)' \subseteq Inside(d) \ {t}
    BY <1>3, <1>4 DEF Inside
  <2> QED
    BY <1>1, <1>9, <2>1 DEF SweepInv
<1>11. HeldInv'
  <2>1. \A d \in Box : Held(d)' => Held(d)
    BY <1>0, <1>1, <1>3, <1>4 DEF Held
  <2> QED
    BY <1>0, <1>1, <2>1, BoxesStay, HeldStay
<1> QED
  BY <1>0, <1>1, <1>4, <1>6, <1>7, <1>8, <1>9, <1>10, <1>11, BoxesStay DEF ContainersTypeOK

-----------------------------------------------------------------------------
(* Release and sweep.                                                      *)

\* What was released is destroyed.
LEMMA ReleasedStep ==
  ASSUME ContainersInv, NEW r \in Releaser, ReleaseDestroy(r)
  PROVE  ContainersInv'
<1> USE DEF ContainersInv
<1>1. /\ releasing[r].pc = "destroy" /\ Destroyed({releasing[r].box})
      /\ releasing' = [releasing EXCEPT ![r] = AtRest]
      /\ UNCHANGED <<containers, idle, active, turn, sweep, plugin, life>>
  BY DEF ReleaseDestroy, pool
<1>2. AtRest \in ReleaseRow /\ AtRest.pc = "rest" /\ AtRest.box = 0
  BY DEF AtRest, ReleaseRow
<1>3. /\ releasing' \in [Releaser -> ReleaseRow] /\ releasing'[r] = AtRest
      /\ \A q \in Releaser \ {r} : releasing'[q] = releasing[q]
  BY <1>1, <1>2 DEF ContainersTypeOK
<1>4. plugin.pc \notin {"services", "failed", "rebuild"}
  BY <1>1, <1>2 DEF EarlyInv
<1>5. WorkInv' /\ MakingInv' /\ PoolInv'
  <2>1. WorkInv' /\ PoolInv'
    BY <1>1, <1>2, <1>3 DEF WorkInv, PoolInv
  <2>2. MakingInv'
    BY <1>1, <1>2, <1>3 DEF MakingInv, Making, WorkInv
  <2> QED
    BY <2>1, <2>2
<1>6. ExecsCounted' /\ EarlyInv'
  BY <1>1, <1>4 DEF ExecsCounted, EarlyInv
<1>7. SweepInv'
  <2>1. \A d : Inside(d)' = Inside(d)
    BY <1>1 DEF Inside
  <2>2. releasing'["sweep"] = AtRest \/ releasing'["sweep"] = releasing["sweep"]
    BY <1>3 DEF Releaser
  <2> QED
    BY <1>1, <1>2, <2>1, <2>2 DEF SweepInv
<1>8. /\ box' \in [Box -> BoxRow]
      /\ LabelInv' /\ UniqueInv' /\ ServiceInv'
      /\ \A c \in Box : /\ box[c].state # "none" => box'[c].state # "none"
                        /\ box'[c].label \in {box[c].label, None}
  <2>1. \A c \in {releasing[r].box} \cap Box : box[c].label \notin Service
    BY DEF HeldInv, Held
  <2> QED
    BY <1>1, <2>1, UsersBoxDestroyed
<1>9. HeldInv'
  <2>1. \A d \in Box : Held(d)' => Held(d)
    <3>1. \A d \in Box : d # 0
      BY ContainersAssumption DEF Box
    <3> QED
      BY <1>1, <1>2, <1>3, <3>1 DEF Held
  <2> QED
    BY <1>8, <2>1, HeldStay
<1> QED
  BY <1>1, <1>3, <1>5, <1>6, <1>7, <1>8, <1>9 DEF ContainersTypeOK

\* The sweep looks around: in what it is about to release no command is counted,
\* and those about to begin are remembered.
LEMMA LookStep ==
  ASSUME ContainersInv, \/ SweepTick \/ SweepEnds \/ \E u \in User : SweepCheck(u)
                        \/ \E c \in Box : Ages(c)
  PROVE  ContainersInv'
<1> USE DEF ContainersInv
<1>1. /\ UNCHANGED <<box, containers, active, turn, releasing, plugin, life>>
      /\ idle' \subseteq Box
  BY DEF SweepTick, SweepEnds, SweepCheck, Ages, pool, ContainersTypeOK
<1>2. /\ sweep' \in SweepRow /\ SweepInv'
      /\ plugin.pc \in {"services", "failed", "rebuild"} => sweep' = sweep
  <2>0. \A d : Inside(d)' = Inside(d)
    BY <1>1 DEF Inside
  <2>1. CASE SweepTick
    <3>1. /\ sweep.pc = "wait" /\ plugin.pc = "ready"
          /\ sweep' = [sweep EXCEPT !.pc = "range", !.todo = {u \in User : containers[u] # 0}]
      BY <2>1 DEF SweepTick
    <3>2. sweep' \in SweepRow /\ sweep'.pc = "range" /\ sweep'.late = sweep.late
      BY <3>1 DEF ContainersTypeOK, SweepRow
    <3>3. SweepInv'
      BY <1>1, <2>0, <3>2 DEF SweepInv
    <3> QED
      BY <3>1, <3>2, <3>3
  <2>2. CASE SweepEnds
    <3>1. /\ sweep' = [pc |-> "wait", todo |-> {}, late |-> {}]
          /\ releasing["sweep"].pc = "rest"
      BY <2>2 DEF SweepEnds, SweepOff
    <3>2. sweep' \in SweepRow /\ SweepInv'
      BY <1>1, <3>1 DEF SweepInv, SweepRow
    <3> QED
      BY <2>2, <3>2 DEF SweepEnds, EarlyInv, SweepOff
  <2>3. CASE \E u \in User : SweepCheck(u)
    <3>1. PICK u \in User : SweepCheck(u)
      BY <2>3
    <3> DEFINE c == containers[u]
               late == {t \in Turn : turn[t].pc = "enter" /\ turn[t].box = c}
    <3>2. plugin.pc \notin {"services", "failed", "rebuild"}
      BY <3>1 DEF SweepCheck, EarlyInv, SweepOff
    <3>3. CASE c # 0 /\ Unused(c)
      <4>1. /\ releasing["sweep"].pc = "rest"
            /\ sweep' = [pc |-> "release", todo |-> sweep.todo, user |-> u, late |-> late]
        BY <3>1, <3>3 DEF SweepCheck
      <4>2. c \in Box /\ sweep.todo \subseteq User
        BY <3>3 DEF ContainersTypeOK, SweepRow
      <4>3. Execs(c) = {}
        <5>1. active[c] = Cardinality(Execs(c)) /\ active[c] = 0
          BY <3>3, <4>2 DEF ExecsCounted, Execs, Unused
        <5> QED
          BY <5>1, FS_EmptySet, FS_Subset, ContainersAssumption DEF Execs
      <4>4. Inside(c) \subseteq late
        BY <4>3 DEF Execs, Inside
      <4>5. sweep' \in SweepRow
        BY <4>1, <4>2 DEF SweepRow
      <4>6. SweepInv'
        BY <1>1, <2>0, <4>1, <4>4 DEF SweepInv
      <4> QED
        BY <3>2, <4>5, <4>6
    <3>4. CASE ~(c # 0 /\ Unused(c))
      <4>1. sweep' = [sweep EXCEPT !.todo = @ \ {u}] /\ sweep.pc = "range"
        BY <3>1, <3>4 DEF SweepCheck
      <4>2. sweep' \in SweepRow /\ sweep'.late = sweep.late /\ sweep'.pc = "range"
        BY <4>1 DEF ContainersTypeOK, SweepRow
      <4>3. SweepInv'
        BY <1>1, <2>0, <4>2 DEF SweepInv
      <4> QED
        BY <3>2, <4>2, <4>3
    <3> QED
      BY <3>3, <3>4
  <2>4. CASE \E c \in Box : Ages(c)
    <3>1. sweep' = sweep
      BY <2>4 DEF Ages
    <3> QED
      BY <1>1, <2>0, <3>1 DEF SweepInv, ContainersTypeOK
  <2> QED
    BY <2>1, <2>2, <2>3, <2>4
<1>3. WorkInv' /\ MakingInv' /\ PoolInv' /\ ExecsCounted'
  BY <1>1 DEF WorkInv, MakingInv, Making, PoolInv, ExecsCounted
<1>4. EarlyInv'
  BY <1>1, <1>2 DEF EarlyInv
<1>5. HeldInv'
  <2>1. \A d \in Box : Held(d)' => Held(d)
    BY <1>1 DEF Held
  <2> QED
    BY <1>1, <2>1, BoxesStay, HeldStay
<1> QED
  BY <1>1, <1>2, <1>3, <1>4, <1>5, BoxesStay DEF ContainersTypeOK

\* An entry leaves the pool for whoever releases it.
LEMMA ReleaseMoves ==
  ASSUME ContainersInv, NEW r \in Releaser, NEW u \in User, Release(r, u),
         UNCHANGED <<box, idle, active, turn, life>>
  PROVE  /\ containers' \in [User -> Box \cup {0}] /\ containers'[u] = 0
         /\ \A v \in User \ {u} : containers'[v] = containers[v]
         /\ releasing' \in [Releaser -> ReleaseRow]
         /\ releasing'[r].box \in {containers[u], releasing[r].box}
         /\ \/ releasing' = releasing
            \/ releasing'[r].pc = "destroy" /\ releasing'[r].box = containers[u]
         /\ \A q \in Releaser \ {r} : releasing'[q] = releasing[q]
         /\ WorkInv' /\ MakingInv' /\ PoolInv' /\ HeldInv' /\ ExecsCounted'
<1> USE DEF ContainersInv
<1> DEFINE x == [pc |-> "destroy", box |-> containers[u]]
<1>1. /\ containers' = [containers EXCEPT ![u] = 0]
      /\ releasing' = IF containers[u] = 0 THEN releasing ELSE [releasing EXCEPT ![r] = x]
  BY DEF Release
<1>2. x \in ReleaseRow /\ x.pc = "destroy" /\ x.box = containers[u] /\ containers[u] \in Box \cup {0}
  BY DEF ReleaseRow, ContainersTypeOK
<1> HIDE DEF x
<1>3. /\ containers' \in [User -> Box \cup {0}] /\ containers'[u] = 0
      /\ \A v \in User \ {u} : containers'[v] = containers[v]
  BY <1>1, ContainersAssumption DEF ContainersTypeOK
<1>4. /\ releasing' \in [Releaser -> ReleaseRow]
      /\ \/ releasing' = releasing
         \/ releasing'[r] = x /\ containers[u] # 0
      /\ \A q \in Releaser \ {r} : releasing'[q] = releasing[q]
  BY <1>1, <1>2 DEF ContainersTypeOK
<1>5. WorkInv'
  BY <1>2, <1>4 DEF WorkInv
<1>6. MakingInv' /\ PoolInv'
  <2>1. \A q \in Releaser : releasing'[q].box \in {containers[u], releasing[q].box}
    BY <1>2, <1>4
  <2>2. MakingInv'
    BY <1>3, <2>1 DEF MakingInv, Making, WorkInv
  <2>3. \A v \in User : containers'[v] # 0 => v # u /\ containers'[v] = containers[v]
    BY <1>3
  <2>4. \A q \in Releaser : releasing'[q].pc = "destroy" =>
          \/ releasing'[q].box = containers[u] /\ containers[u] # 0
          \/ releasing[q].pc = "destroy" /\ releasing'[q] = releasing[q]
    BY <1>2, <1>4
  <2>5. \A q \in Releaser : releasing'[q].pc = "destroy" => releasing'[q].box # 0
    BY <1>5 DEF WorkInv
  <2>6. PoolInv'
    BY <2>3, <2>4, <2>5 DEF PoolInv
  <2> QED
    BY <2>2, <2>6
<1>7. HeldInv'
  <2>1. \A d \in Box : Held(d)' => Held(d)
    <3>1. \A d \in Box : d # 0
      BY ContainersAssumption DEF Box
    <3> QED
      BY <1>2, <1>3, <1>4, <3>1 DEF Held
  <2>2. \A c \in Box : /\ box[c].state # "none" => box'[c].state # "none"
                     /\ box'[c].label \in {box[c].label, None}
    OBVIOUS
  <2> QED
    BY <2>1, <2>2, HeldStay
<1>8. ExecsCounted'
  BY DEF ExecsCounted
<1> QED
  BY <1>2, <1>3, <1>4, <1>5, <1>6, <1>7, <1>8

\* The sweep releases what only late commands are in.
LEMMA SweepReleaseStep ==
  ASSUME ContainersInv, SweepRelease
  PROVE  ContainersInv'
<1> USE DEF ContainersInv
<1> DEFINE u == sweep.user
<1>1. /\ sweep.pc = "release" /\ Release("sweep", u)
      /\ sweep' = [pc |-> "range", todo |-> sweep.todo \ {u}, late |-> sweep.late]
      /\ UNCHANGED <<box, idle, active, turn, plugin, life>>
  BY DEF SweepRelease
<1>2. u \in User /\ sweep.todo \subseteq User /\ sweep.late \subseteq Turn /\ "sweep" \in Releaser
  BY <1>1 DEF ContainersTypeOK, SweepRow, Releaser
<1>3. PICK w : w = u
  OBVIOUS
<1>4. /\ containers' \in [User -> Box \cup {0}]
      /\ releasing' \in [Releaser -> ReleaseRow]
      /\ \/ releasing' = releasing
         \/ releasing'["sweep"].pc = "destroy" /\ releasing'["sweep"].box = containers[w]
      /\ WorkInv' /\ MakingInv' /\ PoolInv' /\ HeldInv' /\ ExecsCounted'
  BY <1>1, <1>2, <1>3, ReleaseMoves
<1>5. sweep' \in SweepRow /\ sweep'.pc = "range" /\ sweep'.late = sweep.late
  BY <1>1, <1>2 DEF SweepRow
<1>6. SweepInv'
  <2>1. \A d : Inside(d)' = Inside(d)
    BY <1>1 DEF Inside
  <2>2. Inside(containers[w]) \subseteq sweep.late
    BY <1>1, <1>3 DEF SweepInv
  <2> QED
    BY <1>4, <1>5, <2>1, <2>2 DEF SweepInv
<1>7. EarlyInv'
  BY <1>1 DEF EarlyInv, SweepOff
<1> QED
  BY <1>1, <1>4, <1>5, <1>6, <1>7, BoxesStay DEF ContainersTypeOK

-----------------------------------------------------------------------------
(* Start and Stop.                                                         *)

\* A service takes the place of its stale containers, before there are users'.
LEMMA StartServiceStep ==
  ASSUME ContainersInv, NEW s \in Service, StartService(s)
  PROVE  ContainersInv'
<1> USE DEF ContainersInv
<1>1. PICK c \in Fresh :
        /\ plugin.pc = "services" /\ s \in plugin.todo
        /\ box' = [d \in Box |-> IF d = c THEN ServiceBox(s)
                                ELSE IF d \in Boxes(s) THEN Gone ELSE box[d]]
        /\ plugin' = [plugin EXCEPT !.todo = @ \ {s}]
        /\ UNCHANGED <<containers, idle, active, turn, releasing, sweep, life>>
  BY DEF StartService, pool
<1>2. c \in Box /\ box[c].state = "none" /\ s \notin User /\ s # None
  BY ContainersAssumption DEF Fresh
<1>3. /\ Gone \in BoxRow /\ Gone.state = "gone" /\ Gone.label = None
      /\ ServiceBox(s) \in BoxRow /\ ServiceBox(s).state = "running"
      /\ ServiceBox(s).label = s
  BY DEF Gone, ServiceBox, BoxRow
<1>4. /\ box' \in [Box -> BoxRow] /\ box'[c] = ServiceBox(s)
      /\ \A d \in Box \ {c} : IF d \in Boxes(s) THEN box'[d] = Gone ELSE box'[d] = box[d]
  BY <1>1, <1>2, <1>3 DEF ContainersTypeOK
<1>5. /\ Exists(c)' /\ Running(c)' /\ box'[c].label = s
      /\ \A d \in Box \ {c} :
           IF d \in Boxes(s) THEN ~Exists(d)' /\ box'[d].label = None ELSE box'[d] = box[d]
  BY <1>2, <1>3, <1>4 DEF Exists, Running
<1>6. \A d \in Box \ {c} : Exists(d)' => /\ Exists(d) /\ box'[d] = box[d] /\ box[d].label # s
  BY <1>5 DEF Boxes, Exists
<1>7. LabelInv'
  <2>1. \A d \in Box \ {c} : ~Exists(d)' => box'[d].label = None
    BY <1>5 DEF LabelInv, Exists
  <2> QED
    BY <1>2, <1>5, <1>6, <2>1 DEF LabelInv
<1>8. UniqueInv'
  BY <1>2, <1>5, <1>6 DEF UniqueInv
<1>9. /\ turn = [t \in Turn |-> AtRest] /\ releasing = [r \in Releaser |-> AtRest]
      /\ containers = [u \in User |-> 0] /\ sweep = SweepOff
      /\ AtRest.box = 0 /\ AtRest.pc = "rest"
  BY <1>1 DEF EarlyInv, AtRest
<1>10. HeldInv'
  <2>1. \A d \in Box : d # 0
    BY ContainersAssumption DEF Box
  <2> QED
    BY <1>1, <1>9, <2>1 DEF HeldInv, Held
<1>11. /\ plugin' \in PluginRow /\ plugin'.pc = "services" /\ plugin'.todo = plugin.todo \ {s}
  BY <1>1 DEF ContainersTypeOK, PluginRow
<1>12. ServiceInv'
  <2>1. Up(s)'
    BY <1>2, <1>5 DEF Up, Boxes
  <2>2. ASSUME NEW x \in Service, x # s, Up(x)
        PROVE  Up(x)'
    <3>1. PICK d \in Boxes(x) : Running(d)
      BY <2>2 DEF Up
    <3>2. d \in Box /\ d # c /\ d \notin Boxes(s)
      BY <1>2, <2>2, <3>1 DEF Boxes, Exists
    <3>3. box'[d] = box[d]
      BY <1>5, <3>2
    <3> QED
      BY <3>1, <3>2, <3>3 DEF Up, Boxes, Exists, Running
  <2> QED
    BY <1>1, <1>11, <2>1, <2>2 DEF ServiceInv, ServicesRun
<1>13. WorkInv' /\ MakingInv' /\ PoolInv' /\ ExecsCounted' /\ EarlyInv' /\ SweepInv'
  BY <1>1 DEF WorkInv, MakingInv, Making, PoolInv, ExecsCounted, EarlyInv, SweepInv, Inside
<1> QED
  BY <1>1, <1>4, <1>7, <1>8, <1>10, <1>11, <1>12, <1>13 DEF ContainersTypeOK

\* Containers are destroyed all at once: of services that are given up, or of
\* anybody but a service.
LEMMA MassStep ==
  ASSUME ContainersInv, CleanOrphans \/ StopServices \/ \E s \in Service : ServiceFails(s)
  PROVE  ContainersInv'
<1> USE DEF ContainersInv
<1>1. /\ UNCHANGED <<containers, idle, active, turn, releasing, sweep, life>>
      /\ UNCHANGED box \/ \E C \in SUBSET Box : Destroyed(C)
      /\ plugin' \in PluginRow
      /\ plugin'.pc \in {"failed", "rebuild", "stopped"}
      /\ plugin'.pc # "stopped" => plugin.pc = "services"
  <2>1. CASE CleanOrphans
    <3>1. Orphans \subseteq Box
      BY DEF Orphans, Managed
    <3>2. plugin' = [plugin EXCEPT !.pc = "rebuild"]
      BY <2>1 DEF CleanOrphans
    <3>3. plugin' \in PluginRow /\ plugin'.pc = "rebuild"
      BY <3>2 DEF ContainersTypeOK, PluginRow
    <3> QED
      BY <2>1, <3>1, <3>3 DEF CleanOrphans, pool
  <2>2. CASE StopServices
    <3>1. UNION {Boxes(s) : s \in Service} \subseteq Box
      BY DEF Boxes
    <3>2. plugin' = [plugin EXCEPT !.pc = "stopped"]
      BY <2>2 DEF StopServices
    <3>3. plugin' \in PluginRow /\ plugin'.pc = "stopped"
      BY <3>2 DEF ContainersTypeOK, PluginRow
    <3> QED
      BY <2>2, <3>1, <3>3 DEF StopServices, pool
  <2>3. CASE \E s \in Service : ServiceFails(s)
    <3>1. PICK s \in Service : ServiceFails(s)
      BY <2>3
    <3>2. UNION {Boxes(x) : x \in (Service \ plugin.todo) \cup {s}} \subseteq Box
      BY DEF Boxes
    <3>3. plugin' \in PluginRow /\ plugin'.pc = "failed"
      BY <3>1 DEF ServiceFails, PluginRow
    <3> QED
      BY <3>1, <3>2, <3>3 DEF ServiceFails, pool
  <2> QED
    BY <2>1, <2>2, <2>3
<1>2. /\ box' \in [Box -> BoxRow]
      /\ LabelInv' /\ UniqueInv'
      /\ \A c \in Box : /\ box[c].state # "none" => box'[c].state # "none"
                        /\ box'[c].label \in {box[c].label, None}
  <2>1. CASE UNCHANGED box
    BY <2>1 DEF ContainersTypeOK, LabelInv, UniqueInv, Exists
  <2>2. CASE \E C \in SUBSET Box : Destroyed(C)
    <3>1. PICK C \in SUBSET Box : Destroyed(C)
      BY <2>2
    <3>2. /\ box' \in [Box -> BoxRow]
          /\ LabelInv' /\ UniqueInv'
          /\ \A c \in Box :
               /\ c \notin C => box'[c] = box[c]
               /\ box'[c].state = "none" <=> box[c].state = "none"
               /\ box'[c].label \in {box[c].label, None}
      BY <3>1, DestroyedBoxes
    <3> QED
      BY <3>2
  <2> QED
    BY <1>1, <2>1, <2>2
<1>3. HeldInv'
  <2>1. \A d \in Box : Held(d)' => Held(d)
    BY <1>1 DEF Held
  <2> QED
    BY <1>2, <2>1, HeldStay
<1>4. WorkInv' /\ MakingInv' /\ PoolInv' /\ ExecsCounted' /\ EarlyInv' /\ SweepInv'
  BY <1>1 DEF WorkInv, MakingInv, Making, PoolInv, ExecsCounted, EarlyInv, SweepInv, Inside
<1>5. ServiceInv'
  <2>1. CASE CleanOrphans
    <3>1. /\ plugin.pc = "services" /\ plugin.todo = {} /\ plugin'.pc = "rebuild"
          /\ Destroyed(Orphans) \/ UNCHANGED box
      BY <1>1, <2>1 DEF CleanOrphans, ContainersTypeOK, PluginRow
    <3>2. \A c \in Box : box[c].label \in Service => box'[c] = box[c]
      <4>1. CASE UNCHANGED box
        BY <4>1
      <4>2. CASE Destroyed(Orphans)
        <5>1. \A c \in Box : c \notin Orphans => box'[c] = box[c]
          BY <4>2, DestroyedBoxes
        <5> QED
          BY <5>1 DEF Orphans
      <4> QED
        BY <3>1, <4>1, <4>2
    <3>3. \A s \in Service : Up(s)
      BY <3>1 DEF ServiceInv
    <3>4. \A s \in Service : Up(s)'
      BY <3>2, <3>3 DEF Up, Boxes, Exists, Running
    <3> QED
      BY <3>1, <3>4 DEF ServiceInv, ServicesRun, Up
  <2>2. CASE plugin'.pc \in {"failed", "stopped"}
    BY <2>2 DEF ServiceInv, ServicesRun
  <2>3. CASE StopServices \/ \E s \in Service : ServiceFails(s)
    <3>1. CASE StopServices
      <4>1. plugin'.pc = "stopped"
        BY <3>1 DEF StopServices, ContainersTypeOK, PluginRow
      <4> QED
        BY <2>2, <4>1
    <3>2. CASE \E s \in Service : ServiceFails(s)
      <4>1. plugin'.pc = "failed"
        BY <3>2 DEF ServiceFails
      <4> QED
        BY <2>2, <4>1
    <3> QED
      BY <2>3, <3>1, <3>2
  <2> QED
    BY <2>1, <2>3
<1> QED
  BY <1>1, <1>2, <1>3, <1>4, <1>5 DEF ContainersTypeOK

\* The pool is filled with what runs.
LEMMA RebuildStep ==
  ASSUME ContainersInv, Rebuild \/ RebuildFails
  PROVE  ContainersInv'
<1> USE DEF ContainersInv
<1>1. /\ plugin.pc = "rebuild" /\ plugin' = [plugin EXCEPT !.pc = "ready"]
      /\ sweep' = [sweep EXCEPT !.pc = "wait"]
      /\ UNCHANGED <<box, idle, active, turn, releasing, life>>
  BY DEF Rebuild, RebuildFails, Ready
<1>2. /\ turn = [t \in Turn |-> AtRest] /\ releasing = [r \in Releaser |-> AtRest]
      /\ containers = [u \in User |-> 0] /\ sweep = SweepOff
      /\ AtRest.box = 0 /\ AtRest.pc = "rest"
  BY <1>1 DEF EarlyInv, AtRest
<1>3. /\ plugin' \in PluginRow /\ plugin'.pc = "ready"
      /\ sweep' \in SweepRow /\ sweep'.pc = "wait" /\ sweep'.late = {}
  BY <1>1, <1>2 DEF ContainersTypeOK, PluginRow, SweepRow, SweepOff
<1>4. /\ containers' \in [User -> Box \cup {0}]
      /\ \A u \in User : containers'[u] # 0 => containers'[u] \in Adoptable(u)
  <2>1. CASE UNCHANGED containers
    BY <1>2, <2>1 DEF ContainersTypeOK
  <2>2. ASSUME NEW choice \in [User -> Box \cup {0}],
               \A u \in User : choice[u] \in IF Adoptable(u) = {} THEN {0} ELSE Adoptable(u),
               containers' = choice
        PROVE  /\ containers' \in [User -> Box \cup {0}]
               /\ \A u \in User : containers'[u] # 0 => containers'[u] \in Adoptable(u)
    BY <2>2
  <2> QED
    BY <2>1, <2>2 DEF Rebuild, RebuildFails
<1>5. HeldInv'
  <2>1. \A d \in Box : d # 0
    BY ContainersAssumption DEF Box
  <2>2. ASSUME NEW d \in Box, Held(d)'
        PROVE  \E u \in User : containers'[u] = d
    BY <1>1, <1>2, <2>1, <2>2 DEF Held
  <2>3. \A u \in User : \A d \in Adoptable(u) : Exists(d) /\ box[d].label = u
    BY DEF Adoptable, Boxes
  <2>4. ASSUME NEW d \in Box, Held(d)'
        PROVE  box[d].state # "none" /\ box[d].label \notin Service
    BY <1>4, <2>1, <2>2, <2>3, <2>4, ContainersAssumption DEF Exists
  <2> QED
    BY <1>1, <2>4 DEF HeldInv
<1>6. WorkInv' /\ MakingInv' /\ PoolInv' /\ ExecsCounted'
  <2>1. WorkInv' /\ MakingInv' /\ ExecsCounted'
    BY <1>1, <1>2 DEF WorkInv, MakingInv, Making, ExecsCounted
  <2>2. \A u \in User : \A d \in Adoptable(u) : box[d].label = u
    BY DEF Adoptable, Boxes
  <2>3. PoolInv'
    BY <1>1, <1>2, <1>4, <2>2 DEF PoolInv
  <2> QED
    BY <2>1, <2>3
<1>7. EarlyInv' /\ SweepInv'
  BY <1>1, <1>2, <1>3 DEF EarlyInv, SweepInv, Releaser
<1>8. LabelInv' /\ UniqueInv'
  BY <1>1 DEF LabelInv, UniqueInv, Exists
<1>9. ServiceInv'
  BY <1>1, <1>3 DEF ServiceInv, ServicesRun, Boxes, Exists, Running
<1> QED
  BY <1>1, <1>3, <1>4, <1>5, <1>6, <1>7, <1>8, <1>9 DEF ContainersTypeOK

\* The plugin stops, and releases what it finds in the pool.
LEMMA StopStep ==
  ASSUME ContainersInv, Stop \/ \E u \in User : StopAll(u)
  PROVE  ContainersInv'
<1> USE DEF ContainersInv
<1>1. CASE Stop
  <2> DEFINE p == [pc |-> "stopping", todo |-> {u \in User : containers[u] # 0}]
  <2>1. /\ plugin.pc = "ready" /\ plugin' = p
        /\ UNCHANGED <<box, containers, idle, active, turn, releasing, sweep, life>>
    BY <1>1 DEF Stop, pool
  <2>2. p \in PluginRow /\ p.pc = "stopping" /\ p.todo \subseteq User
    BY DEF PluginRow
  <2> HIDE DEF p
  <2>3. LabelInv' /\ UniqueInv' /\ HeldInv'
    BY <2>1 DEF LabelInv, UniqueInv, HeldInv, Held, Exists
  <2>4. WorkInv' /\ MakingInv' /\ PoolInv' /\ ExecsCounted' /\ SweepInv'
    BY <2>1 DEF WorkInv, MakingInv, Making, PoolInv, ExecsCounted, SweepInv, Inside
  <2>5. EarlyInv' /\ ServiceInv'
    BY <2>1, <2>2 DEF EarlyInv, ServiceInv, ServicesRun
  <2> QED
    BY <2>1, <2>2, <2>3, <2>4, <2>5 DEF ContainersTypeOK
<1>2. CASE \E u \in User : StopAll(u)
  <2>1. PICK u \in User : StopAll(u)
    BY <1>2
  <2>2. /\ plugin.pc = "stopping" /\ Release("stop", u)
        /\ plugin' = [plugin EXCEPT !.todo = @ \ {u}]
        /\ UNCHANGED <<box, idle, active, turn, sweep, life>>
        /\ "stop" \in Releaser /\ "sweep" \in Releaser \ {"stop"}
    BY <2>1 DEF StopAll, Releaser
  <2>3. /\ containers' \in [User -> Box \cup {0}] /\ containers'[u] = 0
        /\ \A v \in User \ {u} : containers'[v] = containers[v]
        /\ releasing' \in [Releaser -> ReleaseRow]
        /\ \A q \in Releaser \ {"stop"} : releasing'[q] = releasing[q]
        /\ WorkInv' /\ MakingInv' /\ PoolInv' /\ HeldInv' /\ ExecsCounted'
    BY <2>2, ReleaseMoves
  <2>4. /\ plugin' \in PluginRow /\ plugin'.pc = "stopping"
        /\ plugin'.todo \subseteq plugin.todo
    BY <2>2 DEF ContainersTypeOK, PluginRow
  <2>5. SweepInv'
    <3>1. Inside(0) = {} /\ \A d : Inside(d)' = Inside(d)
      BY <2>2 DEF Inside, WorkInv
    <3>2. sweep.pc = "release" => sweep.user \in User
      BY DEF ContainersTypeOK, SweepRow
    <3>3. releasing'["sweep"] = releasing["sweep"]
      BY <2>2, <2>3
    <3> QED
      BY <2>2, <2>3, <3>1, <3>2, <3>3 DEF SweepInv
  <2>6. LabelInv' /\ UniqueInv'
    BY <2>2 DEF LabelInv, UniqueInv, Exists
  <2>7. EarlyInv' /\ ServiceInv'
    BY <2>2, <2>4 DEF EarlyInv, ServiceInv, ServicesRun
  <2> QED
    BY <2>2, <2>3, <2>4, <2>5, <2>6, <2>7 DEF ContainersTypeOK
<1> QED
  BY <1>1, <1>2

Rest ==
  /\ turn = [t \in Turn |-> AtRest]
  /\ releasing = [r \in Releaser |-> AtRest]
  /\ containers = [u \in User |-> 0]
  /\ active = [c \in Box |-> 0]
  /\ idle = {}
  /\ sweep = SweepOff
  /\ plugin = [pc |-> "services", todo |-> Service]

RestInv ==
  /\ containers \in [User -> Box \cup {0}]
  /\ idle \subseteq Box
  /\ active \in [Box -> Nat]
  /\ turn \in [Turn -> TurnRow]
  /\ releasing \in [Releaser -> ReleaseRow]
  /\ sweep \in SweepRow
  /\ plugin \in PluginRow
  /\ HeldInv /\ WorkInv /\ MakingInv /\ PoolInv /\ ExecsCounted /\ EarlyInv /\ SweepInv /\ ServiceInv

\* In a new process nothing is under way.
LEMMA FreshProcess == Rest => RestInv
<1> SUFFICES ASSUME Rest PROVE RestInv
  OBVIOUS
<1> USE DEF Rest
<1>1. /\ AtRest \in TurnRow /\ AtRest \in ReleaseRow /\ AtRest.pc = "rest" /\ AtRest.box = 0
  BY DEF AtRest, TurnRow, ReleaseRow
<1>2. SweepOff \in SweepRow /\ SweepOff.pc = "off"
  BY DEF SweepOff, SweepRow
<1>3. plugin \in PluginRow /\ plugin.pc = "services" /\ plugin.todo = Service
  BY DEF PluginRow
<1> HIDE DEF AtRest, SweepOff
<1>4. /\ containers \in [User -> Box \cup {0}] /\ idle \subseteq Box /\ active \in [Box -> Nat]
      /\ turn \in [Turn -> TurnRow] /\ releasing \in [Releaser -> ReleaseRow]
  BY <1>1
<1>5. HeldInv
  <2>1. \A d \in Box : d # 0
    BY ContainersAssumption DEF Box
  <2> QED
    BY <1>1, <2>1 DEF HeldInv, Held
<1>6. WorkInv /\ MakingInv /\ PoolInv /\ EarlyInv
  BY <1>1 DEF WorkInv, MakingInv, Making, PoolInv, EarlyInv
<1>7. ExecsCounted
  <2>1. \A c \in Box : Execs(c) = {}
    BY <1>1 DEF Execs
  <2> QED
    BY <2>1, FS_EmptySet DEF ExecsCounted, Execs
<1>8. SweepInv
  BY <1>1, <1>2 DEF SweepInv, Releaser
<1>9. ServiceInv
  BY <1>3 DEF ServiceInv, ServicesRun
<1> QED
  BY <1>2, <1>3, <1>4, <1>5, <1>6, <1>7, <1>8, <1>9 DEF RestInv

\* The daemon keeps its containers over a restart.
LEMMA RestartStep ==
  ASSUME ContainersInv, Restart
  PROVE  ContainersInv'
<1>1. /\ box' = box /\ life' \in Nat
      /\ turn' = [t \in Turn |-> AtRest] /\ releasing' = [r \in Releaser |-> AtRest]
      /\ containers' = [u \in User |-> 0] /\ active' = [c \in Box |-> 0] /\ idle' = {}
      /\ sweep' = SweepOff /\ plugin' = [pc |-> "services", todo |-> Service]
  BY ContainersAssumption DEF Restart, ContainersInv, ContainersTypeOK
<1>2. box' \in [Box -> BoxRow] /\ LabelInv' /\ UniqueInv'
  BY <1>1 DEF ContainersInv, ContainersTypeOK, LabelInv, UniqueInv, Exists
<1>3. Rest'
  BY <1>1 DEF Rest
<1>4. RestInv'
  BY <1>3, FreshProcess, PTL
<1> QED
  BY <1>1, <1>2, <1>4 DEF RestInv, ContainersInv, ContainersTypeOK

-----------------------------------------------------------------------------
(* Theorems.                                                               *)

\* It holds at first, when the daemon has no container.
LEMMA ContainersInitial == ContainersInit => ContainersInv
<1> SUFFICES ASSUME ContainersInit PROVE ContainersInv
  OBVIOUS
<1> USE DEF ContainersInit
<1>1. NoBox \in BoxRow /\ NoBox.state = "none" /\ NoBox.label = None
  BY DEF NoBox, BoxRow
<1>2. box \in [Box -> BoxRow] /\ LabelInv /\ UniqueInv /\ life \in Nat
  BY <1>1 DEF LabelInv, UniqueInv, Exists
<1>3. RestInv
  BY FreshProcess DEF Rest
<1> QED
  BY <1>2, <1>3 DEF RestInv, ContainersInv, ContainersTypeOK

\* Every step keeps it.
LEMMA ContainersStep ==
  ASSUME ContainersInv, [ContainersNext]_vars
  PROVE  ContainersInv'
<1>1. CASE UNCHANGED vars
  <2>1. UNCHANGED <<box, containers, idle, active, turn, releasing, sweep, plugin, life>>
    BY <1>1 DEF vars, pool
  <2>2. WorkInv' /\ MakingInv' /\ PoolInv' /\ ExecsCounted' /\ EarlyInv' /\ SweepInv'
    BY <2>1 DEF ContainersInv, WorkInv, MakingInv, Making, PoolInv, ExecsCounted, EarlyInv, SweepInv,
                Inside
  <2>3. HeldInv'
    BY <2>1 DEF ContainersInv, HeldInv, Held
  <2> QED
    BY <2>1, <2>2, <2>3, BoxesStay DEF ContainersInv, ContainersTypeOK
<1>2. CASE \E t \in Turn : Ensure(t) \/ Exec(t)
  <2>1. PICK t \in Turn : Ensure(t) \/ Exec(t)
    BY <1>2
  <2> QED
    BY <2>1, LoadStep, DestroyStep, CreateStep, StartStep, PoolStep, ExecLoadStep, EnterStep,
       LeaveStep DEF Ensure, Exec
<1>3. CASE \/ \E r \in Releaser : ReleaseDestroy(r)
           \/ \E c \in Box : Ages(c)
           \/ Sweep
  BY <1>3, ReleasedStep, LookStep, SweepReleaseStep DEF Sweep
<1>4. CASE Lifecycle
  BY <1>4, StartServiceStep, MassStep, RebuildStep, StopStep, RestartStep DEF Lifecycle
<1> QED
  BY <1>1, <1>2, <1>3, <1>4 DEF ContainersNext

\* The inductive invariant of the Docker sandbox.
THEOREM ContainersInvariant == ContainersSpec => []ContainersInv
<1>1. ContainersInv /\ [ContainersNext]_vars => ContainersInv'
  BY ContainersStep
<1> QED
  BY ContainersInitial, <1>1, PTL DEF ContainersSpec

\* Every variable has its type.
THEOREM ContainersTypes == ContainersSpec => []ContainersTypeOK
<1>1. ContainersInv => ContainersTypeOK
  BY DEF ContainersInv
<1> QED
  BY <1>1, ContainersInvariant, PTL

\* Two containers of one owner never run at once, whatever the daemon refuses
\* and however turns, sweep, stop and restarts interleave (pool.go:200).
THEOREM OneBox == ContainersSpec => []OneBoxPerUser
<1>1. ContainersInv => OneBoxPerUser
  BY DEF ContainersInv, UniqueInv, OneBoxPerUser, Running, Exists
<1> QED
  BY <1>1, ContainersInvariant, PTL

\* The sweep takes a container only from commands that took it from the pool
\* before its release and too late to be counted when the sweep looked, whatever
\* turns, replacements and the other release do in between (pool.go:395).
THEOREM SweepSpares == ContainersSpec => []SweepSparesExecs
<1>1. ContainersInv => SweepSparesExecs
  BY DEF ContainersInv, SweepInv, SweepSparesExecs, Swept, Inside
<1> QED
  BY <1>1, ContainersInvariant, PTL

\* The count of a container's commands is true, even if the container is
\* replaced under them (pool.go:292).
THEOREM CountIsTrue == ContainersSpec => []ExecsCounted
<1>1. ContainersInv => ExecsCounted
  BY DEF ContainersInv
<1> QED
  BY <1>1, ContainersInvariant, PTL

\* No clean-up, release or replacement takes a service along (pool.go:425).
THEOREM ServicesKeepRunning == ContainersSpec => []ServicesRun
<1>1. ContainersInv => ServicesRun
  BY DEF ContainersInv, ServiceInv
<1> QED
  BY <1>1, ContainersInvariant, PTL

\* After a start for which the daemon listed its containers the pool is what the
\* daemon has (pool.go:442).
THEOREM PoolIsReconciled == ContainersSpec => StartReconciles
<1>1. ASSUME ContainersInv, Rebuild
      PROVE  \A c \in Box :
               Running(c) /\ box[c].label \in User <=> \E u \in User : containers'[u] = c
  <2>1. PICK choice \in [User -> Box \cup {0}] :
          /\ \A u \in User : choice[u] \in IF Adoptable(u) = {} THEN {0} ELSE Adoptable(u)
          /\ containers' = choice
    BY <1>1 DEF Rebuild
  <2>2. ASSUME NEW c \in Box, Running(c), box[c].label \in User
        PROVE  \E u \in User : containers'[u] = c
    <3> DEFINE u == box[c].label
    <3>1. c \in Adoptable(u)
      BY <2>2 DEF Adoptable, Boxes, Running, Exists
    <3>2. choice[u] \in Adoptable(u)
      BY <2>1, <2>2, <3>1
    <3>3. choice[u] = c
      BY <1>1, <3>1, <3>2 DEF ContainersInv, UniqueInv, Adoptable, Boxes
    <3> QED
      BY <2>1, <2>2, <3>3
  <2>3. ASSUME NEW c \in Box, NEW u \in User, containers'[u] = c
        PROVE  Running(c) /\ box[c].label \in User
    <3>1. c # 0
      BY ContainersAssumption DEF Box
    <3>2. c \in Adoptable(u)
      BY <2>1, <2>3, <3>1
    <3> QED
      BY <3>2 DEF Adoptable, Boxes
  <2> QED
    BY <2>2, <2>3
<1>2. ContainersInv /\ [ContainersNext]_vars =>
        [Rebuild => \A c \in Box :
           Running(c) /\ box[c].label \in User <=> \E u \in User : containers'[u] = c]_vars
  BY <1>1
<1> QED
  BY <1>2, ContainersInvariant, PTL DEF ContainersSpec, StartReconciles
=============================================================================
