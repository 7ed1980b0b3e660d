---------------------------- MODULE MCContainers ----------------------------
(* Small instances of Containers for TLC.                                  *)
EXTENDS Containers

CONSTANTS u1, u2, t1, t2, t3, private, group, s1

\* u1 writes in two chats, u2 in one.
MCUserOf == [t \in Turn |-> IF t = t3 THEN u2 ELSE u1]
MCBindsOf == [t \in Turn |-> IF t = t2 THEN group ELSE private]

\* The names of users begin with the same letters when they joined within a
\* minute: here all do.
SameName == [u \in User |-> "whiteagent"]
=============================================================================
