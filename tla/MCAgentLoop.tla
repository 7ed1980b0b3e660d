---------------------------- MODULE MCAgentLoop ----------------------------
(* Small instances of AgentLoop for TLC. *)
EXTENDS AgentLoop, TLC

CONSTANTS m1, m2, m3, c1, c2

\* Two messages of one chat and, where there is a third, one of another.
MCChatOf == [m \in Msg |-> IF m = m3 THEN c2 ELSE c1]

WorkerSymmetry == Permutations(Worker)
=============================================================================
