--------------------------- MODULE MCAgentRuntime ---------------------------
(* A small instance of AgentRuntime for TLC: one chat, a command and a      *)
(* secret form among its messages.                                         *)
EXTENDS AgentRuntime

CONSTANTS c1

MCChatOf == [m \in Msg |-> c1]
=============================================================================
