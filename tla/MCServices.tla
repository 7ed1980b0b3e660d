----------------------------- MODULE MCServices -----------------------------
(***************************************************************************)
(* Two services the turns stand on, which share no state: the conversation *)
(* service with its commands, the completion service with its router.  A   *)
(* behaviour is one of one of them, the other rests in its initial state.  *)
(***************************************************************************)
EXTENDS MCCompletion, MCConversation

VARIABLE service

MCInit ==
  /\ service \in {"conversation", "completion"}
  /\ ConvInit /\ CompletionInit

MCNext ==
  /\ UNCHANGED service
  /\ \/ service = "conversation" /\ ConvNext /\ UNCHANGED completionVars
     \/ service = "completion" /\ CompletionNext /\ UNCHANGED vars

MCSpec == MCInit /\ [][MCNext]_<<service, vars, completionVars>>
=============================================================================
