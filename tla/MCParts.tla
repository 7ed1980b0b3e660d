------------------------------ MODULE MCParts ------------------------------
(***************************************************************************)
(* Parts that share no state: the history of a conversation with its       *)
(* summaries, the Teams channel, the skills of a tenant, the life of the   *)
(* process.  A behaviour is one of one of them, the others rest in an      *)
(* initial state.                                                          *)
(***************************************************************************)
EXTENDS MCHistory, Teams, Skills, Lifecycle, Split, Stream

CONSTANTS k1, k2, w1, w2, s1, github, weather, notes

VARIABLE part

MCBuiltins == <<
  [id |-> "tool.time", kind |-> "tool", config |-> TRUE],
  [id |-> "tool.message", kind |-> "tool", config |-> FALSE],
  [id |-> "middleware.noreply", kind |-> "middleware", config |-> FALSE] >>

Entry(k, i, e) == [id |-> k \o "." \o i, kind |-> k, enabled |-> e]

Singletons == << Entry("transport", "memory", TRUE), Entry("store", "sqlite", TRUE),
                 Entry("sandbox", "docker", TRUE) >>

MCEntries ==
  {Singletons \o llm \o channels \o tools \o middleware :
     llm \in {<<Entry("llm", "local", TRUE)>>, <<Entry("llm", "local", FALSE)>>},
     channels \in {<<Entry("channel", "teams", TRUE)>>,
                   <<Entry("channel", "telegram", TRUE), Entry("channel", "teams", TRUE)>>},
     tools \in {<<Entry("tool", "time", TRUE)>>,
                <<Entry("tool", "shell", TRUE), Entry("tool", "shell", FALSE)>>,
                <<Entry("tool", "shell", TRUE), Entry("tool", "shell", TRUE)>>},
     middleware \in {<<>>, <<Entry("middleware", "noreply", TRUE), Entry("middleware", "command", TRUE)>>}}

MCConfigs ==
  [entries : MCEntries, routes : {{"llm.local"}}, wellFormed : {TRUE},
   chain : {<<>>, <<"middleware.command", "middleware.noreply">>, <<"middleware.noreply", "middleware.noreply">>}]

Smallest == CHOOSE c \in MCConfigs : Len(c.entries) = 6

MCInit ==
  /\ part \in {"history", "teams", "skills", "lifecycle"}
  /\ HistoryInit /\ TeamsInit /\ SkillsInit /\ LifecycleInit
  /\ part # "skills" => globals = {}
  /\ part # "lifecycle" => config = Smallest

MCNext ==
  /\ UNCHANGED part
  /\ \/ /\ part = "history" /\ HistoryNext
        /\ UNCHANGED <<teamsVars, skillVars, lifecycleVars>>
     \/ /\ part = "teams" /\ TeamsNext
        /\ UNCHANGED <<vars, skillVars, lifecycleVars>>
     \/ /\ part = "skills" /\ SkillsNext
        /\ UNCHANGED <<vars, teamsVars, lifecycleVars>>
     \/ /\ part = "lifecycle" /\ LifecycleNext
        /\ UNCHANGED <<vars, teamsVars, skillVars>>

MCSpec == MCInit /\ [][MCNext]_<<part, vars, teamsVars, skillVars, lifecycleVars>>

\* Every content of up to seven bytes, cut into parts of four.
ASSUME \A n \in 0..7 : \A content \in [1..n -> {"a", ".", " ", "nl"}] : SplitsWell(content, 4)

\* Every sequence of up to three deltas of up to three calls.
Delta ==
  [index : 0..2, id : {"c1"}, name : {"shell"}, arguments : {<<>>, <<"x">>, <<"y">>}]
    \cup [index : 0..2, id : {Nil}, name : {Nil}, arguments : {<<"x">>}]

ASSUME \A n \in 0..3 : \A deltas \in [1..n -> Delta] :
         GapLoses(deltas) /\ \A cut \in 0..n : StreamsWell(deltas, cut)
=============================================================================
