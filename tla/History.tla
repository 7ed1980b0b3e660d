------------------------------- MODULE History -------------------------------
(***************************************************************************)
(* The history of one conversation: the inbound handler that mints its     *)
(* messages, the turns that save them, the prompts built from it           *)
(* (service/prompt), and the background compaction that replaces its older *)
(* part by a summary (service/compaction).                                 *)
(*                                                                         *)
(* Message IDs are UUIDv7, ordered by the time they were minted: here      *)
(* numbers.  A message is minted in one step and saved in a later one, so  *)
(* the order in which the store gets them is another.                      *)
(***************************************************************************)
EXTENDS Naturals, Sequences, FiniteSets, FiniteSetsExt

CONSTANTS
  MaxMsg,         \* bounds the messages ever minted
  MaxQueue,       \* bounds the messages waiting for their turn
  MaxIterations,  \* LLM calls of a turn
  MaxCalls,       \* tool calls of one answer
  Cost,           \* tokens of a message by its role
  SummaryCost,    \* tokens of a summary
  Budget,         \* tokens left beside the system prompt
  Threshold,      \* tokens of summary and history from which on it is compacted
  Preserve,       \* newest messages a summary leaves out
  MaxLife,        \* bounds the runs of the process
  Group,          \* whether messages that do not mention the agent are saved
  HasFile         \* messages with an attachment

ASSUME HistoryAssumption ==
  /\ {MaxMsg, MaxQueue, MaxIterations, MaxCalls, SummaryCost, Budget, Threshold, MaxLife} \subseteq Nat
  /\ Preserve \in Nat \ {0}
  /\ Cost \in [{"user", "call", "result", "text"} -> Nat \ {0}]
  /\ Group \in BOOLEAN
  /\ HasFile \subseteq 1..MaxMsg

VARIABLES
  log,         \* minted messages: role, the call a result belongs to
  saved,       \* those in the store
  received,    \* the message in the hands of the inbound handler, or 0
  queue,       \* messages on the bus
  turn,        \* the turn under way
  summaries,   \* stored summaries, oldest first
  compacting,  \* guard: a compaction of the conversation is under way
  jobs,        \* compactions under way
  late,        \* history: messages saved after a compaction had read past them
  life

vars == <<log, saved, received, queue, turn, summaries, compacting, jobs, late, life>>

Msg == 1..Len(log)
NoTurn == [pc |-> "idle"]
NoSummary == [upTo |-> 0, covers |-> {}, files |-> {}]

HistoryInit ==
  /\ log = <<>>
  /\ saved = {}
  /\ received = 0
  /\ queue = <<>>
  /\ turn = NoTurn
  /\ summaries = <<>>
  /\ compacting = FALSE
  /\ jobs = {}
  /\ late = {}
  /\ life = 1

Minted(role, of) ==
  /\ Len(log) < MaxMsg
  /\ log' = Append(log, [role |-> role, of |-> of])

\* Append of the conversation service; the store ignores an ID it has.
Save(m) ==
  /\ saved' = saved \cup {m}
  /\ late' = IF \/ \E i \in DOMAIN summaries : m <= summaries[i].upTo
                \/ \E j \in jobs : j.pc = "summarize" /\ m <= Max(j.history)
               THEN late \cup {m} ELSE late

-----------------------------------------------------------------------------
(* Inbound messages.                                                       *)

Receive ==
  /\ received = 0
  /\ Minted("user", 0)
  /\ received' = Len(log')
  /\ UNCHANGED <<saved, queue, turn, summaries, compacting, jobs, late, life>>

Enqueue ==
  /\ received # 0
  /\ Len(queue) < MaxQueue
  /\ queue' = Append(queue, received)
  /\ received' = 0
  /\ UNCHANGED <<log, saved, turn, summaries, compacting, jobs, late, life>>

\* A group message that does not mention the agent is saved at once, also while
\* a turn is running.
Overhear ==
  /\ Group
  /\ received # 0
  /\ Save(received)
  /\ received' = 0
  /\ UNCHANGED <<log, queue, turn, summaries, compacting, jobs, life>>

-----------------------------------------------------------------------------
(* Which messages a prompt shows.                                          *)

\* Messages of the conversation up to an ID (0 is no bound), ordered by it.
HistoryUpTo(id) == {m \in saved : id = 0 \/ m <= id}

AfterSummary(H, s) == {m \in H : m > s.upTo}

\* A call and the results that follow it directly: kept or left out as a unit.
Results(H, c) ==
  {r \in H : /\ r > c
             /\ \A x \in H : c < x /\ x <= r => log[x].role = "result" /\ log[x].of = c}

Starts(H) == H \ UNION {Results(H, c) : c \in {m \in H : log[m].role = "call"}}

Tokens(H) == MapThenSumSet(LAMBDA m : Cost[log[m].role], H)

\* Mutant: a unit that does not fit is skipped and older ones are tried.
WindowSkipping(H, budget) ==
  {m \in H : \E s \in Starts(H) :
     /\ m \in {s} \cup Results(H, s)
     /\ Tokens({s} \cup Results(H, s)) <= budget}

\* The newest units that fit, and no unit older than one that does not.
Window(H, budget) ==
  {m \in H : \E s \in Starts(H) : s <= m /\ Tokens({x \in H : x >= s}) <= budget}

Latest == IF summaries = <<>> THEN NoSummary ELSE summaries[Len(summaries)]

SummaryTokens(s) == IF s.upTo = 0 THEN 0 ELSE SummaryCost

Prompt(H, s) ==
  LET left == IF Budget > SummaryTokens(s) THEN Budget - SummaryTokens(s) ELSE 0
  IN Window(AfterSummary(H, s), left)

-----------------------------------------------------------------------------
(* A turn.  The mutex of the chat lets one run at a time.                  *)

Moves(pc) == turn' = [turn EXCEPT !.pc = pc]

\* The message is saved; if that fails the turn ends.
StartTurn ==
  /\ turn.pc = "idle"
  /\ queue # <<>>
  /\ queue' = Tail(queue)
  /\ \/ /\ Save(Head(queue))
        /\ turn' = [pc |-> "build", msg |-> Head(queue), iteration |-> 1, history |-> {},
                    prompt |-> {}, asked |-> FALSE, append |-> 0, results |-> <<>>]
     \/ UNCHANGED <<saved, late, turn>>
  /\ UNCHANGED <<log, received, summaries, compacting, jobs, life>>

\* Build: the first call of a turn sees nothing newer than its message.
FetchHistory ==
  /\ turn.pc = "build"
  /\ turn' = [turn EXCEPT !.pc = "summary",
                          !.history = HistoryUpTo(IF turn.iteration = 1 THEN turn.msg ELSE 0)]
  /\ UNCHANGED <<log, saved, received, queue, summaries, compacting, jobs, late, life>>

\* Mutant: nobody looks whether a compaction is under way.
MayCompactAlways == TRUE

MayCompact == ~compacting

\* Build with the summary s, and the compaction it asks for: once in a turn, and
\* not beside another one of the conversation.  A prompt without history asks
\* for it up to the message of the turn.
Build(s) ==
  LET prompt == Prompt(turn.history, s)
      signal == SummaryTokens(s) + Tokens(prompt) >= Threshold
      upTo == IF turn.iteration = 1 \/ prompt = {} THEN turn.msg ELSE Max(prompt)
      starts == signal /\ ~turn.asked /\ MayCompact
  IN /\ turn.pc = "summary"
     /\ turn' = [turn EXCEPT !.pc = "llm", !.prompt = prompt, !.asked = @ \/ signal]
     /\ compacting' = (compacting \/ starts)
     /\ jobs' = IF starts THEN jobs \cup {[pc |-> "read", upTo |-> upTo]} ELSE jobs
     /\ UNCHANGED <<log, saved, received, queue, summaries, late, life>>

\* When the fetch fails the prompt is built without a summary.
FetchSummary == Build(Latest) \/ Build(NoSummary)

\* The answer of the model: final, or with tool calls.
Answer(calls) ==
  /\ turn.pc = "llm"
  /\ Minted(IF calls = 0 THEN "text" ELSE "call", 0)
  /\ turn' = [turn EXCEPT !.pc = "append", !.append = Len(log'), !.results = [i \in 1..calls |-> 0]]
  /\ UNCHANGED <<saved, received, queue, summaries, compacting, jobs, late, life>>

AppendAnswer ==
  /\ turn.pc = "append"
  /\ Save(turn.append)
  /\ turn' = IF turn.results = <<>> THEN NoTurn ELSE [turn EXCEPT !.pc = "tools"]
  /\ UNCHANGED <<log, received, queue, summaries, compacting, jobs, life>>

\* The tools run in parallel; their results are minted as they end.
ToolEnds(i) ==
  /\ turn.pc = "tools"
  /\ i \in DOMAIN turn.results
  /\ turn.results[i] = 0
  /\ Minted("result", turn.append)
  /\ turn' = [turn EXCEPT !.results[i] = Len(log')]
  /\ UNCHANGED <<saved, received, queue, summaries, compacting, jobs, late, life>>

\* Once all have ended they are saved in the order of the calls.
AppendResult ==
  LET unsaved == {i \in DOMAIN turn.results : turn.results[i] \notin saved}
  IN /\ turn.pc = "tools"
     /\ \A i \in DOMAIN turn.results : turn.results[i] # 0
     /\ unsaved # {}
     /\ Save(turn.results[Min(unsaved)])
     /\ turn' = IF Cardinality(unsaved) > 1 THEN turn
                ELSE IF turn.iteration = MaxIterations THEN NoTurn
                ELSE [turn EXCEPT !.pc = "build", !.iteration = @ + 1]
     /\ UNCHANGED <<log, received, queue, summaries, compacting, jobs, life>>

\* The store, the model or the deadline fails the turn.
TurnFails ==
  /\ turn.pc # "idle"
  /\ turn' = NoTurn
  /\ UNCHANGED <<log, saved, received, queue, summaries, compacting, jobs, late, life>>

Turn ==
  \/ StartTurn \/ FetchHistory \/ FetchSummary
  \/ (\E calls \in 0..MaxCalls : Answer(calls)) \/ AppendAnswer
  \/ (\E i \in 1..MaxCalls : ToolEnds(i)) \/ AppendResult \/ TurnFails

-----------------------------------------------------------------------------
(* Compact, in a goroutine of its own.                                     *)

EndJob(j) ==
  /\ jobs' = jobs \ {j}
  /\ compacting' = FALSE

\* Mutant: the newest message is summarised and the oldest are preserved.
OlderThanTailReversed(H) == {m \in H : Cardinality({x \in H : x < m}) >= Preserve}

\* What is left of H without its newest messages.
OlderThanTail(H) == {m \in H : Cardinality({x \in H : x > m}) >= Preserve}

CompactRead(j) ==
  LET history == OlderThanTail(AfterSummary(HistoryUpTo(j.upTo), Latest))
  IN /\ j \in jobs
     /\ j.pc = "read"
     /\ IF history = {}
          THEN EndJob(j)
          ELSE /\ jobs' = (jobs \ {j}) \cup
                            {[pc |-> "summarize", upTo |-> j.upTo, prior |-> Latest, history |-> history]}
               /\ UNCHANGED compacting
     /\ UNCHANGED <<log, saved, received, queue, turn, summaries, late, life>>

\* attachmentRefs.
Files(history) == history \cap HasFile

\* normalizeSummary: the model merges the prior summary with the history, but
\* whatever it says of files is replaced by those of the history alone.
Summary(prior, history) ==
  [upTo |-> Max(history), covers |-> prior.covers \cup history, files |-> Files(history)]

CompactSave(j) ==
  /\ j \in jobs
  /\ j.pc = "summarize"
  /\ summaries' = Append(summaries, Summary(j.prior, j.history))
  /\ EndJob(j)
  /\ UNCHANGED <<log, saved, received, queue, turn, late, life>>

\* The store or the model fails.
CompactFails(j) ==
  /\ j \in jobs
  /\ EndJob(j)
  /\ UNCHANGED <<log, saved, received, queue, turn, summaries, late, life>>

Restart ==
  /\ life < MaxLife
  /\ life' = life + 1
  /\ received' = 0
  /\ queue' = <<>>
  /\ turn' = NoTurn
  /\ jobs' = {}
  /\ compacting' = FALSE
  /\ UNCHANGED <<log, saved, summaries, late>>

HistoryNext ==
  \/ Receive \/ Enqueue \/ Overhear
  \/ Turn
  \/ \E j \in jobs : CompactRead(j) \/ CompactSave(j) \/ CompactFails(j)
  \/ Restart

HistorySpec == HistoryInit /\ [][HistoryNext]_vars

-----------------------------------------------------------------------------
(* Properties.                                                             *)

\* What a summary, a turn and a compaction are made of.
ID == 1..MaxMsg
SummaryRow == [upTo : ID \cup {0}, covers : SUBSET ID, files : SUBSET ID]
TurnRow ==
  [pc : {"build", "summary", "llm", "append", "tools"}, msg : ID, iteration : Nat,
   history : SUBSET ID, prompt : SUBSET ID, asked : BOOLEAN, append : ID \cup {0},
   results : Seq(ID \cup {0})]
JobRow ==
  [pc : {"read"}, upTo : ID] \cup
  [pc : {"summarize"}, upTo : ID, prior : SummaryRow, history : SUBSET ID]

\* Every variable has its type, and what is stored was minted.
HistoryTypeOK ==
  /\ log \in Seq([role : {"user", "call", "result", "text"}, of : ID \cup {0}])
  /\ Len(log) <= MaxMsg
  /\ saved \subseteq Msg
  /\ received \in ID \cup {0}
  /\ queue \in Seq(ID)
  /\ Len(queue) <= MaxQueue
  /\ turn \in {NoTurn} \cup TurnRow
  /\ summaries \in Seq(SummaryRow)
  /\ compacting \in BOOLEAN
  /\ jobs \subseteq JobRow
  /\ late \subseteq saved
  /\ life \in Nat

\* Nothing a user wrote is lost to the model by compaction: a stored message is
\* either newer than the latest summary or covered by it, through the chain of
\* the summaries before it, although messages are saved while the compaction
\* runs.  What it had read past already is the exception (see ShownInItsTurn).
NothingForgotten == \A m \in saved \ late : m > Latest.upTo \/ m \in Latest.covers

\* The summary that counts never goes back to an earlier one's range, also when
\* turns ask for compactions faster than they end (loop.go:317).
SummaryAdvances ==
  [][/\ Latest.upTo <= Latest'.upTo
     /\ Latest.covers \subseteq Latest'.covers]_vars

\* A prompt has no holes: what it leaves out of the history after the summary is
\* older than all it shows (windowMessages stops at the first unit that is too
\* large, render.go:151).
PromptIsSuffix ==
  turn.pc = "llm" =>
    \A m \in turn.prompt, x \in turn.history :
      x > m => x \in turn.prompt \/ x <= Latest.upTo

-----------------------------------------------------------------------------
(* What the code's words promise and the code does not do.                 *)

\* "Tool call groups (assistant + tool results) form a single group" that is
\* "kept or evicted as a unit" (render.go:26): a prompt that shows a call shows
\* all its results, and one that shows a result shows its call.
ExchangesWhole ==
  turn.pc = "llm" =>
    \A r \in saved :
      log[r].role = "result" => (r \in turn.prompt <=> log[r].of \in turn.prompt)

\* A turn's first prompt shows its message: a message that waits in the queue has
\* its place in the history before the messages of the running turn, and the
\* compaction of that turn may pass it by.
ShownInItsTurn ==
  turn.pc = "llm" /\ turn.iteration = 1 /\ SummaryCost + Cost["user"] <= Budget =>
    turn.msg \in turn.prompt

\* "file references are extracted separately" (compaction.tmpl:13): the summary
\* that replaces the history names the files of all it covers.
FilesKept == Files(Latest.covers) = Latest.files
=============================================================================
