---------------------------- MODULE PartsProofs -----------------------------
(***************************************************************************)
(* Proofs about the parts that share no state: the history of a            *)
(* conversation, the Teams channel, the skills of a tenant and the life of *)
(* the process, each for any values of its constants.                      *)
(***************************************************************************)
EXTENDS History, Teams, Skills, Lifecycle, FiniteSetTheorems, WellFoundedInduction, TLAPS

-----------------------------------------------------------------------------
(* History.                                                                *)

\* Every message in somebody's hands was minted.
MintedInv ==
  /\ received <= Len(log)
  /\ \A i \in DOMAIN queue : queue[i] <= Len(log)
  /\ turn.pc # "idle" =>
       /\ turn.pc = "append" => turn.append # 0
       /\ turn.append <= Len(log)
       /\ \A i \in DOMAIN turn.results : turn.results[i] <= Len(log)

\* What a compaction has read: what is between the latest summary and its end,
\* but for what was saved too late.
ReadInv(j) ==
  j.pc = "summarize" =>
    /\ j.prior = Latest
    /\ j.history # {}
    /\ j.history \subseteq saved
    /\ \A m \in j.history : m > Latest.upTo
    /\ \A m \in saved \ late : m > Latest.upTo /\ m <= Max(j.history) => m \in j.history

\* One compaction at a time.
JobInv ==
  /\ compacting <=> jobs # {}
  /\ \A j, k \in jobs : j = k
  /\ \A j \in jobs : ReadInv(j)

HistoryInv ==
  /\ HistoryTypeOK
  /\ MintedInv
  /\ JobInv
  /\ NothingForgotten
  /\ PromptIsSuffix

\* A set of natural numbers that is not empty has a least one.
LEMMA LeastExists ==
  ASSUME NEW S \in SUBSET Nat, S # {}
  PROVE  Min(S) \in S /\ \A y \in S : Min(S) =< y
<1>1. PICK x \in S : \A y \in S : ~(<<y, x>> \in OpToRel(<, Nat))
  BY NatLessThanWellFounded, WFMin
<1>2. \A y \in S : ~(y < x)
  BY <1>1 DEF OpToRel
<1>3. \A y \in S : x =< y
  BY <1>2
<1> QED
  BY <1>3 DEF Min

\* A set of messages that is not empty has a newest one.
LEMMA NewestExists ==
  ASSUME NEW S \in SUBSET ID, S # {}
  PROVE  Max(S) \in S /\ \A y \in S : Max(S) >= y
<1>1. MaxMsg \in Nat
  BY HistoryAssumption
<1> DEFINE T == {n \in Nat : MaxMsg - n \in S}
<1>2. \A x \in S : x \in Nat /\ MaxMsg - x \in T
  BY <1>1 DEF ID
<1>3. T \in SUBSET Nat /\ T # {}
  BY <1>2
<1>4. Min(T) \in T /\ \A y \in T : Min(T) =< y
  BY <1>3, LeastExists
<1>5. PICK n \in T : \A y \in T : n =< y
  BY <1>4
<1>6. MaxMsg - n \in S /\ n \in Nat
  BY <1>5
<1>7. ASSUME NEW y \in S
      PROVE  MaxMsg - n >= y
  <2>1. y \in Nat /\ n =< MaxMsg - y
    BY <1>2, <1>5
  <2> QED
    BY <1>1, <1>6, <2>1
<1> QED
  BY <1>6, <1>7 DEF Max

\* The latest summary is one.
LEMMA LatestTyped ==
  ASSUME HistoryTypeOK
  PROVE  /\ Latest \in SummaryRow /\ Latest.upTo \in ID \cup {0} /\ Latest.covers \subseteq ID
         /\ summaries # <<>> => Len(summaries) \in DOMAIN summaries /\ Latest = summaries[Len(summaries)]
         /\ summaries = <<>> => Latest.upTo = 0
<1>1. NoSummary \in SummaryRow /\ NoSummary.upTo = 0
  BY DEF NoSummary, SummaryRow
<1>2. CASE summaries = <<>>
  BY <1>1, <1>2 DEF Latest, SummaryRow
<1>3. CASE summaries # <<>>
  <2>1. summaries \in Seq(SummaryRow)
    BY DEF HistoryTypeOK
  <2>2. Len(summaries) \in DOMAIN summaries /\ summaries[Len(summaries)] \in SummaryRow
    BY <1>3, <2>1
  <2>3. Latest = summaries[Len(summaries)]
    BY <1>3 DEF Latest
  <2>4. Latest.upTo \in ID \cup {0} /\ Latest.covers \subseteq ID
    BY <2>2, <2>3 DEF SummaryRow
  <2> QED
    BY <1>3, <2>2, <2>3, <2>4
<1> QED
  BY <1>2, <1>3

\* Messages are numbers.
LEMMA MessagesTyped ==
  ASSUME HistoryTypeOK
  PROVE  /\ MaxMsg \in Nat /\ Len(log) \in Nat /\ Len(log) =< MaxMsg
         /\ ID \subseteq Nat \ {0} /\ Msg \subseteq ID /\ saved \subseteq ID /\ late \subseteq ID
<1>1. MaxMsg \in Nat /\ Len(log) \in Nat /\ Len(log) =< MaxMsg
  BY HistoryAssumption DEF HistoryTypeOK
<1>2. ID \subseteq Nat \ {0} /\ Msg \subseteq ID
  BY <1>1 DEF ID, Msg
<1>3. saved \subseteq Msg /\ late \subseteq saved
  BY DEF HistoryTypeOK
<1> QED
  BY <1>1, <1>2, <1>3

\* While nothing is saved or summarised, neither are the compactions disturbed
\* nor is anything forgotten.
LEMMA Quiet ==
  ASSUME HistoryInv, UNCHANGED <<saved, summaries, compacting, jobs, late>>
  PROVE  JobInv' /\ NothingForgotten' /\ Latest' = Latest
BY DEF HistoryInv, JobInv, ReadInv, NothingForgotten, Latest

\* A message that is saved is newer than the latest summary and than what a
\* compaction has read, or it is late.
LEMMA SaveKeeps ==
  ASSUME HistoryInv, NEW m \in Msg, Save(m), UNCHANGED <<log, summaries, compacting, jobs>>
  PROVE  /\ saved' \subseteq Msg' /\ late' \subseteq saved'
         /\ JobInv' /\ NothingForgotten' /\ Latest' = Latest
<1> USE DEF HistoryInv
<1>1. saved' = saved \cup {m} /\ late' \in {late, late \cup {m}}
  BY DEF Save
<1>2. Latest' = Latest /\ Msg' = Msg
  BY DEF Latest, Msg
<1>3. saved' \subseteq Msg' /\ late' \subseteq saved'
  BY <1>1, <1>2 DEF HistoryTypeOK
<1>4. m \in Nat \ {0}
  BY MessagesTyped
<1>5. m \notin late' => m > Latest.upTo
  <2>1. CASE summaries = <<>>
    BY <1>4, <2>1, LatestTyped
  <2>2. CASE summaries # <<>>
    <3>1. Len(summaries) \in DOMAIN summaries /\ Latest = summaries[Len(summaries)]
      BY <2>2, LatestTyped
    <3>2. m <= Latest.upTo => m \in late'
      BY <3>1 DEF Save
    <3>3. Latest.upTo \in Nat
      BY LatestTyped, MessagesTyped
    <3> QED
      BY <1>4, <3>2, <3>3
  <2> QED
    BY <2>1, <2>2
<1>6. NothingForgotten'
  BY <1>1, <1>2, <1>5 DEF NothingForgotten
<1>7. \A j \in jobs : j.pc = "summarize" /\ m \notin late' => ~(m <= Max(j.history))
  BY DEF Save
<1>8. ASSUME NEW j \in jobs
      PROVE  ReadInv(j)'
  BY <1>1, <1>2, <1>7, <1>8 DEF JobInv, ReadInv
<1>9. JobInv'
  BY <1>8 DEF JobInv
<1> QED
  BY <1>2, <1>3, <1>6, <1>9

\* A message gets the next number.
LEMMA MintedNext ==
  ASSUME HistoryTypeOK, NEW role \in {"user", "call", "result", "text"}, NEW of \in ID \cup {0},
         Minted(role, of)
  PROVE  /\ log' \in Seq([role : {"user", "call", "result", "text"}, of : ID \cup {0}])
         /\ Len(log') = Len(log) + 1 /\ Len(log') \in ID /\ Len(log') <= MaxMsg
         /\ Msg \subseteq Msg'
<1> DEFINE Row == [role : {"user", "call", "result", "text"}, of : ID \cup {0}]
           r == [role |-> role, of |-> of]
<1>1. log \in Seq(Row) /\ r \in Row
  BY DEF HistoryTypeOK
<1>2. Len(log) < MaxMsg /\ log' = Append(log, r)
  BY DEF Minted
<1> HIDE DEF Row, r
<1>3. log' \in Seq(Row) /\ Len(log') = Len(log) + 1
  BY <1>1, <1>2
<1>4. Len(log') \in ID /\ Len(log') <= MaxMsg /\ Msg \subseteq Msg'
  BY <1>2, <1>3, MessagesTyped DEF ID, Msg
<1> QED
  BY <1>3, <1>4 DEF Row

\* The turn under way, with the fields it has.
LEMMA TurnTyped ==
  ASSUME HistoryTypeOK, turn.pc # "idle"
  PROVE  /\ turn \in TurnRow
         /\ turn.msg \in ID /\ turn.iteration \in Nat /\ turn.history \subseteq ID
         /\ turn.prompt \subseteq ID /\ turn.append \in ID \cup {0}
         /\ turn.results \in Seq(ID \cup {0})
BY DEF HistoryTypeOK, NoTurn, TurnRow

\* A message comes in and goes on the bus.
LEMMA InboundStep ==
  ASSUME HistoryInv, Receive \/ Enqueue
  PROVE  HistoryInv'
<1> USE DEF HistoryInv
<1>1. UNCHANGED <<saved, turn, summaries, compacting, jobs, late, life>>
  BY DEF Receive, Enqueue
<1>2. JobInv' /\ NothingForgotten' /\ PromptIsSuffix'
  BY <1>1, Quiet DEF PromptIsSuffix
<1>3. CASE Receive
  <2>1. Minted("user", 0) /\ received' = Len(log') /\ queue' = queue
    BY <1>3 DEF Receive
  <2>2. /\ log' \in Seq([role : {"user", "call", "result", "text"}, of : ID \cup {0}])
        /\ Len(log') = Len(log) + 1 /\ Len(log') \in ID /\ Len(log') <= MaxMsg
        /\ Msg \subseteq Msg'
    BY <2>1, MintedNext
  <2>3. HistoryTypeOK'
    BY <1>1, <2>1, <2>2 DEF HistoryTypeOK
  <2>4. MintedInv'
    <3>1. \A i \in DOMAIN queue : queue[i] \in Nat
      BY MessagesTyped DEF HistoryTypeOK
    <3>2. turn.pc # "idle" => turn.append \in Nat /\ \A i \in DOMAIN turn.results : turn.results[i] \in Nat
      BY TurnTyped, MessagesTyped
    <3> QED
      BY <1>1, <2>1, <2>2, <3>1, <3>2, MessagesTyped DEF MintedInv
  <2> QED
    BY <1>2, <2>3, <2>4
<1>4. CASE Enqueue
  <2>1. /\ received \in ID /\ Len(queue) < MaxQueue
        /\ queue' = Append(queue, received) /\ received' = 0 /\ log' = log
    BY <1>4 DEF Enqueue, HistoryTypeOK
  <2>2. /\ queue' \in Seq(ID) /\ Len(queue') <= MaxQueue
        /\ \A i \in DOMAIN queue' : queue'[i] = received \/ (i \in DOMAIN queue /\ queue'[i] = queue[i])
    <3>1. queue \in Seq(ID)
      BY DEF HistoryTypeOK
    <3>2. MaxQueue \in Nat
      BY HistoryAssumption
    <3> QED
      BY <2>1, <3>1, <3>2
  <2>3. HistoryTypeOK'
    BY <1>1, <2>1, <2>2 DEF HistoryTypeOK, Msg
  <2>4. MintedInv'
    BY <1>1, <2>1, <2>2, MessagesTyped DEF MintedInv
  <2> QED
    BY <1>2, <2>3, <2>4
<1> QED
  BY <1>3, <1>4

\* A message is saved that no turn is for.
LEMMA OverhearStep ==
  ASSUME HistoryInv, Overhear
  PROVE  HistoryInv'
<1> USE DEF HistoryInv
<1>1. /\ received # 0 /\ Save(received) /\ received' = 0
      /\ UNCHANGED <<log, queue, turn, summaries, compacting, jobs, life>>
  BY DEF Overhear
<1>2. received \in Msg
  BY <1>1, MessagesTyped DEF HistoryTypeOK, MintedInv, Msg
<1>3. /\ saved' \subseteq Msg' /\ late' \subseteq saved'
      /\ JobInv' /\ NothingForgotten' /\ Latest' = Latest
  BY <1>1, <1>2, SaveKeeps
<1>4. HistoryTypeOK'
  BY <1>1, <1>3 DEF HistoryTypeOK
<1>5. MintedInv'
  BY <1>1, MessagesTyped DEF MintedInv
<1>6. PromptIsSuffix'
  BY <1>1, <1>3 DEF PromptIsSuffix
<1> QED
  BY <1>3, <1>4, <1>5, <1>6

\* The turn takes its message, and saves it or ends.
LEMMA StartTurnStep ==
  ASSUME HistoryInv, StartTurn
  PROVE  HistoryInv'
<1> USE DEF HistoryInv
<1> DEFINE m == Head(queue)
           r == [pc |-> "build", msg |-> m, iteration |-> 1, history |-> {}, prompt |-> {},
                 asked |-> FALSE, append |-> 0, results |-> <<>>]
<1>1. /\ turn.pc = "idle" /\ queue # <<>> /\ queue' = Tail(queue)
      /\ (Save(m) /\ turn' = r) \/ UNCHANGED <<saved, late, turn>>
      /\ UNCHANGED <<log, received, summaries, compacting, jobs, life>>
  BY DEF StartTurn
<1>2. /\ m \in ID /\ m \in Msg
      /\ queue' \in Seq(ID) /\ Len(queue') <= MaxQueue
      /\ \A i \in DOMAIN queue' : i + 1 \in DOMAIN queue /\ queue'[i] = queue[i + 1]
  <2>1. queue \in Seq(ID) /\ Len(queue) <= MaxQueue
    BY DEF HistoryTypeOK
  <2>2. MaxQueue \in Nat
    BY HistoryAssumption
  <2>3. m = queue[1] /\ 1 \in DOMAIN queue /\ m \in ID
    BY <1>1, <2>1
  <2>4. m \in Msg
    BY <2>3, MessagesTyped DEF MintedInv, Msg
  <2>5. queue' \in Seq(ID) /\ Len(queue') = Len(queue) - 1
    BY <1>1, <2>1
  <2>6. \A i \in DOMAIN queue' : i + 1 \in DOMAIN queue /\ queue'[i] = queue[i + 1]
    BY <1>1, <2>1, <2>5
  <2> QED
    BY <2>1, <2>2, <2>3, <2>4, <2>5, <2>6
<1>3. /\ r \in TurnRow /\ r.pc = "build" /\ r.append = 0 /\ r.results = <<>>
  BY <1>2 DEF TurnRow
<1> HIDE DEF m, r
<1>4. /\ saved' \subseteq Msg' /\ late' \subseteq saved'
      /\ JobInv' /\ NothingForgotten'
  <2>1. CASE Save(m)
    BY <1>1, <1>2, <2>1, SaveKeeps
  <2>2. CASE UNCHANGED <<saved, late, turn>>
    BY <1>1, <2>2, Quiet DEF HistoryTypeOK, Msg
  <2> QED
    BY <1>1, <2>1, <2>2
<1>5. HistoryTypeOK'
  BY <1>1, <1>2, <1>3, <1>4 DEF HistoryTypeOK
<1>6. MintedInv'
  BY <1>1, <1>2, <1>3, MessagesTyped DEF MintedInv
<1>7. PromptIsSuffix'
  BY <1>1, <1>3 DEF PromptIsSuffix
<1> QED
  BY <1>4, <1>5, <1>6, <1>7

\* The window has no hole.
LEMMA WindowWhole ==
  ASSUME NEW H \in SUBSET Nat, NEW budget, NEW m \in Window(H, budget), NEW x \in H, x > m
  PROVE  x \in Window(H, budget)
<1>1. PICK s \in Starts(H) : s <= m /\ Tokens({y \in H : y >= s}) <= budget
  BY DEF Window
<1>2. s \in Nat /\ m \in Nat /\ x \in Nat
  BY DEF Starts, Window
<1>3. s <= x
  BY <1>1, <1>2
<1> QED
  BY <1>1, <1>3 DEF Window

\* The turn reads the history, then the summary; what its prompt leaves out is
\* older than what it shows, or summarised.  It may ask for a compaction.
LEMMA BuildStep ==
  ASSUME HistoryInv, FetchHistory \/ FetchSummary
  PROVE  HistoryInv'
<1> USE DEF HistoryInv
<1>1. UNCHANGED <<log, saved, received, queue, summaries, late, life>>
  BY DEF FetchHistory, FetchSummary, Build
<1>2. /\ turn.pc \in {"build", "summary"} /\ turn \in TurnRow
      /\ turn.msg \in ID /\ turn.history \subseteq ID
      /\ saved \subseteq ID
  BY TurnTyped, MessagesTyped DEF FetchHistory, FetchSummary, Build
<1>3. CASE FetchHistory
  <2> DEFINE h == HistoryUpTo(IF turn.iteration = 1 THEN turn.msg ELSE 0)
  <2>1. turn' = [turn EXCEPT !.pc = "summary", !.history = h] /\ UNCHANGED <<compacting, jobs>>
    BY <1>3 DEF FetchHistory
  <2>2. h \subseteq ID
    BY <1>2 DEF HistoryUpTo
  <2> HIDE DEF h
  <2>3. /\ turn' \in TurnRow /\ turn'.pc = "summary"
        /\ turn'.append = turn.append /\ turn'.results = turn.results
    BY <1>2, <2>1, <2>2 DEF TurnRow
  <2>4. HistoryTypeOK'
    BY <1>1, <2>1, <2>3 DEF HistoryTypeOK, Msg
  <2>5. MintedInv' /\ PromptIsSuffix'
    BY <1>1, <1>2, <2>3 DEF MintedInv, PromptIsSuffix
  <2> QED
    BY <1>1, <2>1, <2>4, <2>5, Quiet
<1>4. CASE FetchSummary
  <2>9. PICK s : s \in {Latest, NoSummary} /\ Build(s)
    BY <1>4 DEF FetchSummary
  <2>10. s.upTo \in Nat /\ Latest.upTo \in Nat /\ s.upTo <= Latest.upTo
    <3>1. Latest.upTo \in Nat
      BY MessagesTyped, LatestTyped
    <3> QED
      BY <2>9, <3>1 DEF NoSummary
  <2> DEFINE prompt == Prompt(turn.history, s)
             signal == SummaryTokens(s) + Tokens(prompt) >= Threshold
             upTo == IF turn.iteration = 1 \/ prompt = {} THEN turn.msg ELSE Max(prompt)
             starts == signal /\ ~turn.asked /\ MayCompact
             job == [pc |-> "read", upTo |-> upTo]
  <2>1. /\ turn' = [turn EXCEPT !.pc = "llm", !.prompt = prompt, !.asked = @ \/ signal]
        /\ compacting' = (compacting \/ starts)
        /\ jobs' = IF starts THEN jobs \cup {job} ELSE jobs
    BY <2>9 DEF Build
  <2>2. AfterSummary(turn.history, s) \in SUBSET Nat
    BY <1>2, MessagesTyped DEF AfterSummary
  <2>3. prompt \subseteq turn.history
    BY <1>2 DEF Prompt, Window, AfterSummary
  <2>4. ASSUME NEW m \in prompt, NEW x \in turn.history, x > m
        PROVE  x \in prompt \/ x <= Latest.upTo
    <3>1. CASE x \in AfterSummary(turn.history, s)
      BY <2>2, <2>4, <3>1, WindowWhole DEF Prompt
    <3>2. CASE x \notin AfterSummary(turn.history, s)
      <4>1. x \in Nat
        BY <1>2, MessagesTyped
      <4> QED
        BY <2>10, <3>2, <4>1 DEF AfterSummary
    <3> QED
      BY <3>1, <3>2
  <2>5. upTo \in ID
    <3>1. CASE turn.iteration = 1 \/ prompt = {}
      BY <1>2, <3>1
    <3>2. CASE ~(turn.iteration = 1 \/ prompt = {})
      BY <1>2, <2>3, <3>2, NewestExists
    <3> QED
      BY <3>1, <3>2
  <2>6. job \in JobRow /\ job.pc = "read"
    BY <2>5 DEF JobRow
  <2>7. starts => ~compacting
    BY DEF MayCompact
  <2> HIDE DEF prompt, signal, upTo, job, starts
  <2>8. /\ turn' \in TurnRow /\ turn'.pc = "llm" /\ turn'.prompt = prompt
        /\ turn'.history = turn.history
        /\ turn'.append = turn.append /\ turn'.results = turn.results
    <3>1. prompt \subseteq ID /\ (turn.asked \/ signal) \in BOOLEAN
      BY <1>2, <2>3
    <3>2. /\ turn'.pc = "llm" /\ turn'.prompt = prompt
          /\ turn'.history = turn.history
          /\ turn'.append = turn.append /\ turn'.results = turn.results
      BY <1>2, <2>1 DEF TurnRow
    <3>3. turn' \in TurnRow
      BY <1>2, <2>1, <3>1 DEF TurnRow
    <3> QED
      BY <3>2, <3>3
  <2>15. /\ compacting' \in BOOLEAN
         /\ compacting' <=> jobs' # {}
         /\ \A j, k \in jobs' : j = k
         /\ \A j \in jobs' : j \in jobs \/ j = job
    BY <2>1, <2>7 DEF JobInv, HistoryTypeOK
  <2>16. HistoryTypeOK'
    BY <1>1, <2>6, <2>8, <2>15 DEF HistoryTypeOK, Msg
  <2>11. MintedInv'
    BY <1>1, <1>2, <2>8 DEF MintedInv
  <2>12. Latest' = Latest
    BY <1>1 DEF Latest
  <2>13. JobInv' /\ NothingForgotten'
    BY <1>1, <2>6, <2>12, <2>15 DEF JobInv, ReadInv, NothingForgotten
  <2>14. PromptIsSuffix'
    BY <2>4, <2>8, <2>12 DEF PromptIsSuffix
  <2> QED
    BY <2>11, <2>13, <2>14, <2>16
<1> QED
  BY <1>3, <1>4

\* The model answers, a tool ends, or the turn fails.
Answers ==
  \/ \E calls \in 0..MaxCalls : Answer(calls)
  \/ \E i \in 1..MaxCalls : ToolEnds(i)
  \/ TurnFails

\* What is answered or found is minted, and not saved yet.
LEMMA AnswerStep ==
  ASSUME HistoryInv, Answers
  PROVE  HistoryInv'
<1> USE DEF HistoryInv, Answers
<1>1. UNCHANGED <<saved, received, queue, summaries, compacting, jobs, late, life>>
  BY DEF Answer, ToolEnds, TurnFails
<1>2. JobInv' /\ NothingForgotten'
  BY <1>1, Quiet
<1>3. /\ turn.pc # "idle"
      /\ turn \in TurnRow /\ turn.append \in ID \cup {0} /\ turn.results \in Seq(ID \cup {0})
  BY TurnTyped DEF Answer, ToolEnds, TurnFails
<1> DEFINE Longer ==
             /\ log' \in Seq([role : {"user", "call", "result", "text"}, of : ID \cup {0}])
             /\ Len(log') = Len(log) + 1 /\ Len(log') <= MaxMsg
             /\ Msg \subseteq Msg'
             /\ turn' \in TurnRow /\ turn'.pc \in {"append", "tools"}
             /\ turn'.append \in {turn.append, Len(log')}
             /\ (turn'.pc = "append" => turn'.append = Len(log'))
             /\ \A i \in DOMAIN turn'.results :
                  turn'.results[i] \in {0, Len(log')} \/ (i \in DOMAIN turn.results /\ turn'.results[i] = turn.results[i])
<1>4. (turn' = NoTurn /\ log' = log) \/ Longer
  <2>1. ASSUME NEW calls \in 0..MaxCalls, Answer(calls)
        PROVE  Longer
    <3> DEFINE role == IF calls = 0 THEN "text" ELSE "call"
               results == [i \in 1..calls |-> 0]
    <3>1. /\ Minted(role, 0)
          /\ turn' = [turn EXCEPT !.pc = "append", !.append = Len(log'), !.results = results]
      BY <2>1 DEF Answer
    <3>2. /\ log' \in Seq([role : {"user", "call", "result", "text"}, of : ID \cup {0}])
          /\ Len(log') = Len(log) + 1 /\ Len(log') \in ID /\ Len(log') <= MaxMsg
          /\ Msg \subseteq Msg'
      BY <3>1, MintedNext
    <3>3. results \in Seq(ID \cup {0}) /\ \A i \in DOMAIN results : results[i] = 0
      <4>1. calls \in Nat
        BY HistoryAssumption
      <4> QED
        BY <4>1
    <3> HIDE DEF results
    <3>4. /\ turn' \in TurnRow /\ turn'.pc = "append" /\ turn'.append = Len(log')
          /\ turn'.results = results
      BY <1>3, <3>1, <3>2, <3>3 DEF TurnRow
    <3> QED
      BY <3>2, <3>3, <3>4
  <2>2. ASSUME NEW i \in 1..MaxCalls, ToolEnds(i)
        PROVE  Longer
    <3> DEFINE results == [turn.results EXCEPT ![i] = Len(log')]
    <3>1. /\ turn.pc = "tools" /\ i \in DOMAIN turn.results
          /\ Minted("result", turn.append)
          /\ turn' = [turn EXCEPT !.results[i] = Len(log')]
      BY <2>2 DEF ToolEnds
    <3>2. /\ log' \in Seq([role : {"user", "call", "result", "text"}, of : ID \cup {0}])
          /\ Len(log') = Len(log) + 1 /\ Len(log') \in ID /\ Len(log') <= MaxMsg
          /\ Msg \subseteq Msg'
      BY <1>3, <3>1, MintedNext
    <3>3. /\ results \in Seq(ID \cup {0}) /\ DOMAIN results = DOMAIN turn.results
          /\ \A k \in DOMAIN results : results[k] = IF k = i THEN Len(log') ELSE turn.results[k]
      BY <1>3, <3>1, <3>2
    <3>4. turn' = [turn EXCEPT !.results = results]
      BY <3>1
    <3> HIDE DEF results
    <3>5. /\ turn' \in TurnRow /\ turn'.pc = "tools" /\ turn'.append = turn.append
          /\ turn'.results = results
      BY <1>3, <3>1, <3>3, <3>4 DEF TurnRow
    <3> QED
      BY <3>2, <3>3, <3>5
  <2>3. CASE TurnFails
    BY <2>3 DEF TurnFails
  <2> QED
    BY <2>1, <2>2, <2>3
<1>5. CASE turn' = NoTurn /\ log' = log
  BY <1>1, <1>2, <1>5 DEF HistoryTypeOK, MintedInv, PromptIsSuffix, NoTurn, Msg
<1>6. CASE turn' # NoTurn \/ log' # log
  <2>1. Longer
    BY <1>4, <1>6
  <2>2. HistoryTypeOK'
    BY <1>1, <2>1 DEF HistoryTypeOK
  <2>3. MintedInv'
    <3>1. received \in Nat /\ \A i \in DOMAIN queue : queue[i] \in Nat
      BY MessagesTyped DEF HistoryTypeOK
    <3>2. turn.append \in Nat /\ \A i \in DOMAIN turn.results : turn.results[i] \in Nat
      BY <1>3, MessagesTyped
    <3>3. Len(log) \in Nat /\ Len(log') \in Nat /\ Len(log) < Len(log')
      BY <2>1, MessagesTyped
    <3>4. received' <= Len(log')
      BY <1>1, <3>1, <3>3 DEF MintedInv
    <3>5. \A i \in DOMAIN queue' : queue'[i] <= Len(log')
      <4>1. \A i \in DOMAIN queue : queue[i] <= Len(log')
        BY <3>1, <3>3 DEF MintedInv
      <4> QED
        BY <1>1, <4>1
    <3>6. turn'.append <= Len(log') /\ (turn'.pc = "append" => turn'.append # 0)
      BY <1>3, <2>1, <3>2, <3>3 DEF MintedInv
    <3>7. ASSUME NEW i \in DOMAIN turn'.results PROVE turn'.results[i] <= Len(log')
      <4>1. CASE turn'.results[i] \in {0, Len(log')}
        BY <3>3, <4>1
      <4>2. CASE i \in DOMAIN turn.results /\ turn'.results[i] = turn.results[i]
        <5>1. turn.results[i] <= Len(log) /\ turn.results[i] \in Nat
          BY <1>3, <3>2, <4>2 DEF MintedInv
        <5> QED
          BY <3>3, <4>2, <5>1
      <4> QED
        BY <2>1, <4>1, <4>2
    <3> QED
      BY <3>4, <3>5, <3>6, <3>7 DEF MintedInv
  <2>4. PromptIsSuffix'
    BY <2>1 DEF PromptIsSuffix
  <2> QED
    BY <1>2, <2>2, <2>3, <2>4
<1> QED
  BY <1>5, <1>6

\* The answer, or the next result, is saved.
LEMMA AppendStep ==
  ASSUME HistoryInv, AppendAnswer \/ AppendResult
  PROVE  HistoryInv'
<1> USE DEF HistoryInv
<1>1. UNCHANGED <<log, received, queue, summaries, compacting, jobs, life>>
  BY DEF AppendAnswer, AppendResult
<1>2. /\ turn.pc \in {"append", "tools"} /\ turn \in TurnRow
      /\ turn.iteration \in Nat /\ turn.append \in ID \cup {0} /\ turn.results \in Seq(ID \cup {0})
  BY TurnTyped DEF AppendAnswer, AppendResult
<1>3. \/ turn' = NoTurn \/ turn' = turn
      \/ /\ turn' \in TurnRow /\ turn'.pc \in {"build", "tools"}
         /\ turn'.append = turn.append /\ turn'.results = turn.results
  <2>1. CASE AppendAnswer
    <3>1. turn' = NoTurn \/ turn' = [turn EXCEPT !.pc = "tools"]
      BY <2>1 DEF AppendAnswer
    <3> QED
      BY <1>2, <3>1 DEF TurnRow
  <2>2. CASE AppendResult
    <3>1. \/ turn' = NoTurn \/ turn' = turn
          \/ turn' = [turn EXCEPT !.pc = "build", !.iteration = @ + 1]
      BY <2>2 DEF AppendResult
    <3>2. CASE turn' = [turn EXCEPT !.pc = "build", !.iteration = @ + 1]
      <4>1. turn.iteration + 1 \in Nat
        BY <1>2
      <4> QED
        BY <1>2, <3>2, <4>1 DEF TurnRow
    <3> QED
      BY <3>1, <3>2
  <2> QED
    BY <2>1, <2>2
<1>4. \E m \in Msg : Save(m)
  <2>1. CASE AppendAnswer
    <3>1. Save(turn.append) /\ turn.pc = "append"
      BY <2>1 DEF AppendAnswer
    <3>2. turn.append # 0
      BY <3>1 DEF MintedInv
    <3>3. turn.append \in Msg
      BY <1>2, <3>1, <3>2, MessagesTyped DEF MintedInv, Msg
    <3> QED
      BY <3>1, <3>3
  <2>2. CASE AppendResult
    <3> DEFINE unsaved == {i \in DOMAIN turn.results : turn.results[i] \notin saved}
    <3>1. /\ \A i \in DOMAIN turn.results : turn.results[i] # 0
          /\ unsaved # {} /\ Save(turn.results[Min(unsaved)])
      BY <2>2 DEF AppendResult
    <3>2. unsaved \in SUBSET Nat
      BY <1>2
    <3>3. Min(unsaved) \in DOMAIN turn.results
      BY <3>1, <3>2, LeastExists
    <3>4. PICK i \in DOMAIN turn.results : i = Min(unsaved)
      BY <3>3
    <3>5. turn.results[i] \in ID \cup {0} /\ turn.results[i] # 0
      BY <1>2, <3>1
    <3>6. turn.results[i] <= Len(log)
      BY <1>2 DEF MintedInv
    <3>7. turn.results[i] \in Msg
      BY <3>5, <3>6, MessagesTyped DEF Msg
    <3> QED
      BY <3>1, <3>4, <3>7
  <2> QED
    BY <2>1, <2>2
<1>5. /\ saved' \subseteq Msg' /\ late' \subseteq saved'
      /\ JobInv' /\ NothingForgotten' /\ Latest' = Latest
  BY <1>1, <1>4, SaveKeeps
<1>6. HistoryTypeOK'
  BY <1>1, <1>3, <1>5 DEF HistoryTypeOK
<1>7. MintedInv' /\ PromptIsSuffix'
  BY <1>1, <1>2, <1>3 DEF MintedInv, PromptIsSuffix, NoTurn
<1> QED
  BY <1>5, <1>6, <1>7

\* What is left of the oldest is the oldest: no message older than one of them
\* is missing.
LEMMA OldestWhole ==
  ASSUME NEW H \in SUBSET ID, NEW m \in OlderThanTail(H), NEW x \in H, x <= m
  PROVE  x \in OlderThanTail(H)
<1> DEFINE Newer(y) == {z \in H : z > y}
<1>1. MaxMsg \in Nat /\ ID \subseteq Nat
  BY HistoryAssumption DEF ID
<1>2. Newer(m) \subseteq Newer(x)
  <2>1. m \in Nat /\ x \in Nat /\ H \subseteq Nat
    BY <1>1 DEF OlderThanTail
  <2>2. ASSUME NEW z \in Newer(m)
        PROVE  z \in Newer(x)
    <3>1. z \in H /\ z \in Nat /\ z > m
      BY <2>1
    <3>2. z > x
      BY <2>1, <3>1
    <3> QED
      BY <3>1, <3>2
  <2> QED
    BY <2>2
<1>3. IsFiniteSet(Newer(x))
  <2>1. 1 \in Int /\ MaxMsg \in Int
    BY <1>1
  <2>2. IsFiniteSet(ID)
    BY <2>1, FS_Interval DEF ID
  <2>3. Newer(x) \in SUBSET ID
    OBVIOUS
  <2> QED
    BY <2>2, <2>3, FS_Subset
<1>4. /\ Cardinality(Newer(m)) <= Cardinality(Newer(x))
      /\ Cardinality(Newer(m)) \in Nat /\ Cardinality(Newer(x)) \in Nat
  BY <1>2, <1>3, FS_Subset, FS_CardinalityType
<1>5. Cardinality(Newer(m)) >= Preserve /\ Preserve \in Nat
  BY HistoryAssumption DEF OlderThanTail
<1>6. Cardinality(Newer(x)) >= Preserve
  BY <1>4, <1>5
<1> QED
  BY <1>6 DEF OlderThanTail

\* A compaction ends without a summary.
LEMMA EndJobStep ==
  ASSUME HistoryInv, NEW j \in jobs, EndJob(j),
         UNCHANGED <<log, saved, received, queue, turn, summaries, late, life>>
  PROVE  HistoryInv'
<1> USE DEF HistoryInv
<1>1. jobs' = {} /\ compacting' = FALSE
  BY DEF EndJob, JobInv
<1>2. Latest' = Latest
  BY DEF Latest
<1> QED
  BY <1>1, <1>2 DEF HistoryTypeOK, MintedInv, JobInv, NothingForgotten, PromptIsSuffix, Msg

\* A compaction reads the messages after the summary, but for the newest.
LEMMA ReadStep ==
  ASSUME HistoryInv, NEW j \in jobs, CompactRead(j)
  PROVE  HistoryInv'
<1> USE DEF HistoryInv
<1> DEFINE H == AfterSummary(HistoryUpTo(j.upTo), Latest)
           h == OlderThanTail(H)
           k == [pc |-> "summarize", upTo |-> j.upTo, prior |-> Latest, history |-> h]
<1>1. /\ j.pc = "read"
      /\ IF h = {} THEN EndJob(j) ELSE jobs' = (jobs \ {j}) \cup {k} /\ UNCHANGED compacting
      /\ UNCHANGED <<log, saved, received, queue, turn, summaries, late, life>>
  BY DEF CompactRead
<1>2. CASE h = {}
  BY <1>1, <1>2, EndJobStep
<1>3. CASE h # {}
  <2>1. /\ H \subseteq saved /\ h \subseteq H /\ saved \subseteq ID /\ ID \subseteq Nat \ {0}
    BY MessagesTyped DEF AfterSummary, HistoryUpTo, OlderThanTail
  <2>2. j.upTo \in ID
    BY <1>1 DEF HistoryTypeOK, JobRow
  <2>3. /\ k \in JobRow /\ k.pc = "summarize" /\ k.prior = Latest /\ k.history = h
    BY <2>1, <2>2, LatestTyped DEF JobRow
  <2>4. \A m \in h : m > Latest.upTo
    BY <2>1 DEF AfterSummary
  <2>5. Max(h) \in h
    BY <1>3, <2>1, NewestExists
  <2>6. ASSUME NEW m \in saved, m > Latest.upTo, m <= Max(h)
        PROVE  m \in h
    <3>1. Max(h) \in Nat /\ Max(h) <= j.upTo /\ m \in Nat /\ j.upTo \in Nat \ {0}
      BY <2>1, <2>2, <2>5 DEF AfterSummary, HistoryUpTo
    <3>2. m \in H
      BY <2>6, <3>1 DEF AfterSummary, HistoryUpTo
    <3> QED
      BY <2>1, <2>5, <2>6, <3>2, OldestWhole
  <2> HIDE DEF h, H, k
  <2>a. PICK kk : kk = k
    OBVIOUS
  <2>b. PICK hh : hh = h
    OBVIOUS
  <2>7. jobs' = {kk} /\ compacting' = compacting /\ compacting = TRUE
    BY <1>1, <1>3, <2>a DEF JobInv
  <2>8. Latest' = Latest
    BY <1>1 DEF Latest
  <2>9. ReadInv(kk)'
    <3>1. /\ kk.prior = Latest /\ kk.history = hh /\ hh # {} /\ hh \subseteq saved
          /\ \A m \in hh : m > Latest.upTo
          /\ \A m \in saved : m > Latest.upTo /\ m <= Max(hh) => m \in hh
      BY <1>3, <2>1, <2>3, <2>4, <2>6, <2>a, <2>b
    <3>2. saved' = saved /\ late' = late
      BY <1>1
    <3> QED
      BY <2>8, <3>1, <3>2 DEF ReadInv
  <2>10. JobInv'
    BY <2>7, <2>9 DEF JobInv
  <2> QED
    BY <1>1, <2>3, <2>7, <2>8, <2>10, <2>a DEF HistoryTypeOK, MintedInv, NothingForgotten, PromptIsSuffix, Msg
<1> QED
  BY <1>2, <1>3

\* A compaction saves its summary, which takes the place of the latest.
LEMMA SummaryStep ==
  ASSUME HistoryInv, NEW j \in jobs, CompactSave(j)
  PROVE  /\ HistoryInv'
         /\ Latest.upTo <= Latest'.upTo /\ Latest.covers \subseteq Latest'.covers
<1> USE DEF HistoryInv
<1> DEFINE s == Summary(j.prior, j.history)
<1>1. /\ j.pc = "summarize" /\ summaries' = Append(summaries, s) /\ EndJob(j)
      /\ UNCHANGED <<log, saved, received, queue, turn, late, life>>
  BY DEF CompactSave
<1>2. /\ j.prior = Latest /\ j.history # {} /\ j.history \subseteq saved
      /\ \A m \in j.history : m > Latest.upTo
      /\ \A m \in saved \ late : m > Latest.upTo /\ m <= Max(j.history) => m \in j.history
  BY <1>1 DEF JobInv, ReadInv
<1>3. saved \subseteq ID /\ ID \subseteq Nat \ {0} /\ Latest.upTo \in ID \cup {0} /\ Latest.covers \subseteq ID
  BY MessagesTyped, LatestTyped
<1>4. Max(j.history) \in j.history
  BY <1>2, <1>3, NewestExists
<1>newer. Max(j.history) \in Nat /\ Latest.upTo \in Nat /\ Max(j.history) > Latest.upTo
  <2>1. PICK x \in j.history : x = Max(j.history)
    BY <1>4
  <2>2. x \in Nat /\ x > Latest.upTo
    BY <1>2, <1>3
  <2>3. Latest.upTo \in Nat
    BY LatestTyped, MessagesTyped
  <2> QED
    BY <2>1, <2>2, <2>3
<1>5. /\ s \in SummaryRow /\ s.upTo = Max(j.history) /\ s.covers = Latest.covers \cup j.history
  BY <1>2, <1>3, <1>4 DEF Summary, SummaryRow, Files
<1> HIDE DEF s
<1>6. summaries' \in Seq(SummaryRow) /\ Latest' = s
  <2>1. summaries \in Seq(SummaryRow)
    BY DEF HistoryTypeOK
  <2>2. summaries' \in Seq(SummaryRow) /\ summaries' # <<>> /\ summaries'[Len(summaries')] = s
    BY <1>1, <1>5, <2>1
  <2> QED
    BY <2>2 DEF Latest
<1>7. jobs' = {} /\ compacting' = FALSE
  BY <1>1 DEF EndJob, JobInv
<1>8. s.upTo \in Nat /\ Latest.upTo \in Nat /\ Latest.upTo <= s.upTo
  <2>1. s.upTo \in Nat
    BY <1>5, <1>newer
  <2> QED
    BY <1>5, <1>newer, <2>1
<1>9. HistoryTypeOK' /\ MintedInv' /\ JobInv'
  BY <1>1, <1>6, <1>7 DEF HistoryTypeOK, MintedInv, JobInv, Msg
<1>10. NothingForgotten'
  <2>1. ASSUME NEW m \in saved \ late
        PROVE  m > s.upTo \/ m \in s.covers
    <3>1. m > Latest.upTo \/ m \in Latest.covers
      BY DEF NothingForgotten
    <3>2. m \in Nat /\ Max(j.history) \in Nat
      BY <1>2, <1>3, <1>4
    <3> QED
      BY <1>2, <1>5, <3>1, <3>2
  <2> QED
    BY <1>1, <1>6, <2>1 DEF NothingForgotten
<1>11. PromptIsSuffix'
  <2>1. turn.pc = "llm" => turn.history \subseteq ID /\ turn.prompt \subseteq ID
    BY TurnTyped
  <2>2. \A x \in ID : x <= Latest.upTo => x <= s.upTo
    <3>1. \A x, u, v \in Nat : x <= u /\ u <= v => x <= v
      OBVIOUS
    <3> QED
      BY <1>3, <1>8, <3>1
  <2> QED
    BY <1>1, <1>6, <2>1, <2>2 DEF PromptIsSuffix
<1> QED
  BY <1>5, <1>6, <1>8, <1>9, <1>10, <1>11

\* A restart forgets what was under way, and nothing that was stored.
LEMMA HistoryRestartStep ==
  ASSUME HistoryInv, HistoryAssumption, Restart
  PROVE  HistoryInv'
<1> USE DEF HistoryInv
<1>1. /\ received' = 0 /\ queue' = <<>> /\ turn' = NoTurn /\ jobs' = {} /\ compacting' = FALSE
      /\ life' = life + 1 /\ UNCHANGED <<log, saved, summaries, late>>
  BY DEF Restart
<1>2. Len(queue') = 0 /\ MaxQueue \in Nat /\ turn'.pc = "idle"
  BY <1>1 DEF NoTurn, HistoryAssumption
<1>3. HistoryTypeOK'
  <2>1. queue' \in Seq(ID) /\ received' \in ID \cup {0} /\ Len(queue') <= MaxQueue
    BY <1>1, <1>2
  <2>2. jobs' \subseteq JobRow /\ turn' \in {NoTurn} \cup TurnRow /\ compacting' \in BOOLEAN
    BY <1>1
  <2>3. life' \in Nat
    <3>1. life \in Nat
      BY DEF HistoryTypeOK
    <3> QED
      BY <1>1, <3>1
  <2> QED
    BY <1>1, <2>1, <2>2, <2>3 DEF HistoryTypeOK, Msg
<1>4. MintedInv'
  BY <1>1, <1>2, MessagesTyped DEF MintedInv
<1>5. Latest' = Latest
  BY <1>1 DEF Latest
<1> QED
  BY <1>1, <1>2, <1>3, <1>4, <1>5 DEF JobInv, NothingForgotten, PromptIsSuffix

\* The invariant holds at first.
LEMMA HistoryInitial == HistoryInit => HistoryInv
<1> SUFFICES ASSUME HistoryInit PROVE HistoryInv
  OBVIOUS
<1>1. {MaxMsg, MaxQueue} \subseteq Nat
  BY HistoryAssumption
<1>2. turn = NoTurn /\ turn.pc = "idle" /\ Len(log) = 0 /\ Len(queue) = 0
  BY DEF HistoryInit, NoTurn
<1>3. HistoryTypeOK
  <2>1. /\ log \in Seq([role : {"user", "call", "result", "text"}, of : ID \cup {0}])
        /\ queue \in Seq(ID) /\ summaries \in Seq(SummaryRow)
    BY DEF HistoryInit
  <2>2. Len(log) <= MaxMsg /\ Len(queue) <= MaxQueue
    BY <1>1, <1>2
  <2>3. saved \subseteq Msg /\ late \subseteq saved /\ jobs \subseteq JobRow
    BY DEF HistoryInit
  <2> QED
    BY <1>2, <2>1, <2>2, <2>3 DEF HistoryInit, HistoryTypeOK
<1>4. MintedInv /\ JobInv
  BY <1>1, <1>2 DEF HistoryInit, MintedInv, JobInv
<1>5. NothingForgotten /\ PromptIsSuffix
  BY <1>2 DEF HistoryInit, NothingForgotten, PromptIsSuffix
<1> QED
  BY <1>3, <1>4, <1>5 DEF HistoryInv

\* Every step keeps the invariant, and none takes the latest summary back.
LEMMA HistoryStep ==
  ASSUME HistoryInv, [HistoryNext]_vars
  PROVE  /\ HistoryInv'
         /\ Latest.upTo <= Latest'.upTo /\ Latest.covers \subseteq Latest'.covers
<1>1. Latest' = Latest => Latest.upTo <= Latest'.upTo /\ Latest.covers \subseteq Latest'.covers
  <2>1. Latest.upTo \in Nat
    BY LatestTyped, MessagesTyped DEF HistoryInv
  <2> QED
    BY <2>1
<1>2. summaries' = summaries => Latest' = Latest
  BY DEF Latest
<1>3. CASE Receive \/ Enqueue
  BY <1>1, <1>2, <1>3, InboundStep DEF Receive, Enqueue
<1>4. CASE Overhear
  BY <1>1, <1>2, <1>4, OverhearStep DEF Overhear
<1>5. CASE StartTurn
  BY <1>1, <1>2, <1>5, StartTurnStep DEF StartTurn
<1>6. CASE FetchHistory \/ FetchSummary
  BY <1>1, <1>2, <1>6, BuildStep DEF FetchHistory, FetchSummary, Build
<1>7. CASE Answers
  <2>1. summaries' = summaries
    BY <1>7 DEF Answers, Answer, ToolEnds, TurnFails
  <2>2. HistoryInv'
    BY <1>7, AnswerStep
  <2> QED
    BY <1>1, <1>2, <2>1, <2>2
<1>8. CASE AppendAnswer \/ AppendResult
  BY <1>1, <1>2, <1>8, AppendStep DEF AppendAnswer, AppendResult
<1>9. ASSUME NEW j \in jobs, CompactRead(j)
      PROVE  /\ HistoryInv'
             /\ Latest.upTo <= Latest'.upTo /\ Latest.covers \subseteq Latest'.covers
  BY <1>1, <1>2, <1>9, ReadStep DEF CompactRead
<1>10. ASSUME NEW j \in jobs, CompactSave(j)
       PROVE  /\ HistoryInv'
              /\ Latest.upTo <= Latest'.upTo /\ Latest.covers \subseteq Latest'.covers
  BY <1>10, SummaryStep
<1>11. ASSUME NEW j \in jobs, CompactFails(j)
       PROVE  /\ HistoryInv'
              /\ Latest.upTo <= Latest'.upTo /\ Latest.covers \subseteq Latest'.covers
  BY <1>1, <1>2, <1>11, EndJobStep DEF CompactFails
<1>12. CASE Restart
  BY <1>1, <1>2, <1>12, HistoryRestartStep, HistoryAssumption DEF Restart
<1>13. CASE UNCHANGED vars
  <2>1. HistoryInv'
    BY <1>13 DEF vars, HistoryInv, HistoryTypeOK, MintedInv, JobInv, ReadInv, NothingForgotten,
                 PromptIsSuffix, Latest, Msg
  <2> QED
    BY <1>1, <1>2, <1>13, <2>1 DEF vars
<1> QED
  BY <1>3, <1>4, <1>5, <1>6, <1>7, <1>8, <1>9, <1>10, <1>11, <1>12, <1>13 DEF HistoryNext, Turn,
     Answers

\* The inductive invariant holds always.
THEOREM HistoryInvariant == HistorySpec => []HistoryInv
<1>1. HistoryInv /\ [HistoryNext]_vars => HistoryInv'
  BY HistoryStep
<1> QED
  BY <1>1, HistoryInitial, PTL DEF HistorySpec

\* Every variable of the history has its type.
THEOREM HistoryTypes == HistorySpec => []HistoryTypeOK
<1>1. HistoryInv => HistoryTypeOK
  BY DEF HistoryInv
<1> QED
  BY <1>1, HistoryInvariant, PTL

\* Compaction loses no message (NothingForgotten): what is not newer than the
\* latest summary went into it, but for what was saved after it was read.
THEOREM HistoryIsKept == HistorySpec => []NothingForgotten
<1>1. HistoryInv => NothingForgotten
  BY DEF HistoryInv
<1> QED
  BY <1>1, HistoryInvariant, PTL

\* A prompt shows a gapless end of the history it was built from (PromptIsSuffix).
THEOREM PromptHasNoHoles == HistorySpec => []PromptIsSuffix
<1>1. HistoryInv => PromptIsSuffix
  BY DEF HistoryInv
<1> QED
  BY <1>1, HistoryInvariant, PTL

\* No compaction, however late it ends, takes the place of a later one
\* (SummaryAdvances).
THEOREM SummariesAdvance == HistorySpec => SummaryAdvances
<1>1. HistoryInv /\ [HistoryNext]_vars =>
        [Latest.upTo <= Latest'.upTo /\ Latest.covers \subseteq Latest'.covers]_vars
  BY HistoryStep
<1> QED
  BY <1>1, HistoryInvariant, PTL DEF HistorySpec, SummaryAdvances

-----------------------------------------------------------------------------
(* Skills.                                                                 *)

\* What a sync is at is not the tenant's own, and its second pass has all
\* copies before it that it is to remove, unless a call failed.
SyncInv ==
  /\ sync.pc \in {"remove", "copy", "made", "md", "rest", "state"} => sync.name \in Name \ Owned
  /\ sync.pc = "remove" => dir[sync.name] # Absent
  /\ sync.pc = "clean" =>
       /\ \A n \in sync.todo : n \notin Owned /\ dir[n] # Absent
       /\ ~sync.failed => Surplus \subseteq sync.todo
  /\ sync.pc = "end" => sync.failed \/ Surplus = {}

SkillsInv ==
  /\ SkillsTypeOK
  /\ OwnedUntouched
  /\ SyncInv

\* What is written or left over is the directory of a skill.
LEMMA FilesTyped ==
  ASSUME SkillsTypeOK
  PROVE  /\ release \in Nat \ {0} /\ Empty \in SkillRow
         /\ \A d \in SkillRow : d # Absent
         /\ \A d \in SkillRow, f \in {"made", "md", "rest", "state", "next"} : Write(d, f) \in SkillRow
         /\ \A n \in Name : dir[n] # Absent => dir[n] \in SkillRow /\ Without(n) \subseteq SkillRow
<1>1. release \in Nat \ {0} /\ 0 \in 0..release /\ release \in 0..release /\ release \in 1..release
  BY SkillsAssumption DEF SkillsTypeOK
<1>2. Empty \in SkillRow
  BY <1>1 DEF Empty, SkillRow
<1>3. SkillRow \subseteq [md : Nat, rest : Nat, state : Nat \cup {Absent}]
  BY <1>1 DEF SkillRow
<1>4. \A d \in SkillRow : d # Absent
  BY <1>3, SkillsAssumption
<1>5. \A d \in SkillRow, f \in {"made", "md", "rest", "state", "next"} : Write(d, f) \in SkillRow
  BY <1>1 DEF Write, SkillRow
<1>6. ASSUME NEW n \in Name, dir[n] # Absent
      PROVE  dir[n] \in SkillRow /\ Without(n) \subseteq SkillRow
  <2>1. dir[n] \in SkillRow
    BY <1>6 DEF SkillsTypeOK
  <2> QED
    BY <1>1, <2>1 DEF Without, SkillRow
<1> QED
  BY <1>1, <1>2, <1>4, <1>5, <1>6

\* The sync under way, with the fields it has.
LEMMA SyncTyped ==
  ASSUME SkillsTypeOK, sync.pc # "idle"
  PROVE  /\ sync \in SyncRow /\ sync.wanted \subseteq Name /\ sync.todo \subseteq Name
         /\ sync.failed \in BOOLEAN
         /\ sync.pc \in {"load", "next", "remove", "copy", "made", "md", "rest", "state", "clean", "end"}
BY DEF SkillsTypeOK, NoSync, SyncRow

\* The tenant changes, the hour is over, or the process starts again.
LEMMA OutsideStep ==
  ASSUME SkillsInv, NEW names \in SUBSET Name, TenantUpdate(names) \/ NewProcess(names) \/ Expire
  PROVE  SkillsInv'
<1> USE DEF SkillsInv
<1>1. MaxErrors \in Nat /\ MaxChanges \in Nat /\ MaxVersion \in Nat
  BY SkillsAssumption
<1>2. /\ dir' = dir /\ sync' \in {sync, NoSync}
      /\ globals' \in {globals, names} /\ allowed' \in {allowed, names}
      /\ fresh' \in {fresh, FALSE}
      /\ release' = release \/ (release < MaxVersion /\ release' = release + 1)
      /\ errors' = errors \/ (errors < MaxErrors /\ errors' = errors + 1)
      /\ changes' = changes \/ (changes < MaxChanges /\ changes' = changes + 1)
  BY DEF TenantUpdate, NewProcess, Expire, Error
<1>3. SkillsTypeOK'
  <2>1. release' \in 1..MaxVersion /\ release <= release' /\ release \in Nat
    BY <1>1, <1>2 DEF SkillsTypeOK
  <2>2. errors' \in 0..MaxErrors /\ changes' \in 0..MaxChanges
    BY <1>1, <1>2 DEF SkillsTypeOK
  <2>3. 0..release \subseteq 0..release' /\ 1..release \subseteq 1..release'
    BY <1>1, <2>1
  <2>4. SkillRow \subseteq SkillRow'
    BY <2>3 DEF SkillRow
  <2>5. dir' \in [Name -> SkillRow' \cup {Absent}]
    BY <1>2, <2>4 DEF SkillsTypeOK
  <2>6. sync' \in {NoSync} \cup SyncRow /\ fresh' \in BOOLEAN
    BY <1>2 DEF SkillsTypeOK
  <2>7. globals' \subseteq Name /\ allowed' \subseteq Name
    BY <1>2 DEF SkillsTypeOK
  <2> QED
    BY <2>1, <2>2, <2>5, <2>6, <2>7 DEF SkillsTypeOK, SyncRow
<1>4. OwnedUntouched'
  BY <1>2 DEF OwnedUntouched
<1>5. SyncInv'
  BY <1>2 DEF SyncInv, Surplus, NoSync
<1> QED
  BY <1>3, <1>4, <1>5

\* A sync begins, reads what it works with, goes on to its second pass or ends:
\* no file changes.
LEMMA SyncPasses ==
  ASSUME SkillsInv, EnsureSync \/ Load \/ LoadFails \/ CleanUp \/ CleanUpFails \/ CleanUpEnds \/ SyncEnds
  PROVE  SkillsInv'
<1> USE DEF SkillsInv
<1>1. /\ UNCHANGED <<release, globals, allowed, dir, changes>>
      /\ fresh' \in {fresh, TRUE}
      /\ errors' = errors \/ (errors < MaxErrors /\ errors' = errors + 1)
  BY DEF EnsureSync, Load, LoadFails, CleanUp, CleanUpFails, CleanUpEnds, SyncEnds, Error
<1>2. \A n \in Owned : dir[n] # Absent /\ dir[n].state = Absent
  <2>1. \A n \in Owned : dir[n] = [md |-> 1, rest |-> 1, state |-> Absent]
    BY DEF OwnedUntouched
  <2>2. Owned \subseteq Name /\ 1 \in Nat /\ Absent \notin [md : Nat, rest : Nat, state : Nat \cup {Absent}]
    BY SkillsAssumption
  <2> QED
    BY <2>1, <2>2
<1>3. \/ sync' = NoSync
      \/ /\ sync' \in SyncRow /\ sync'.pc \in {"load", "next", "end", "clean"}
         /\ sync'.pc = "clean" => sync'.todo = Surplus /\ sync'.wanted = sync.wanted
         /\ sync'.pc = "end" => sync'.failed \/ (sync.pc = "clean" /\ sync.todo = {} /\ sync'.wanted = sync.wanted /\ sync'.failed = sync.failed)
  <2>1. CASE EnsureSync
    BY <2>1 DEF EnsureSync, SyncRow
  <2>2. CASE Load
    <3> DEFINE wanted == IF allowed = {} THEN globals ELSE globals \cap allowed
    <3>1. wanted \subseteq Name
      BY DEF SkillsTypeOK
    <3>2. sync' = [sync EXCEPT !.pc = "next", !.wanted = wanted, !.todo = wanted] /\ sync \in SyncRow
      BY <2>2, SyncTyped DEF Load
    <3> HIDE DEF wanted
    <3> QED
      BY <3>1, <3>2 DEF SyncRow
  <2>3. CASE LoadFails \/ CleanUpFails
    <3>1. sync' = [sync EXCEPT !.pc = "end", !.failed = TRUE] /\ sync \in SyncRow
      BY <2>3, SyncTyped DEF LoadFails, CleanUpFails
    <3> QED
      BY <3>1 DEF SyncRow
  <2>4. CASE CleanUp
    <3>1. Surplus \in SUBSET Name
      BY DEF Surplus
    <3>2. sync' = [sync EXCEPT !.pc = "clean", !.todo = Surplus] /\ sync \in SyncRow
      BY <2>4, SyncTyped DEF CleanUp
    <3> QED
      BY <3>1, <3>2 DEF SyncRow
  <2>5. CASE CleanUpEnds
    <3>1. sync' = [sync EXCEPT !.pc = "end"] /\ sync \in SyncRow /\ sync.pc = "clean" /\ sync.todo = {}
      BY <2>5, SyncTyped DEF CleanUpEnds
    <3> QED
      BY <3>1 DEF SyncRow
  <2>6. CASE SyncEnds
    BY <2>6 DEF SyncEnds
  <2> QED
    BY <2>1, <2>2, <2>3, <2>4, <2>5, <2>6
<1>4. SkillsTypeOK'
  <2>1. errors' \in 0..MaxErrors
    BY <1>1, SkillsAssumption DEF SkillsTypeOK
  <2>2. sync' \in {NoSync} \cup SyncRow
    BY <1>3
  <2>3. fresh' \in BOOLEAN
    BY <1>1 DEF SkillsTypeOK
  <2> QED
    BY <1>1, <2>1, <2>2, <2>3 DEF SkillsTypeOK, SkillRow, SyncRow
<1>5. OwnedUntouched'
  BY <1>1 DEF OwnedUntouched
<1>6. SyncInv'
  <2>1. CASE sync' = NoSync
    BY <2>1 DEF SyncInv, NoSync
  <2>2. CASE sync' # NoSync
    <3>1. \A n \in Surplus : n \notin Owned /\ dir[n] # Absent
      BY <1>2 DEF Surplus
    <3>2. sync'.wanted = sync.wanted => Surplus' = Surplus
      BY <1>1 DEF Surplus
    <3>3. sync'.pc = "end" => sync'.failed \/ Surplus' = {}
      BY <1>3, <2>2, <3>2 DEF SyncInv
    <3> QED
      BY <1>1, <1>3, <2>2, <3>1, <3>2, <3>3 DEF SyncInv
  <2> QED
    BY <2>1, <2>2
<1> QED
  BY <1>4, <1>5, <1>6

\* A sync looks at a skill: what is the tenant's own it passes by.
LEMMA LookStep ==
  ASSUME SkillsInv, NEW n \in Name, Look(n)
  PROVE  SkillsInv'
<1> USE DEF SkillsInv
<1> DEFINE pc == CASE Kind(n) = "missing" -> "copy" [] Kind(n) = "old" -> "remove" [] OTHER -> "next"
<1>1. /\ sync.pc = "next" /\ sync' = [sync EXCEPT !.todo = @ \ {n}, !.name = n, !.pc = pc]
      /\ UNCHANGED <<release, globals, allowed, dir, fresh, errors, changes>>
  BY DEF Look
<1>2. /\ pc \in {"copy", "remove", "next"}
      /\ pc = "copy" => dir[n] = Absent
      /\ pc = "remove" => dir[n] # Absent /\ dir[n].state # Absent
  BY DEF Kind
<1>3. n \in Owned => dir[n] # Absent /\ dir[n].state = Absent
  <2>1. n \in Owned => dir[n] = [md |-> 1, rest |-> 1, state |-> Absent]
    BY DEF OwnedUntouched
  <2>2. 1 \in Nat /\ Absent \notin [md : Nat, rest : Nat, state : Nat \cup {Absent}]
    BY SkillsAssumption
  <2> QED
    BY <2>1, <2>2
<1> HIDE DEF pc
<1>4. sync' \in SyncRow /\ sync'.pc = pc /\ sync'.name = n
  BY <1>1, <1>2, SyncTyped DEF SyncRow
<1>5. SkillsTypeOK'
  BY <1>1, <1>4 DEF SkillsTypeOK, SkillRow, SyncRow
<1>6. OwnedUntouched'
  BY <1>1 DEF OwnedUntouched
<1>7. SyncInv'
  BY <1>1, <1>2, <1>3, <1>4 DEF SyncInv
<1> QED
  BY <1>5, <1>6, <1>7

\* An old copy is removed, or what was there of it, and a new one is written.
LEMMA CopyStep ==
  ASSUME SkillsInv, RemoveOld \/ RemoveFails \/ Copy \/ CopyFails
  PROVE  SkillsInv'
<1> USE DEF SkillsInv
<1> DEFINE d == IF dir[sync.name] = Absent THEN Empty ELSE dir[sync.name]
<1>1. /\ DOMAIN Order = {"copy", "made", "md", "rest", "state"}
      /\ Order["copy"] = "made" /\ Order["made"] = "md" /\ Order["md"] = "rest" /\ Order["rest"] = "state" /\ Order["state"] = "next"
  BY DEF Order
<1>2. /\ sync.pc \in {"remove", "copy", "made", "md", "rest", "state"} /\ sync \in SyncRow
      /\ UNCHANGED <<release, globals, allowed, fresh, changes>>
      /\ errors' = errors \/ (errors < MaxErrors /\ errors' = errors + 1)
  <2>1. sync.pc \in {"remove", "copy", "made", "md", "rest", "state"}
    BY <1>1 DEF RemoveOld, RemoveFails, Copy, CopyFails
  <2> QED
    BY <2>1, SyncTyped DEF RemoveOld, RemoveFails, Copy, CopyFails, Error
<1>3. PICK n \in Name \ Owned : n = sync.name
  BY <1>2 DEF SyncInv
<1>4. sync.pc = "remove" => dir[n] # Absent
  BY <1>3 DEF SyncInv
<1>5. \E x \in SkillRow \cup {Absent} : dir' = [dir EXCEPT ![n] = x]
  <2>1. CASE RemoveOld
    BY <1>3, <2>1 DEF RemoveOld
  <2>2. CASE RemoveFails
    <3>1. Without(n) \subseteq SkillRow
      BY <1>4, <2>2, FilesTyped DEF RemoveFails
    <3> QED
      BY <1>3, <2>2, <3>1 DEF RemoveFails
  <2>3. CASE Copy
    <3>1. d \in SkillRow
      BY <1>3, FilesTyped
    <3>2. Order[sync.pc] \in {"made", "md", "rest", "state", "next"}
      BY <1>1, <2>3 DEF Copy
    <3>3. Write(d, Order[sync.pc]) \in SkillRow
      BY <3>1, <3>2, FilesTyped
    <3> QED
      BY <1>3, <2>3, <3>3 DEF Copy
  <2>4. CASE CopyFails
    <3>1. dir' = dir /\ dir = [dir EXCEPT ![n] = dir[n]] /\ dir[n] \in SkillRow \cup {Absent}
      BY <2>4 DEF CopyFails, SkillsTypeOK
    <3> QED
      BY <3>1
  <2> QED
    BY <2>1, <2>2, <2>3, <2>4
<1>6. sync' \in SyncRow /\ sync'.name = n /\ sync'.pc \in {"copy", "made", "md", "rest", "state", "next"}
  <2>1. CASE RemoveOld
    BY <1>2, <1>3, <2>1 DEF RemoveOld, SyncRow
  <2>2. CASE RemoveFails \/ CopyFails
    <3>1. sync' = [sync EXCEPT !.pc = "next", !.failed = TRUE]
      BY <2>2 DEF RemoveFails, CopyFails
    <3> QED
      BY <1>2, <1>3, <3>1 DEF SyncRow
  <2>3. CASE Copy
    <3>1. PICK pc \in {"made", "md", "rest", "state", "next"} : sync' = [sync EXCEPT !.pc = pc]
      BY <1>1, <2>3 DEF Copy
    <3> QED
      BY <1>2, <1>3, <3>1 DEF SyncRow
  <2> QED
    BY <2>1, <2>2, <2>3
<1>7. SkillsTypeOK'
  <2>1. errors' \in 0..MaxErrors
    BY <1>2, SkillsAssumption DEF SkillsTypeOK
  <2>2. dir' \in [Name -> SkillRow \cup {Absent}]
    BY <1>5 DEF SkillsTypeOK
  <2> QED
    BY <1>2, <1>6, <2>1, <2>2 DEF SkillsTypeOK, SkillRow, SyncRow
<1>8. OwnedUntouched'
  <2>1. \A k \in Owned : dir'[k] = dir[k]
    BY <1>3, <1>5, SkillsAssumption DEF SkillsTypeOK
  <2> QED
    BY <2>1 DEF OwnedUntouched
<1>9. SyncInv'
  BY <1>3, <1>6 DEF SyncInv
<1> QED
  BY <1>7, <1>8, <1>9

\* The second pass removes a copy, or a part of it.
LEMMA CleanUpStep ==
  ASSUME SkillsInv, NEW n \in Name, CleanUpOne(n)
  PROVE  SkillsInv'
<1> USE DEF SkillsInv
<1>1. /\ sync.pc = "clean" /\ n \in sync.todo
      /\ UNCHANGED <<release, globals, allowed, fresh, changes>>
  BY DEF CleanUpOne
<1>2. n \notin Owned /\ dir[n] # Absent
  BY <1>1 DEF SyncInv
<1>3. sync \in SyncRow /\ sync.failed \in BOOLEAN /\ sync.todo \subseteq Name
  BY <1>1, SyncTyped
<1>4. PICK x \in SkillRow \cup {Absent}, failed \in BOOLEAN :
        /\ dir' = [dir EXCEPT ![n] = x]
        /\ sync' = [sync EXCEPT !.todo = @ \ {n}, !.failed = failed]
        /\ failed \/ (x = Absent /\ failed = sync.failed)
        /\ errors' = errors \/ (errors < MaxErrors /\ errors' = errors + 1)
  <2>1. CASE /\ dir' = [dir EXCEPT ![n] = Absent]
             /\ sync' = [sync EXCEPT !.todo = @ \ {n}]
             /\ UNCHANGED errors
    <3>1. sync' = [sync EXCEPT !.todo = @ \ {n}, !.failed = sync.failed]
      BY <1>3, <2>1 DEF SyncRow
    <3> QED
      BY <1>3, <2>1, <3>1
  <2>2. CASE /\ Error
             /\ \E d \in Without(n) : dir' = [dir EXCEPT ![n] = d]
             /\ sync' = [sync EXCEPT !.todo = @ \ {n}, !.failed = TRUE]
    <3>1. Without(n) \subseteq SkillRow
      BY <1>2, FilesTyped
    <3>2. errors < MaxErrors /\ errors' = errors + 1
      BY <2>2 DEF Error
    <3> QED
      BY <2>2, <3>1, <3>2
  <2> QED
    BY <2>1, <2>2 DEF CleanUpOne
<1>5. /\ sync' \in SyncRow /\ sync'.pc = "clean" /\ sync'.todo = sync.todo \ {n}
      /\ sync'.failed = failed /\ sync'.wanted = sync.wanted
  BY <1>1, <1>3, <1>4 DEF SyncRow
<1>6. dir \in [Name -> SkillRow \cup {Absent}]
  BY DEF SkillsTypeOK
<1>7. dir'[n] = x /\ \A k \in Name \ {n} : dir'[k] = dir[k]
  BY <1>4, <1>6
<1>8. SkillsTypeOK'
  <2>1. errors' \in 0..MaxErrors
    BY <1>4, SkillsAssumption DEF SkillsTypeOK
  <2>2. dir' \in [Name -> SkillRow \cup {Absent}]
    BY <1>4, <1>6
  <2> QED
    BY <1>1, <1>5, <2>1, <2>2 DEF SkillsTypeOK, SkillRow, SyncRow
<1>9. OwnedUntouched'
  BY <1>2, <1>7, SkillsAssumption DEF OwnedUntouched
<1>10. SyncInv'
  <2>1. \A k \in sync'.todo : k \notin Owned /\ dir'[k] # Absent
    BY <1>1, <1>3, <1>5, <1>7 DEF SyncInv
  <2>2. ~sync'.failed => Surplus' \subseteq sync'.todo
    <3>1. ~failed => x = Absent /\ ~sync.failed
      BY <1>4
    <3>2. ~failed => Surplus' \subseteq Surplus \ {n}
      BY <1>5, <1>7, <3>1 DEF Surplus
    <3> QED
      BY <1>1, <1>5, <3>1, <3>2 DEF SyncInv
  <2> QED
    BY <1>5, <2>1, <2>2 DEF SyncInv
<1> QED
  BY <1>8, <1>9, <1>10

\* The invariant holds at first.
LEMMA SkillsInitial == SkillsInit => SkillsInv
<1> SUFFICES ASSUME SkillsInit PROVE SkillsInv
  OBVIOUS
<1>1. release = 1 /\ 1 \in 1..MaxVersion /\ 0 \in 0..MaxErrors /\ 0 \in 0..MaxChanges /\ 1 \in 0..1 /\ 1 \in 1..1
  BY SkillsAssumption DEF SkillsInit
<1>2. dir \in [Name -> SkillRow \cup {Absent}]
  BY <1>1 DEF SkillsInit, SkillRow
<1>3. SkillsTypeOK
  BY <1>1, <1>2 DEF SkillsInit, SkillsTypeOK
<1>4. OwnedUntouched /\ SyncInv
  BY SkillsAssumption DEF SkillsInit, OwnedUntouched, SyncInv, NoSync
<1> QED
  BY <1>3, <1>4 DEF SkillsInv

\* The inductive invariant holds always.
THEOREM SkillsInvariant == SkillsSpec => []SkillsInv
<1>1. ASSUME SkillsInv, [SkillsNext]_skillVars
      PROVE  SkillsInv'
  <2>1. ASSUME NEW names \in SUBSET Name, TenantUpdate(names) \/ NewProcess(names)
        PROVE  SkillsInv'
    BY <1>1, <2>1, OutsideStep
  <2>2. CASE Expire
    <3>1. {} \in SUBSET Name
      OBVIOUS
    <3> QED
      BY <1>1, <2>2, <3>1, OutsideStep
  <2>3. CASE EnsureSync \/ Load \/ LoadFails \/ CleanUp \/ CleanUpFails \/ CleanUpEnds \/ SyncEnds
    BY <1>1, <2>3, SyncPasses
  <2>4. ASSUME NEW n \in Name, Look(n)
        PROVE  SkillsInv'
    BY <1>1, <2>4, LookStep
  <2>5. ASSUME NEW n \in Name, CleanUpOne(n)
        PROVE  SkillsInv'
    BY <1>1, <2>5, CleanUpStep
  <2>6. CASE RemoveOld \/ RemoveFails \/ Copy \/ CopyFails
    BY <1>1, <2>6, CopyStep
  <2>7. CASE UNCHANGED skillVars
    BY <1>1, <2>7 DEF skillVars, SkillsInv, SkillsTypeOK, SkillRow, SyncRow, OwnedUntouched, SyncInv, Surplus
  <2> QED
    BY <1>1, <2>1, <2>2, <2>3, <2>4, <2>5, <2>6, <2>7 DEF SkillsNext
<1> QED
  BY <1>1, SkillsInitial, PTL DEF SkillsSpec

\* Every variable of the synchronisation has its type.
THEOREM SkillsTypes == SkillsSpec => []SkillsTypeOK
<1>1. SkillsInv => SkillsTypeOK
  BY DEF SkillsInv
<1> QED
  BY <1>1, SkillsInvariant, PTL

\* A sync touches copies only, and when it met no error it has left no copy that
\* the tenant must not have (SyncKeepsToCopies).
THEOREM SyncsKeepToCopies == SkillsSpec => []SyncKeepsToCopies
<1>1. ASSUME SkillsInv
      PROVE  SyncKeepsToCopies
  <2>1. OwnedUntouched
    BY <1>1 DEF SkillsInv
  <2>2. DisallowedIsGone
    BY <1>1 DEF SkillsInv, SyncInv, DisallowedIsGone, Surplus
  <2> QED
    BY <2>1, <2>2 DEF SyncKeepsToCopies
<1> QED
  BY <1>1, SkillsInvariant, PTL

-----------------------------------------------------------------------------
(* The Teams channel.                                                      *)

\* A call takes at most Latency.
CallInv(r) ==
  r.pc \in {"metadata", "fetch", "fetched", "request", "requested", "post", "posted"} =>
    r.since <= clock /\ clock <= r.since + Latency

\* A token lives from a moment between its request and its receipt.
RequestInv(r) ==
  r.pc = "requested" => r.since + Lifetime <= r.real /\ r.real <= clock + Lifetime

\* A key that was good at a time: not withdrawn before it.
GoodAt(k, time) == withdrawn[k] = None \/ time <= withdrawn[k]

\* What a request knows of the key that it is signed with.
KeyInv(w, r) ==
  r.pc # "rest" =>
    /\ r.used <= clock
    /\ r.steady => r.kid \in published
    /\ r.pc = "fetched" => (r.steady => r.kid \in r.got) /\ \A k \in r.got : GoodAt(k, r.since)
    /\ r.pc = "refused" => ~r.steady \/ w \notin Good \/ r.lost
    /\ r.pc \in {"token", "request", "requested", "handle", "handled"} =>
         withdrawn[r.kid] = None \/ r.used <= withdrawn[r.kid] + CacheFor + Latency

\* What is left of the skew when a part is posted.
SendInv(r) ==
  Lifetime > Skew =>
    /\ r.pc \in {"post", "posted"} => r.since + Skew < r.real + r.part * Latency
    /\ r.pc # "rest" => (r.status = "unauthorized" => (r.part + 1) * Latency > Skew)

RowInv(p, r) ==
  /\ CallInv(r) /\ RequestInv(r)
  /\ p \in Webhook => KeyInv(p, r)
  /\ p \in Sender => SendInv(r)

\* The keys in the cache were published when their fetch began.
CacheInv == \A k \in cache.keys : withdrawn[k] = None \/ cache.at <= withdrawn[k] + Latency

HolderInv ==
  /\ \A w \in Webhook : proc[w].pc \in {"metadata", "fetch", "fetched"} <=> keyMutex = w
  /\ \A p \in Process : proc[p].pc \in {"request", "requested"} <=> tokenMutex = p

TeamsInv ==
  /\ TeamsTypeOK
  /\ \A p \in Process : RowInv(p, proc[p])
  /\ CacheInv
  /\ token.until <= token.real + Latency
  /\ \A k \in published : withdrawn[k] = None
  /\ HolderInv

\* What the formulas below calculate with are numbers.
LEMMA TeamsNumbers ==
  ASSUME TeamsTypeOK
  PROVE  /\ clock \in Nat /\ cache.at \in Nat /\ cache.at <= clock
         /\ token.until \in Nat /\ token.real \in Nat
         /\ Latency \in Nat \ {0} /\ CacheFor \in Nat /\ Skew \in Nat /\ Lifetime \in Nat \ {0}
         /\ MaxTime \in Nat /\ MaxFaults \in Nat /\ MaxParts \in Nat \ {0}
         /\ published \subseteq Kid /\ cache.keys \subseteq Kid
         /\ \A k \in Kid : withdrawn[k] = None \/ withdrawn[k] \in Nat
<1>1. MaxTime \in Nat
  BY TeamsAssumption
<1>2. clock \in 0..MaxTime /\ cache.at \in 0..clock /\ \A k \in Kid : withdrawn[k] = None \/ withdrawn[k] \in 0..MaxTime
  BY DEF TeamsTypeOK
<1> QED
  BY <1>1, <1>2, TeamsAssumption DEF TeamsTypeOK

\* What the rows of the two kinds of goroutines are made of.
LEMMA RowTyped ==
  ASSUME TeamsTypeOK, NEW p \in Process, proc[p].pc # "rest"
  PROVE  /\ p \in Webhook => proc[p] \in WebhookRow
         /\ p \in Sender => proc[p] \in SenderRow
         /\ proc[p].since \in Nat /\ proc[p].real \in Nat
BY TeamsAssumption DEF TeamsTypeOK, Rows, AtRest, Process, WebhookRow, SenderRow

\* A mutex is taken by a goroutine that begins a call it guards, and free when
\* the call is over.
KeyMutexFollows(p, x) ==
  \/ keyMutex' = keyMutex /\ (x.pc \in {"metadata", "fetch", "fetched"} <=> proc[p].pc \in {"metadata", "fetch", "fetched"})
  \/ p \in Webhook /\ keyMutex = None /\ keyMutex' = p /\ x.pc \in {"metadata", "fetch", "fetched"}
  \/ p \in Webhook /\ keyMutex' = None /\ x.pc \notin {"metadata", "fetch", "fetched"} /\ proc[p].pc \in {"metadata", "fetch", "fetched"}

TokenMutexFollows(p, x) ==
  \/ tokenMutex' = tokenMutex /\ (x.pc \in {"request", "requested"} <=> proc[p].pc \in {"request", "requested"})
  \/ tokenMutex = None /\ tokenMutex' = p /\ x.pc \in {"request", "requested"}
  \/ tokenMutex' = None /\ x.pc \notin {"request", "requested"} /\ proc[p].pc \in {"request", "requested"}

\* What one goroutine does leaves the others as they are.
LEMMA GoesOn ==
  ASSUME TeamsInv, NEW p \in Process, NEW x \in Rows(p), RowInv(p, x),
         proc' = [proc EXCEPT ![p] = x], UNCHANGED <<clock, published, withdrawn>>,
         KeyMutexFollows(p, x), TokenMutexFollows(p, x), faults' \in 0..MaxFaults,
         cache' \in [keys : SUBSET Kid, at : 0..clock], CacheInv',
         token' \in [until : Nat, real : Nat], token'.real <= token'.until, token'.until <= token'.real + Latency
  PROVE  TeamsInv'
<1> USE DEF TeamsInv
<1>1. proc \in [Process -> {AtRest} \cup WebhookRow \cup SenderRow]
  BY DEF TeamsTypeOK
<1>2. /\ proc'[p] = x /\ \A q \in Process \ {p} : proc'[q] = proc[q]
      /\ DOMAIN proc' = Process
  BY <1>1
<1>3. \A q \in Process : proc'[q] \in Rows(q)
  BY <1>2 DEF TeamsTypeOK
<1>4. proc' \in [Process -> {AtRest} \cup WebhookRow \cup SenderRow]
  <2>1. x \in {AtRest} \cup WebhookRow \cup SenderRow
    BY DEF Rows
  <2> QED
    BY <1>1, <2>1
<1>5. Webhook \subseteq Process /\ None \notin Process
  BY TeamsAssumption DEF Process
<1>6. \A w \in Webhook : proc'[w].pc \in {"metadata", "fetch", "fetched"} <=> keyMutex' = w
  BY <1>2, <1>5 DEF HolderInv, KeyMutexFollows
<1>7. \A q \in Process : proc'[q].pc \in {"request", "requested"} <=> tokenMutex' = q
  BY <1>2, <1>5 DEF HolderInv, TokenMutexFollows
<1>8. keyMutex' \in Webhook \cup {None} /\ tokenMutex' \in Process \cup {None}
  BY DEF TeamsTypeOK, KeyMutexFollows, TokenMutexFollows
<1>9. ASSUME NEW q \in Process
      PROVE  RowInv(q, proc[q])'
  <2>1. PICK r : r = proc'[q]
    OBVIOUS
  <2>2. RowInv(q, r)
    BY <1>2, <2>1
  <2>3. RowInv(q, r)'
    BY <2>2 DEF RowInv, CallInv, RequestInv, KeyInv, GoodAt, SendInv
  <2> QED
    BY <2>1, <2>3
<1>10. TeamsTypeOK'
  BY <1>3, <1>4, <1>8 DEF TeamsTypeOK
<1>11. HolderInv'
  BY <1>6, <1>7 DEF HolderInv
<1> QED
  BY <1>9, <1>10, <1>11

\* The clock goes on unless a call would last too long.
LEMMA TickStep ==
  ASSUME TeamsInv, Tick
  PROVE  TeamsInv'
<1> USE DEF TeamsInv
<1>1. /\ clock < MaxTime /\ clock' = clock + 1
      /\ \A p \in Process : InCall(p) => clock < proc[p].since + Latency
      /\ UNCHANGED <<published, withdrawn, cache, keyMutex, token, tokenMutex, proc, faults>>
  BY DEF Tick
<1>2. clock' \in 0..MaxTime /\ cache.at \in 0..clock'
  BY <1>1, TeamsNumbers
<1>3. cache' \in [keys : SUBSET Kid, at : 0..clock']
  BY <1>1, <1>2 DEF TeamsTypeOK
<1>4. TeamsTypeOK'
  BY <1>1, <1>2, <1>3 DEF TeamsTypeOK
<1>5. ASSUME NEW p \in Process
      PROVE  RowInv(p, proc[p])'
  <2>1. PICK r : r = proc[p]
    OBVIOUS
  <2>2. RowInv(p, r)
    BY <2>1
  <2>3. r.pc # "rest" => r.since \in Nat /\ r.real \in Nat
    BY <2>1, RowTyped
  <2>4. r.pc # "rest" /\ p \in Webhook => r.used \in Nat
    BY <2>1, RowTyped DEF WebhookRow
  <2>5. CallInv(r)'
    BY <1>1, <2>1, <2>2, <2>3, TeamsNumbers DEF RowInv, CallInv, InCall
  <2>6. RequestInv(r)'
    BY <1>1, <2>2, <2>3, TeamsNumbers DEF RowInv, RequestInv
  <2>7. p \in Webhook => KeyInv(p, r)'
    <3>1. r.pc # "rest" /\ p \in Webhook => r.used <= clock'
      BY <1>1, <2>2, <2>4, TeamsNumbers DEF RowInv, KeyInv
    <3> QED
      BY <1>1, <2>2, <3>1 DEF RowInv, KeyInv, GoodAt
  <2>8. p \in Sender => SendInv(r)'
    BY <2>2 DEF RowInv, SendInv
  <2> QED
    BY <1>1, <2>1, <2>5, <2>6, <2>7, <2>8 DEF RowInv
<1>6. CacheInv' /\ HolderInv'
  BY <1>1 DEF CacheInv, HolderInv
<1> QED
  BY <1>1, <1>4, <1>5, <1>6

\* The issuer exchanges a key: to the requests that it signed it is none any more.
LEMMA RotateStep ==
  ASSUME TeamsInv, NEW old \in Kid, NEW new \in Kid, Rotate(old, new)
  PROVE  TeamsInv'
<1> USE DEF TeamsInv
<1> DEFINE next(p) == IF proc[p].pc # "rest" /\ p \in Webhook /\ proc[p].kid = old
                      THEN [proc[p] EXCEPT !.steady = FALSE] ELSE proc[p]
<1>1. /\ old \in published /\ new \notin published /\ withdrawn[new] = None
      /\ published' = (published \ {old}) \cup {new}
      /\ withdrawn' = [withdrawn EXCEPT ![old] = clock]
      /\ proc' = [p \in Process |-> next(p)]
      /\ UNCHANGED <<clock, cache, keyMutex, token, tokenMutex, faults>>
  BY DEF Rotate
<1>2. withdrawn' \in [Kid -> 0..MaxTime \cup {None}] /\ withdrawn'[old] = clock
      /\ \A k \in Kid \ {old} : withdrawn'[k] = withdrawn[k]
  BY <1>1 DEF TeamsTypeOK
<1>3. ASSUME NEW p \in Process
      PROVE  /\ proc'[p].pc = proc[p].pc /\ proc'[p] \in Rows(p)
             /\ proc'[p] \in {AtRest} \cup WebhookRow \cup SenderRow
             /\ RowInv(p, proc[p])'
  <2>1. PICK r : r = proc[p]
    OBVIOUS
  <2>2. PICK x : x = proc'[p]
    OBVIOUS
  <2>3. RowInv(p, r) /\ r \in Rows(p)
    BY <2>1 DEF TeamsTypeOK
  <2>4. CASE ~(r.pc # "rest" /\ p \in Webhook /\ r.kid = old)
    <3>1. x = r
      BY <1>1, <2>1, <2>2, <2>4
    <3>2. p \in Webhook => KeyInv(p, r)'
      <4>1. r.pc # "rest" /\ p \in Webhook => r \in WebhookRow /\ r.kid \in Kid \ {old} /\ r.got \subseteq Kid /\ r.since \in Nat
        BY <2>1, <2>4, RowTyped DEF WebhookRow
      <4>2. p \in Webhook => KeyInv(p, r)
        BY <2>3 DEF RowInv
      <4>3. p \in Webhook /\ r.pc = "fetched" => r.since <= clock
        BY <2>3 DEF RowInv, CallInv
      <4>4. p \in Webhook /\ r.pc = "fetched" => \A k \in r.got : GoodAt(k, r.since)'
        BY <1>2, <4>1, <4>2, <4>3 DEF KeyInv, GoodAt
      <4>5. p \in Webhook /\ r.pc # "rest" => withdrawn'[r.kid] = withdrawn[r.kid] /\ (r.steady => r.kid \in published')
        BY <1>1, <1>2, <4>1, <4>2 DEF KeyInv
      <4> QED
        BY <1>1, <4>2, <4>4, <4>5 DEF KeyInv
    <3>3. CallInv(r)' /\ RequestInv(r)' /\ (p \in Sender => SendInv(r)')
      BY <1>1, <2>3 DEF RowInv, CallInv, RequestInv, SendInv
    <3>4. RowInv(p, r)'
      BY <3>2, <3>3 DEF RowInv
    <3>5. x \in {AtRest} \cup WebhookRow \cup SenderRow
      BY <2>3, <3>1 DEF Rows
    <3> QED
      BY <2>1, <2>2, <2>3, <3>1, <3>4, <3>5
  <2>5. CASE r.pc # "rest" /\ p \in Webhook /\ r.kid = old
    <3>1. x = [r EXCEPT !.steady = FALSE] /\ r \in WebhookRow
      BY <1>1, <2>1, <2>2, <2>5, RowTyped
    <3>2. /\ x \in WebhookRow /\ x.steady = FALSE
          /\ x.pc = r.pc /\ x.since = r.since /\ x.kid = old /\ x.lost = r.lost /\ x.used = r.used
          /\ x.got = r.got /\ x.real = r.real
          /\ r.used \in Nat /\ r.since \in Nat /\ r.got \subseteq Kid
      BY <2>5, <3>1 DEF WebhookRow
    <3>3. CallInv(x)' /\ RequestInv(x)' /\ p \notin Sender
      BY <1>1, <2>3, <2>5, <3>2, TeamsAssumption DEF RowInv, CallInv, RequestInv
    <3>4. KeyInv(p, r)
      BY <2>3, <2>5 DEF RowInv
    <3>5. x.pc = "fetched" => \A k \in x.got : GoodAt(k, x.since)'
      <4>1. r.pc = "fetched" => r.since <= clock
        BY <2>3 DEF RowInv, CallInv
      <4> QED
        BY <1>2, <2>5, <3>2, <3>4, <4>1 DEF KeyInv, GoodAt
    <3>6. x.used <= clock /\ x.used <= withdrawn'[old] + CacheFor + Latency
      <4>1. x.used <= clock
        BY <2>5, <3>2, <3>4 DEF KeyInv
      <4>2. x.used \in Nat
        BY <3>2
      <4> QED
        BY <1>2, <4>1, <4>2, TeamsNumbers
    <3>7. KeyInv(p, x)'
      BY <1>1, <3>2, <3>5, <3>6 DEF KeyInv
    <3>8. RowInv(p, x)'
      BY <3>3, <3>7 DEF RowInv
    <3>9. x \in Rows(p)
      BY <2>5, <3>2 DEF Rows
    <3> QED
      BY <2>1, <2>2, <3>2, <3>8, <3>9
  <2> QED
    BY <2>4, <2>5
<1>4. TeamsTypeOK'
  <2>1. proc' \in [Process -> {AtRest} \cup WebhookRow \cup SenderRow]
    <3>1. DOMAIN proc' = Process /\ proc' = [p \in Process |-> proc'[p]]
      BY <1>1
    <3> QED
      BY <1>3, <3>1
  <2>2. published' \subseteq Kid
    BY <1>1, TeamsNumbers
  <2> QED
    BY <1>1, <1>2, <1>3, <2>1, <2>2 DEF TeamsTypeOK
<1>5. CacheInv'
  <2>1. cache.keys \subseteq Kid /\ cache.at <= clock + Latency
    BY TeamsNumbers
  <2> QED
    BY <1>1, <1>2, <2>1 DEF CacheInv
<1>6. \A k \in published' : withdrawn'[k] = None
  <2>1. old # new
    BY <1>1
  <2> QED
    BY <1>1, <1>2, <2>1, TeamsNumbers
<1>7. HolderInv'
  <2>1. Webhook \subseteq Process
    BY DEF Process
  <2> QED
    BY <1>1, <1>3, <2>1 DEF HolderInv
<1> QED
  BY <1>1, <1>3, <1>4, <1>5, <1>6, <1>7

\* Caches that nobody fills stay as good as they were.
LEMMA KeysStay ==
  ASSUME TeamsInv, UNCHANGED <<clock, withdrawn, cache>>
  PROVE  cache' \in [keys : SUBSET Kid, at : 0..clock] /\ CacheInv'
BY DEF TeamsInv, TeamsTypeOK, CacheInv

\* So does the token.
LEMMA TokenStays ==
  ASSUME TeamsInv, token' = token
  PROVE  /\ token' \in [until : Nat, real : Nat]
         /\ token'.real <= token'.until /\ token'.until <= token'.real + Latency
BY DEF TeamsInv, TeamsTypeOK

\* A request arrives.
LEMMA ArriveStep ==
  ASSUME TeamsInv, NEW w \in Webhook, NEW k \in Kid, Arrive(w, k)
  PROVE  TeamsInv'
<1> DEFINE x == [pc |-> "key", since |-> 0, kid |-> k, steady |-> k \in published,
                 lost |-> FALSE, used |-> 0, got |-> {}, real |-> 0]
<1>1. /\ proc[w].pc = "rest" /\ proc' = [proc EXCEPT ![w] = x]
      /\ UNCHANGED <<clock, published, withdrawn, cache, keyMutex, token, tokenMutex, faults>>
  BY DEF Arrive
<1>2. TeamsTypeOK /\ w \in Process /\ w \notin Sender
  BY TeamsAssumption DEF TeamsInv, Process
<1>3. x \in WebhookRow
  <2>1. (k \in published) \in BOOLEAN
    OBVIOUS
  <2> QED
    BY <2>1 DEF WebhookRow
<1>4. x.pc = "key" /\ x.used = 0 /\ x.kid = k /\ (x.steady => k \in published)
  OBVIOUS
<1> HIDE DEF x
<1>5. RowInv(w, x)
  BY <1>2, <1>4, TeamsNumbers DEF RowInv, CallInv, RequestInv, KeyInv
<1>6. x \in Rows(w)
  BY <1>3 DEF Rows
<1>7. KeyMutexFollows(w, x) /\ TokenMutexFollows(w, x) /\ faults' \in 0..MaxFaults
  BY <1>1, <1>2, <1>4 DEF KeyMutexFollows, TokenMutexFollows, TeamsTypeOK
<1> QED
  BY <1>1, <1>2, <1>5, <1>6, <1>7, KeysStay, TokenStays, GoesOn

\* A message is to be sent.
LEMMA BeginStep ==
  ASSUME TeamsInv, NEW s \in Sender, BeginSend(s)
  PROVE  TeamsInv'
<1> DEFINE x == [pc |-> "token", since |-> 0, part |-> 1, real |-> 0, status |-> "none"]
<1>1. /\ proc[s].pc = "rest" /\ proc' = [proc EXCEPT ![s] = x]
      /\ UNCHANGED <<clock, published, withdrawn, cache, keyMutex, token, tokenMutex, faults>>
  BY DEF BeginSend
<1>2. TeamsTypeOK /\ s \in Process /\ s \notin Webhook
  BY TeamsAssumption DEF TeamsInv, Process
<1>3. x \in SenderRow
  <2>1. 1 \in 1..MaxParts
    BY TeamsAssumption
  <2> QED
    BY <2>1 DEF SenderRow
<1>4. x.pc = "token" /\ x.status = "none"
  OBVIOUS
<1> HIDE DEF x
<1>5. RowInv(s, x)
  BY <1>2, <1>4 DEF RowInv, CallInv, RequestInv, SendInv
<1>6. x \in Rows(s)
  BY <1>2, <1>3 DEF Rows
<1>7. KeyMutexFollows(s, x) /\ TokenMutexFollows(s, x) /\ faults' \in 0..MaxFaults
  BY <1>1, <1>2, <1>4 DEF KeyMutexFollows, TokenMutexFollows, TeamsTypeOK
<1> QED
  BY <1>1, <1>2, <1>5, <1>6, <1>7, KeysStay, TokenStays, GoesOn

\* What becomes of a request whose key was looked up in keys that are good.
LEMMA CheckedKey ==
  ASSUME TeamsInv, NEW w \in Webhook, proc[w].pc \in {"key", "fetched"}, NEW keys \in SUBSET Kid,
         proc[w].steady /\ proc[w].kid \notin keys => FALSE,
         proc[w].kid \in keys => withdrawn[proc[w].kid] = None
                                  \/ clock <= withdrawn[proc[w].kid] + CacheFor + Latency
  PROVE  /\ Checked(w, keys) \in WebhookRow
         /\ Checked(w, keys).pc \in {"refused", "token", "handle"}
         /\ RowInv(w, Checked(w, keys))
<1> DEFINE r == proc[w]
           x == Checked(w, keys)
<1>1. TeamsTypeOK /\ w \in Process /\ w \notin Sender
  BY TeamsAssumption DEF TeamsInv, Process
<1>2. r \in WebhookRow /\ RowInv(w, r)
  BY <1>1, RowTyped DEF TeamsInv
<1>3. clock \in Nat
  BY <1>1, TeamsNumbers
<1>4. /\ Validated(w) \in {"refused", "token", "handle"}
      /\ Validated(w) = "refused" => w \notin Good
  BY DEF Validated
<1> DEFINE pc == IF r.kid \in keys THEN Validated(w) ELSE "refused"
<1>5. x = [r EXCEPT !.pc = pc, !.since = 0, !.used = clock, !.got = {}]
  BY DEF Checked
<1>6. pc \in {"refused", "token", "handle"} /\ (pc = "refused" => r.kid \notin keys \/ w \notin Good)
      /\ (pc # "refused" => r.kid \in keys)
  BY <1>4
<1> HIDE DEF pc, x
<1>7. /\ x \in WebhookRow /\ x.pc = pc /\ x.used = clock /\ x.kid = r.kid /\ x.steady = r.steady
      /\ x.lost = r.lost /\ r.steady \in BOOLEAN
  BY <1>2, <1>3, <1>5, <1>6 DEF WebhookRow
<1>8. r.steady => r.kid \in published
  BY <1>2 DEF RowInv, KeyInv
<1>9. KeyInv(w, x)
  BY <1>3, <1>6, <1>7, <1>8 DEF KeyInv
<1>10. RowInv(w, x)
  BY <1>1, <1>6, <1>7, <1>9 DEF RowInv, CallInv, RequestInv
<1> QED
  BY <1>6, <1>7, <1>10 DEF x

\* A request looks its key up in the cache, or the keys it fetched have come.
LEMMA LookUpStep ==
  ASSUME TeamsInv, NEW w \in Webhook, CachedKey(w) \/ KeysFetched(w)
  PROVE  TeamsInv'
<1> DEFINE r == proc[w]
<1>1. TeamsTypeOK /\ w \in Process
  BY DEF TeamsInv, Process
<1>2. r.pc \in {"key", "fetched"} /\ r \in WebhookRow /\ RowInv(w, r) /\ KeyInv(w, r)
      /\ r.kid \in Kid /\ r.since \in Nat /\ r.got \in SUBSET Kid
  <2>1. r.pc \in {"key", "fetched"}
    BY DEF CachedKey, KeysFetched
  <2>2. r \in WebhookRow /\ RowInv(w, r)
    BY <1>1, <2>1, RowTyped DEF TeamsInv
  <2> QED
    BY <2>1, <2>2 DEF RowInv, WebhookRow
<1>3. UNCHANGED <<published, withdrawn, clock, token, tokenMutex, faults>>
  BY DEF CachedKey, KeysFetched
<1>4. CASE CachedKey(w)
  <2>1. /\ r.pc = "key" /\ r.kid \in cache.keys /\ clock < cache.at + CacheFor
        /\ proc' = [proc EXCEPT ![w] = Checked(w, cache.keys)] /\ UNCHANGED <<cache, keyMutex>>
    BY <1>4 DEF CachedKey, Fresh
  <2>2. withdrawn[r.kid] = None \/ cache.at <= withdrawn[r.kid] + Latency
    BY <2>1 DEF TeamsInv, CacheInv
  <2>3. withdrawn[r.kid] = None \/ clock <= withdrawn[r.kid] + CacheFor + Latency
    BY <1>1, <1>2, <2>1, <2>2, TeamsNumbers
  <2>4. cache.keys \in SUBSET Kid
    BY <1>1, TeamsNumbers
  <2>5. PICK x : x = Checked(w, cache.keys)
    OBVIOUS
  <2>6. x \in WebhookRow /\ x.pc \in {"refused", "token", "handle"} /\ RowInv(w, x)
    BY <1>2, <2>1, <2>3, <2>4, <2>5, CheckedKey
  <2>7. x \in Rows(w)
    BY <2>6 DEF Rows
  <2>8. KeyMutexFollows(w, x) /\ TokenMutexFollows(w, x) /\ faults' \in 0..MaxFaults
    BY <1>1, <1>3, <2>1, <2>6 DEF KeyMutexFollows, TokenMutexFollows, TeamsTypeOK
  <2> QED
    BY <1>1, <1>3, <2>1, <2>5, <2>6, <2>7, <2>8, KeysStay, TokenStays, GoesOn
<1>5. CASE KeysFetched(w)
  <2>1. /\ r.pc = "fetched" /\ cache' = [keys |-> r.got, at |-> clock] /\ keyMutex' = None
        /\ proc' = [proc EXCEPT ![w] = Checked(w, r.got)]
    BY <1>5 DEF KeysFetched
  <2>2. r.steady => r.kid \in r.got
    BY <1>2, <2>1 DEF KeyInv
  <2>3. r.since <= clock /\ clock <= r.since + Latency
    BY <1>2, <2>1 DEF RowInv, CallInv
  <2>4. ASSUME NEW k \in r.got
        PROVE  /\ withdrawn[k] = None \/ clock <= withdrawn[k] + Latency
               /\ withdrawn[k] = None \/ clock <= withdrawn[k] + CacheFor + Latency
    <3>1. withdrawn[k] = None \/ r.since <= withdrawn[k]
      BY <1>2, <2>1 DEF KeyInv, GoodAt
    <3>2. k \in Kid /\ (withdrawn[k] = None \/ withdrawn[k] \in Nat)
      BY <1>1, <1>2, TeamsNumbers
    <3> QED
      BY <1>1, <1>2, <2>3, <3>1, <3>2, TeamsNumbers
  <2>5. PICK x : x = Checked(w, r.got)
    OBVIOUS
  <2>6. x \in WebhookRow /\ x.pc \in {"refused", "token", "handle"} /\ RowInv(w, x)
    BY <1>2, <2>1, <2>2, <2>4, <2>5, CheckedKey
  <2>7. x \in Rows(w)
    BY <2>6 DEF Rows
  <2>8. KeyMutexFollows(w, x) /\ TokenMutexFollows(w, x) /\ faults' \in 0..MaxFaults
    BY <1>1, <1>3, <2>1, <2>6 DEF KeyMutexFollows, TokenMutexFollows, TeamsTypeOK
  <2>9. cache' \in [keys : SUBSET Kid, at : 0..clock]
    <3>1. clock \in 0..clock
      BY <1>1, TeamsNumbers
    <3> QED
      BY <1>2, <2>1, <3>1
  <2>10. CacheInv'
    BY <1>3, <2>1, <2>4 DEF CacheInv
  <2> QED
    BY <1>1, <1>3, <2>1, <2>5, <2>6, <2>7, <2>8, <2>9, <2>10, TokenStays, GoesOn
<1> QED
  BY <1>4, <1>5

\* An error was decoded: the request is refused, and the cache is empty.
LEMMA EmptyStep ==
  ASSUME TeamsInv, NEW w \in Webhook, EmptyAnswer(w)
  PROVE  TeamsInv'
<1> DEFINE r == proc[w]
<1>1. TeamsTypeOK /\ w \in Process /\ w \notin Sender
  BY TeamsAssumption DEF TeamsInv, Process
<1>2. /\ r.pc = "fetched" /\ cache' = [keys |-> {}, at |-> clock] /\ keyMutex' = None
      /\ faults < MaxFaults /\ faults' = faults + 1
      /\ proc' = [proc EXCEPT ![w] = [Checked(w, {}) EXCEPT !.lost = TRUE]]
      /\ UNCHANGED <<published, withdrawn, clock, token, tokenMutex>>
  BY DEF EmptyAnswer
<1>3. r.pc = "fetched" /\ r \in WebhookRow /\ KeyInv(w, r) /\ clock \in Nat
  BY <1>1, <1>2, RowTyped, TeamsNumbers DEF TeamsInv, RowInv
<1>4. PICK y : y = Checked(w, {})
  OBVIOUS
<1>5. /\ y \in WebhookRow /\ y.pc = "refused" /\ y.used = clock
      /\ y.steady = r.steady /\ y.kid = r.kid
  <2>1. y = [r EXCEPT !.pc = "refused", !.since = 0, !.used = clock, !.got = {}]
    BY <1>4 DEF Checked
  <2> QED
    BY <1>3, <2>1 DEF WebhookRow
<1>14. PICK x : x = [y EXCEPT !.lost = TRUE]
  OBVIOUS
<1>6. /\ x \in WebhookRow /\ x.pc = "refused" /\ x.lost = TRUE /\ x.used = clock
      /\ x.steady = r.steady /\ x.kid = r.kid
  BY <1>5, <1>14 DEF WebhookRow
<1>7. KeyInv(w, x)
  BY <1>3, <1>6 DEF KeyInv
<1>8. RowInv(w, x)
  BY <1>1, <1>6, <1>7 DEF RowInv, CallInv, RequestInv
<1>9. x \in Rows(w)
  BY <1>6 DEF Rows
<1>10. KeyMutexFollows(w, x) /\ TokenMutexFollows(w, x)
  BY <1>2, <1>6 DEF KeyMutexFollows, TokenMutexFollows
<1>11. faults' \in 0..MaxFaults
  BY <1>1, <1>2, TeamsAssumption DEF TeamsTypeOK
<1>12. cache' \in [keys : SUBSET Kid, at : 0..clock] /\ CacheInv'
  <2>1. clock \in 0..clock
    BY <1>3
  <2> QED
    BY <1>2, <2>1 DEF CacheInv
<1>13. proc' = [proc EXCEPT ![w] = x]
  BY <1>2, <1>4, <1>14
<1> QED
  BY <1>1, <1>2, <1>8, <1>9, <1>10, <1>11, <1>12, <1>13, TokenStays, GoesOn

\* A request begins to fetch the keys, the server reads them, the fetch fails,
\* or the request is handled.
LEMMA FetchStep ==
  ASSUME TeamsInv, NEW w \in Webhook, Refresh(w) \/ MetadataFetched(w) \/ KeysRead(w) \/ FetchFails(w) \/ Handle(w)
  PROVE  TeamsInv'
<1> DEFINE r == proc[w]
<1>1. TeamsTypeOK /\ w \in Process /\ w \notin Sender
  BY TeamsAssumption DEF TeamsInv, Process
<1>2. r.pc \in {"key", "metadata", "fetch", "fetched", "handle"} /\ r \in WebhookRow /\ RowInv(w, r) /\ KeyInv(w, r)
  <2>1. r.pc \in {"key", "metadata", "fetch", "fetched", "handle"}
    BY DEF Refresh, MetadataFetched, KeysRead, FetchFails, Handle
  <2>2. r \in WebhookRow /\ RowInv(w, r)
    BY <1>1, <2>1, RowTyped DEF TeamsInv
  <2> QED
    BY <2>1, <2>2 DEF RowInv
<1>3. UNCHANGED <<published, withdrawn, clock, cache, token, tokenMutex>>
  BY DEF Refresh, MetadataFetched, KeysRead, FetchFails, Handle
<1>4. clock \in Nat /\ published \in SUBSET Kid /\ Latency \in Nat
  BY <1>1, TeamsNumbers
<1>5. PICK x \in WebhookRow :
        /\ proc' = [proc EXCEPT ![w] = x] /\ x.pc \in {"metadata", "fetch", "fetched", "refused", "handled"}
        /\ RowInv(w, x) /\ KeyMutexFollows(w, x)
  <2>1. CASE Refresh(w)
    <3>1. PICK x : x = [r EXCEPT !.pc = "metadata", !.since = clock]
      OBVIOUS
    <3>2. proc[w].pc = "key" /\ keyMutex = None /\ keyMutex' = w /\ proc' = [proc EXCEPT ![w] = x]
      BY <2>1, <3>1 DEF Refresh, Goes
    <3>3. /\ x \in WebhookRow /\ x.pc = "metadata" /\ x.since = clock /\ x.used = r.used
          /\ x.steady = r.steady /\ x.kid = r.kid
      BY <1>2, <1>4, <3>1 DEF WebhookRow
    <3>4. KeyInv(w, x)
      BY <1>2, <3>3 DEF KeyInv
    <3>5. RowInv(w, x)
      BY <1>1, <1>4, <3>3, <3>4 DEF RowInv, CallInv, RequestInv
    <3> QED
      BY <3>2, <3>3, <3>5 DEF KeyMutexFollows
  <2>5. CASE MetadataFetched(w)
    <3>1. PICK x : x = [r EXCEPT !.pc = "fetch", !.since = clock]
      OBVIOUS
    <3>2. r.pc = "metadata" /\ keyMutex' = keyMutex /\ proc' = [proc EXCEPT ![w] = x]
      BY <2>5, <3>1 DEF MetadataFetched, Goes
    <3>3. /\ x \in WebhookRow /\ x.pc = "fetch" /\ x.since = clock /\ x.used = r.used
          /\ x.steady = r.steady /\ x.kid = r.kid
      BY <1>2, <1>4, <3>1 DEF WebhookRow
    <3>4. KeyInv(w, x)
      BY <1>2, <3>2, <3>3 DEF KeyInv
    <3>5. RowInv(w, x)
      BY <1>1, <1>4, <3>3, <3>4 DEF RowInv, CallInv, RequestInv
    <3> QED
      BY <3>2, <3>3, <3>5 DEF KeyMutexFollows
  <2>2. CASE KeysRead(w)
    <3>1. PICK x : x = [r EXCEPT !.pc = "fetched", !.got = published]
      OBVIOUS
    <3>2. r.pc = "fetch" /\ keyMutex' = keyMutex /\ proc' = [proc EXCEPT ![w] = x]
      BY <2>2, <3>1 DEF KeysRead
    <3>3. /\ x \in WebhookRow /\ x.pc = "fetched" /\ x.since = r.since /\ x.used = r.used
          /\ x.steady = r.steady /\ x.kid = r.kid /\ x.got = published
      BY <1>2, <1>4, <3>1 DEF WebhookRow
    <3>4. \A k \in published : GoodAt(k, x.since)
      BY DEF TeamsInv, GoodAt
    <3>5. KeyInv(w, x)
      BY <1>2, <3>3, <3>4 DEF KeyInv
    <3>6. RowInv(w, x)
      BY <1>1, <1>2, <3>2, <3>3, <3>5 DEF RowInv, CallInv, RequestInv
    <3> QED
      BY <3>2, <3>3, <3>6 DEF KeyMutexFollows
  <2>3. CASE FetchFails(w)
    <3>1. PICK x : x = [r EXCEPT !.pc = "refused", !.lost = TRUE, !.since = 0, !.got = {}]
      OBVIOUS
    <3>2. /\ r.pc \in {"metadata", "fetch", "fetched"} /\ keyMutex' = None /\ proc' = [proc EXCEPT ![w] = x]
      BY <2>3, <3>1 DEF FetchFails
    <3>3. /\ x \in WebhookRow /\ x.pc = "refused" /\ x.lost = TRUE /\ x.used = r.used
          /\ x.steady = r.steady /\ x.kid = r.kid
      BY <1>2, <3>1 DEF WebhookRow
    <3>4. KeyInv(w, x)
      BY <1>2, <3>3 DEF KeyInv
    <3>5. RowInv(w, x)
      BY <1>1, <3>3, <3>4 DEF RowInv, CallInv, RequestInv
    <3> QED
      BY <3>2, <3>3, <3>5 DEF KeyMutexFollows
  <2>4. CASE Handle(w)
    <3>1. PICK x : x = [r EXCEPT !.pc = "handled"]
      OBVIOUS
    <3>2. r.pc = "handle" /\ keyMutex' = keyMutex /\ proc' = [proc EXCEPT ![w] = x]
      BY <2>4, <3>1 DEF Handle
    <3>3. /\ x \in WebhookRow /\ x.pc = "handled" /\ x.used = r.used
          /\ x.steady = r.steady /\ x.kid = r.kid
      BY <1>2, <3>1 DEF WebhookRow
    <3>4. KeyInv(w, x)
      BY <1>2, <3>2, <3>3 DEF KeyInv
    <3>5. RowInv(w, x)
      BY <1>1, <3>3, <3>4 DEF RowInv, CallInv, RequestInv
    <3> QED
      BY <3>2, <3>3, <3>5 DEF KeyMutexFollows
  <2> QED
    BY <2>1, <2>2, <2>3, <2>4, <2>5
<1>6. x \in Rows(w) /\ TokenMutexFollows(w, x)
  BY <1>2, <1>3, <1>5 DEF Rows, TokenMutexFollows
<1>7. faults' \in 0..MaxFaults
  <2>1. faults' = faults \/ (faults < MaxFaults /\ faults' = faults + 1)
    BY DEF Refresh, MetadataFetched, KeysRead, FetchFails, Handle
  <2> QED
    BY <1>1, <2>1, TeamsAssumption DEF TeamsTypeOK
<1> QED
  BY <1>1, <1>3, <1>5, <1>6, <1>7, KeysStay, TokenStays, GoesOn

\* With a token of enough life left, or none, a request is handled and a message
\* is sent or not.
LEMMA WithToken ==
  ASSUME TeamsInv, NEW p \in Process, proc[p].pc \in {"token", "request", "requested"}, NEW t, With(p, t),
         t # None => /\ t.real \in Nat
                     /\ Lifetime > Skew => clock + Skew < t.real + Latency
  PROVE  \E x \in Rows(p) :
           /\ proc' = [proc EXCEPT ![p] = x] /\ x.pc \in {"handle", "failed", "post"}
           /\ RowInv(p, x)
<1> DEFINE r == proc[p]
<1>1. TeamsTypeOK /\ RowInv(p, r) /\ Webhook \cap Sender = {}
  BY TeamsAssumption DEF TeamsInv
<1>2. clock \in Nat /\ Latency \in Nat
  BY <1>1, TeamsNumbers
<1>3. CASE p \in Webhook
  <2>1. r \in WebhookRow /\ KeyInv(p, r) /\ p \notin Sender
    BY <1>1, <1>3, RowTyped DEF RowInv
  <2>2. PICK x : x = [r EXCEPT !.pc = "handle", !.since = 0, !.real = 0]
    OBVIOUS
  <2>3. proc' = [proc EXCEPT ![p] = x]
    BY <1>3, <2>2 DEF With
  <2>4. /\ x \in WebhookRow /\ x.pc = "handle" /\ x.used = r.used /\ x.steady = r.steady /\ x.kid = r.kid
    BY <2>1, <2>2 DEF WebhookRow
  <2>5. KeyInv(p, x)
    BY <2>1, <2>4 DEF KeyInv
  <2>6. RowInv(p, x)
    BY <2>1, <2>4, <2>5 DEF RowInv, CallInv, RequestInv
  <2> QED
    BY <1>3, <2>3, <2>4, <2>6 DEF Rows
<1>4. CASE p \notin Webhook
  <2>1. p \in Sender
    BY <1>4 DEF Process
  <2>2. r \in SenderRow /\ SendInv(r)
    BY <1>1, <2>1, RowTyped DEF RowInv
  <2>3. CASE t = None
    <3>1. PICK x : x = [r EXCEPT !.pc = "failed", !.since = 0]
      OBVIOUS
    <3>2. proc' = [proc EXCEPT ![p] = x]
      BY <1>4, <2>3, <3>1 DEF With
    <3>3. x \in SenderRow /\ x.pc = "failed" /\ x.status = r.status /\ x.part = r.part
      BY <2>2, <3>1 DEF SenderRow
    <3>4. SendInv(x)
      BY <2>2, <3>3 DEF SendInv
    <3>5. RowInv(p, x)
      BY <1>4, <3>3, <3>4 DEF RowInv, CallInv, RequestInv
    <3> QED
      BY <1>4, <3>2, <3>3, <3>5 DEF Rows
  <2>4. CASE t # None
    <3>1. PICK x : x = [r EXCEPT !.pc = "post", !.since = clock, !.real = t.real]
      OBVIOUS
    <3>2. proc' = [proc EXCEPT ![p] = x]
      BY <1>4, <2>4, <3>1 DEF With
    <3>3. /\ x \in SenderRow /\ x.pc = "post" /\ x.since = clock /\ x.real = t.real
          /\ x.status = r.status /\ x.part = r.part
      BY <1>2, <2>2, <2>4, <3>1 DEF SenderRow
    <3>4. x.part \in 1..MaxParts /\ MaxParts \in Nat
      BY <3>3, TeamsAssumption DEF SenderRow
    <3>5. x.part * Latency \in Nat /\ Latency <= x.part * Latency
      BY <1>2, <3>4
    <3>6. SendInv(x)
      <4>1. Skew \in Nat
        BY TeamsAssumption
      <4>2. Lifetime > Skew => x.since + Skew < x.real + x.part * Latency
        BY <1>2, <2>4, <3>3, <3>5, <4>1
      <4> QED
        BY <2>2, <3>3, <4>2 DEF SendInv
    <3>7. RowInv(p, x)
      BY <1>2, <1>4, <3>3, <3>6 DEF RowInv, CallInv, RequestInv
    <3> QED
      BY <1>4, <3>2, <3>3, <3>7 DEF Rows
  <2> QED
    BY <2>3, <2>4
<1> QED
  BY <1>3, <1>4

\* Somebody who needs a token has one, requests one, gets one or none.
LEMMA TokenSteps ==
  ASSUME TeamsInv, NEW p \in Process, TokenStep(p)
  PROVE  TeamsInv'
<1> DEFINE r == proc[p]
<1>1. TeamsTypeOK /\ RowInv(p, r)
  BY DEF TeamsInv
<1>2. r.pc \in {"token", "request", "requested"}
      /\ UNCHANGED <<published, withdrawn, clock, cache, keyMutex>>
  BY DEF TokenStep, CachedToken, RequestToken, TokenIssued, TokenReceived, TokenFails
<1>3. /\ clock \in Nat /\ Latency \in Nat /\ Lifetime \in Nat /\ Skew \in Nat
      /\ token.until \in Nat /\ token.real \in Nat /\ token.until <= token.real + Latency
  BY <1>1, TeamsNumbers DEF TeamsInv
<1>4. /\ p \in Webhook => r \in WebhookRow
      /\ p \in Sender => r \in SenderRow
      /\ r.since \in Nat /\ r.real \in Nat
      /\ p \notin Webhook => p \in Sender
      /\ ~(p \in Webhook /\ p \in Sender)
  BY <1>1, <1>2, RowTyped, TeamsAssumption DEF Process
<1>5. faults' \in 0..MaxFaults
  <2>1. faults' = faults \/ (faults < MaxFaults /\ faults' = faults + 1)
    BY DEF TokenStep, CachedToken, RequestToken, TokenIssued, TokenReceived, TokenFails
  <2> QED
    BY <1>1, <2>1, TeamsAssumption DEF TeamsTypeOK
<1> DEFINE TokenGood(t) ==
             /\ t \in [until : Nat, real : Nat]
             /\ t.real <= t.until /\ t.until <= t.real + Latency
<1>6. TokenGood(token)
  BY <1>1, <1>3 DEF TeamsTypeOK
<1>7. TokenGood(token') /\ \E x \in Rows(p) :
        /\ proc' = [proc EXCEPT ![p] = x]
        /\ x.pc \in {"handle", "failed", "post", "request", "requested"}
        /\ RowInv(p, x) /\ TokenMutexFollows(p, x)
  <2>1. CASE CachedToken(p)
    <3>1. r.pc = "token" /\ clock + Skew < token.until /\ With(p, token) /\ UNCHANGED <<token, tokenMutex>>
      BY <2>1 DEF CachedToken, Usable
    <3>2. clock + Skew < token.real + Latency
      BY <1>3, <3>1
    <3>3. PICK t : t = token
      OBVIOUS
    <3>4. PICK x \in Rows(p) :
            /\ proc' = [proc EXCEPT ![p] = x] /\ x.pc \in {"handle", "failed", "post"}
            /\ RowInv(p, x)
      BY <1>3, <3>1, <3>2, <3>3, WithToken
    <3> QED
      BY <1>6, <3>1, <3>4 DEF TokenMutexFollows
  <2>2. CASE RequestToken(p)
    <3>1. PICK x : x = [r EXCEPT !.pc = "request", !.since = clock]
      OBVIOUS
    <3>2. /\ r.pc = "token" /\ tokenMutex = None /\ tokenMutex' = p /\ token' = token
          /\ proc' = [proc EXCEPT ![p] = x]
      BY <2>2, <3>1 DEF RequestToken, Goes
    <3>3. /\ p \in Webhook => x \in WebhookRow /\ x.used = r.used /\ x.steady = r.steady /\ x.kid = r.kid
          /\ p \in Sender => x \in SenderRow /\ x.status = r.status /\ x.part = r.part
          /\ x.pc = "request" /\ x.since = clock
      BY <1>3, <1>4, <3>1 DEF WebhookRow, SenderRow
    <3>4. p \in Webhook => KeyInv(p, x)
      BY <1>1, <3>2, <3>3 DEF RowInv, KeyInv
    <3>5. p \in Sender => SendInv(x)
      BY <1>1, <3>2, <3>3 DEF RowInv, SendInv
    <3>6. CallInv(x) /\ RequestInv(x)
      BY <1>3, <3>3 DEF CallInv, RequestInv
    <3>7. x \in Rows(p) /\ RowInv(p, x)
      BY <1>4, <3>3, <3>4, <3>5, <3>6 DEF Rows, RowInv
    <3> QED
      BY <1>6, <3>2, <3>3, <3>7 DEF TokenMutexFollows
  <2>3. CASE TokenIssued(p)
    <3>1. PICK x : x = [r EXCEPT !.pc = "requested", !.real = clock + Lifetime]
      OBVIOUS
    <3>2. /\ r.pc = "request" /\ tokenMutex' = tokenMutex /\ token' = token
          /\ proc' = [proc EXCEPT ![p] = x]
      BY <2>3, <3>1 DEF TokenIssued
    <3>3. /\ p \in Webhook => x \in WebhookRow /\ x.used = r.used /\ x.steady = r.steady /\ x.kid = r.kid
          /\ p \in Sender => x \in SenderRow /\ x.status = r.status /\ x.part = r.part
          /\ x.pc = "requested" /\ x.since = r.since /\ x.real = clock + Lifetime
      <4>1. clock + Lifetime \in Nat
        BY <1>3
      <4>2. CASE p \in Webhook
        BY <1>4, <3>1, <4>1, <4>2 DEF WebhookRow
      <4>3. CASE p \in Sender
        BY <1>4, <3>1, <4>1, <4>3 DEF SenderRow
      <4> QED
        BY <1>4, <4>2, <4>3
    <3>4. p \in Webhook => KeyInv(p, x)
      BY <1>1, <3>2, <3>3 DEF RowInv, KeyInv
    <3>5. p \in Sender => SendInv(x)
      BY <1>1, <3>2, <3>3 DEF RowInv, SendInv
    <3>6. r.since <= clock /\ clock <= r.since + Latency
      BY <1>1, <3>2 DEF RowInv, CallInv
    <3>7. CallInv(x) /\ RequestInv(x)
      BY <1>3, <1>4, <3>3, <3>6 DEF CallInv, RequestInv
    <3>8. x \in Rows(p) /\ RowInv(p, x)
      BY <1>4, <3>3, <3>4, <3>5, <3>7 DEF Rows, RowInv
    <3> QED
      BY <1>6, <3>2, <3>3, <3>8 DEF TokenMutexFollows
  <2>4. CASE TokenReceived(p)
    <3>1. /\ r.pc = "requested" /\ tokenMutex' = None /\ With(p, token')
          /\ token' = [until |-> clock + Lifetime, real |-> r.real]
      BY <2>4 DEF TokenReceived
    <3>2. /\ r.since <= clock /\ clock <= r.since + Latency
          /\ r.since + Lifetime <= r.real /\ r.real <= clock + Lifetime
      BY <1>1, <3>1 DEF RowInv, CallInv, RequestInv
    <3>3. PICK t : t = token'
      OBVIOUS
    <3>4. t.until = clock + Lifetime /\ t.real = r.real /\ t \in [until : Nat, real : Nat]
      BY <1>3, <1>4, <3>1, <3>3
    <3>5. TokenGood(t)
      BY <1>3, <1>4, <3>2, <3>4
    <3>6. Lifetime > Skew => clock + Skew < t.real + Latency
      BY <1>3, <1>4, <3>2, <3>4
    <3>7. PICK x \in Rows(p) :
            /\ proc' = [proc EXCEPT ![p] = x] /\ x.pc \in {"handle", "failed", "post"}
            /\ RowInv(p, x)
      BY <1>4, <3>1, <3>3, <3>4, <3>6, WithToken
    <3> QED
      BY <3>1, <3>3, <3>5, <3>7 DEF TokenMutexFollows
  <2>5. CASE TokenFails(p)
    <3>1. r.pc \in {"request", "requested"} /\ tokenMutex' = None /\ token' = token /\ With(p, None)
      BY <2>5 DEF TokenFails
    <3>2. PICK x \in Rows(p) :
            /\ proc' = [proc EXCEPT ![p] = x] /\ x.pc \in {"handle", "failed", "post"}
            /\ RowInv(p, x)
      BY <3>1, WithToken
    <3> QED
      BY <1>6, <3>1, <3>2 DEF TokenMutexFollows
  <2> QED
    BY <2>1, <2>2, <2>3, <2>4, <2>5 DEF TokenStep
<1>8. PICK x \in Rows(p) :
        /\ proc' = [proc EXCEPT ![p] = x]
        /\ x.pc \in {"handle", "failed", "post", "request", "requested"}
        /\ RowInv(p, x) /\ TokenMutexFollows(p, x)
  BY <1>7
<1>9. KeyMutexFollows(p, x)
  BY <1>2, <1>8 DEF KeyMutexFollows
<1> QED
  BY <1>2, <1>5, <1>7, <1>8, <1>9, KeysStay, GoesOn

\* A part is posted, the connector answers, and the next one follows.
LEMMA SendSteps ==
  ASSUME TeamsInv, NEW s \in Sender, SendStep(s)
  PROVE  TeamsInv'
<1> DEFINE r == proc[s]
<1>1. TeamsTypeOK /\ s \in Process /\ s \notin Webhook
  BY TeamsAssumption DEF TeamsInv, Process
<1>2. /\ r.pc \in {"post", "posted"} /\ r \in SenderRow /\ RowInv(s, r) /\ SendInv(r)
      /\ UNCHANGED <<clock, published, withdrawn, cache, keyMutex, token, tokenMutex>>
  <2>1. r.pc \in {"post", "posted"}
    BY DEF SendStep, Posted, Response, PostFails
  <2>2. r \in SenderRow /\ RowInv(s, r)
    BY <1>1, <2>1, RowTyped DEF TeamsInv
  <2> QED
    BY <2>1, <2>2 DEF RowInv, SendStep, Posted, Response, PostFails
<1>3. /\ clock \in Nat /\ Latency \in Nat /\ Skew \in Nat /\ MaxParts \in Nat
      /\ r.since \in Nat /\ r.real \in Nat /\ r.part \in 1..MaxParts /\ r.part \in Nat
      /\ r.status \in {"none", "created", "unauthorized"}
  <2>1. MaxParts \in Nat /\ r.part \in 1..MaxParts
    BY <1>2, TeamsAssumption DEF SenderRow
  <2> QED
    BY <1>1, <1>2, <2>1, TeamsNumbers DEF SenderRow
<1>4. PICK n \in Nat : n = r.part * Latency
  BY <1>3
<1>5. (r.part + 1) * Latency = n + Latency
  BY <1>3, <1>4
<1>6. r.since <= clock /\ clock <= r.since + Latency
  BY <1>2 DEF RowInv, CallInv
<1>7. Lifetime > Skew => /\ r.since + Skew < r.real + n
                         /\ r.status = "unauthorized" => n + Latency > Skew
  BY <1>2, <1>4, <1>5 DEF SendInv
<1>8. \E x \in SenderRow :
        /\ proc' = [proc EXCEPT ![s] = x] /\ x.pc \in {"post", "posted", "failed", "sent"}
        /\ CallInv(x) /\ SendInv(x)
  <2>1. CASE Posted(s)
    <3> DEFINE status == IF clock < r.real THEN "created" ELSE "unauthorized"
    <3>1. PICK x : x = [r EXCEPT !.pc = "posted", !.status = status]
      OBVIOUS
    <3>2. proc' = [proc EXCEPT ![s] = x]
      BY <2>1, <3>1 DEF Posted
    <3>3. /\ x \in SenderRow /\ x.pc = "posted" /\ x.status = status
          /\ x.since = r.since /\ x.part = r.part /\ x.real = r.real
      BY <1>2, <3>1 DEF SenderRow
    <3>4. Lifetime > Skew => (x.status = "unauthorized" => n + Latency > Skew)
      BY <1>3, <1>6, <1>7, <3>3
    <3>5. SendInv(x)
      BY <1>4, <1>5, <1>7, <3>3, <3>4 DEF SendInv
    <3> QED
      BY <1>6, <3>2, <3>3, <3>5 DEF CallInv
  <2>2. CASE Response(s)
    <3>1. CASE r.status = "unauthorized"
      <4>1. PICK x : x = [r EXCEPT !.pc = "failed", !.since = 0]
        OBVIOUS
      <4>2. proc' = [proc EXCEPT ![s] = x]
        BY <2>2, <3>1, <4>1 DEF Response
      <4>3. x \in SenderRow /\ x.pc = "failed" /\ x.status = r.status /\ x.part = r.part
        BY <1>2, <4>1 DEF SenderRow
      <4> QED
        BY <1>2, <4>2, <4>3 DEF CallInv, SendInv
    <3>2. CASE r.status # "unauthorized" /\ r.part = MaxParts
      <4>1. PICK x : x = [r EXCEPT !.pc = "sent", !.since = 0]
        OBVIOUS
      <4>2. proc' = [proc EXCEPT ![s] = x]
        BY <2>2, <3>2, <4>1 DEF Response
      <4>3. x \in SenderRow /\ x.pc = "sent" /\ x.status = r.status /\ x.part = r.part
        BY <1>2, <4>1 DEF SenderRow
      <4> QED
        BY <1>2, <4>2, <4>3 DEF CallInv, SendInv
    <3>3. CASE r.status # "unauthorized" /\ r.part # MaxParts
      <4>1. PICK x : x = [r EXCEPT !.pc = "post", !.since = clock, !.part = @ + 1, !.status = "none"]
        OBVIOUS
      <4>2. proc' = [proc EXCEPT ![s] = x]
        BY <2>2, <3>3, <4>1 DEF Response
      <4>3. r.part + 1 \in 1..MaxParts
        BY <1>3, <3>3
      <4>4. /\ x \in SenderRow /\ x.pc = "post" /\ x.status = "none" /\ x.part = r.part + 1
            /\ x.since = clock /\ x.real = r.real
        BY <1>2, <1>3, <4>1, <4>3 DEF SenderRow
      <4>5. Lifetime > Skew => clock + Skew < r.real + (n + Latency)
        BY <1>3, <1>6, <1>7
      <4>6. SendInv(x)
        BY <1>5, <4>4, <4>5 DEF SendInv
      <4>7. x.since <= clock /\ clock <= x.since + Latency
        BY <1>3, <4>4
      <4>8. CallInv(x)
        BY <4>7 DEF CallInv
      <4> QED
        BY <4>2, <4>4, <4>6, <4>8
    <3> QED
      BY <3>1, <3>2, <3>3
  <2>3. CASE PostFails(s)
    <3>1. PICK x : x = [r EXCEPT !.pc = "failed", !.since = 0]
      OBVIOUS
    <3>2. proc' = [proc EXCEPT ![s] = x]
      BY <2>3, <3>1 DEF PostFails
    <3>3. x \in SenderRow /\ x.pc = "failed" /\ x.status = r.status /\ x.part = r.part
      BY <1>2, <3>1 DEF SenderRow
    <3> QED
      BY <1>2, <3>2, <3>3 DEF CallInv, SendInv
  <2> QED
    BY <2>1, <2>2, <2>3 DEF SendStep
<1>9. PICK x \in SenderRow :
        /\ proc' = [proc EXCEPT ![s] = x] /\ x.pc \in {"post", "posted", "failed", "sent"}
        /\ CallInv(x) /\ SendInv(x)
  BY <1>8
<1>10. RowInv(s, x) /\ x \in Rows(s)
  BY <1>1, <1>9 DEF RowInv, RequestInv, Rows
<1>11. KeyMutexFollows(s, x) /\ TokenMutexFollows(s, x)
  BY <1>2, <1>9 DEF KeyMutexFollows, TokenMutexFollows
<1>12. faults' \in 0..MaxFaults
  <2>1. faults' = faults \/ (faults < MaxFaults /\ faults' = faults + 1)
    BY DEF SendStep, Posted, Response, PostFails
  <2> QED
    BY <1>1, <2>1, TeamsAssumption DEF TeamsTypeOK
<1> QED
  BY <1>1, <1>2, <1>9, <1>10, <1>11, <1>12, KeysStay, TokenStays, GoesOn

\* The invariant holds at first.
LEMMA TeamsInitial == TeamsInit => TeamsInv
<1> SUFFICES ASSUME TeamsInit PROVE TeamsInv
  OBVIOUS
<1>1. MaxTime \in Nat /\ MaxFaults \in Nat /\ Latency \in Nat /\ 0 \in 0..0
  BY TeamsAssumption
<1>2. /\ clock = 0 /\ published \subseteq Kid /\ withdrawn = [k \in Kid |-> None]
      /\ cache = [keys |-> {}, at |-> 0] /\ keyMutex = None /\ tokenMutex = None
      /\ token = [until |-> 0, real |-> 0] /\ faults = 0
      /\ proc = [p \in Process |-> AtRest]
  BY DEF TeamsInit
<1>3. \A p \in Process : proc[p] = AtRest /\ proc[p].pc = "rest"
  BY <1>2 DEF AtRest
<1>4. TeamsTypeOK
  <2>1. cache \in [keys : SUBSET Kid, at : 0..clock] /\ token \in [until : Nat, real : Nat]
    BY <1>1, <1>2
  <2>2. proc \in [Process -> {AtRest} \cup WebhookRow \cup SenderRow] /\ \A p \in Process : proc[p] \in Rows(p)
    BY <1>2 DEF Rows
  <2> QED
    BY <1>1, <1>2, <2>1, <2>2 DEF TeamsTypeOK
<1>5. ASSUME NEW p \in Process
      PROVE  RowInv(p, proc[p])
  BY <1>3 DEF RowInv, CallInv, RequestInv, KeyInv, SendInv
<1>6. CacheInv /\ \A k \in published : withdrawn[k] = None
  BY <1>2 DEF CacheInv
<1>7. HolderInv
  <2>1. Webhook \subseteq Process /\ None \notin Process
    BY TeamsAssumption DEF Process
  <2> QED
    BY <1>2, <1>3, <2>1 DEF HolderInv
<1> QED
  BY <1>1, <1>2, <1>4, <1>5, <1>6, <1>7 DEF TeamsInv

\* The inductive invariant holds always.
THEOREM TeamsInvariant == TeamsSpec => []TeamsInv
<1>1. ASSUME TeamsInv, [TeamsNext]_teamsVars
      PROVE  TeamsInv'
  <2>1. CASE Tick
    BY <1>1, <2>1, TickStep
  <2>2. ASSUME NEW old \in Kid, NEW new \in Kid, Rotate(old, new)
        PROVE  TeamsInv'
    BY <1>1, <2>2, RotateStep
  <2>3. ASSUME NEW w \in Webhook, KeyStep(w)
        PROVE  TeamsInv'
    BY <1>1, <2>3, LookUpStep, EmptyStep, FetchStep DEF KeyStep
  <2>4. ASSUME NEW w \in Webhook, NEW k \in Kid, Arrive(w, k)
        PROVE  TeamsInv'
    BY <1>1, <2>4, ArriveStep
  <2>5. ASSUME NEW s \in Sender, BeginSend(s) \/ SendStep(s)
        PROVE  TeamsInv'
    BY <1>1, <2>5, BeginStep, SendSteps
  <2>6. ASSUME NEW p \in Process, TokenStep(p)
        PROVE  TeamsInv'
    BY <1>1, <2>6, TokenSteps
  <2>7. CASE UNCHANGED teamsVars
    BY <1>1, <2>7 DEF teamsVars, TeamsInv, TeamsTypeOK, RowInv, CallInv, RequestInv, KeyInv, GoodAt,
                      SendInv, CacheInv, HolderInv
  <2> QED
    BY <1>1, <2>1, <2>2, <2>3, <2>4, <2>5, <2>6, <2>7 DEF TeamsNext
<1> QED
  BY <1>1, TeamsInitial, PTL DEF TeamsSpec

\* Every variable of the channel has its type.
THEOREM TeamsTypes == TeamsSpec => []TeamsTypeOK
<1>1. TeamsInv => TeamsTypeOK
  BY DEF TeamsInv
<1> QED
  BY <1>1, TeamsInvariant, PTL

\* Requests are checked with the keys that are published, not with those of long
\* ago (KeysFollowPublisher).
THEOREM KeysAreCurrent == TeamsSpec => []KeysFollowPublisher
<1>1. ASSUME TeamsInv
      PROVE  KeysFollowPublisher
  <2>1. ASSUME NEW w \in Webhook, proc[w].pc # "rest"
        PROVE  /\ KeyInv(w, proc[w]) /\ proc[w].used \in Nat
               /\ withdrawn[proc[w].kid] = None \/ withdrawn[proc[w].kid] \in Nat
    <3>1. TeamsTypeOK /\ w \in Process
      BY <1>1 DEF TeamsInv, Process
    <3>2. proc[w] \in WebhookRow /\ RowInv(w, proc[w])
      BY <1>1, <2>1, <3>1, RowTyped DEF TeamsInv
    <3>3. proc[w].kid \in Kid /\ proc[w].used \in Nat
      BY <3>2 DEF WebhookRow
    <3> QED
      BY <3>1, <3>2, <3>3, TeamsNumbers DEF RowInv
  <2>2. CurrentKeyAccepted
    BY <2>1 DEF CurrentKeyAccepted, KeyInv
  <2>3. WithdrawnKeyBounded
    <3>1. CacheFor \in Nat /\ Latency \in Nat
      BY TeamsAssumption
    <3>2. ASSUME NEW w \in Webhook, proc[w].pc \in {"token", "handle", "handled"},
                 withdrawn[proc[w].kid] # None
          PROVE  proc[w].used < withdrawn[proc[w].kid] + CacheFor + Latency + 1
      <4>1. proc[w].used <= withdrawn[proc[w].kid] + CacheFor + Latency
        BY <2>1, <3>2 DEF KeyInv
      <4>2. proc[w].used \in Nat /\ withdrawn[proc[w].kid] \in Nat
        BY <2>1, <3>2
      <4> QED
        BY <3>1, <4>1, <4>2
    <3> QED
      BY <3>2 DEF WithdrawnKeyBounded
  <2> QED
    BY <2>2, <2>3 DEF KeysFollowPublisher
<1> QED
  BY <1>1, TeamsInvariant, PTL

\* The skew keeps the token of a message valid for as many of its parts as fit
\* into it (TokenOutlivesParts), if a token lives longer than the skew.
THEOREM TokensLast == ASSUME Lifetime > Skew PROVE TeamsSpec => []TokenOutlivesParts
<1>1. ASSUME TeamsInv
      PROVE  TokenOutlivesParts
  <2>1. ASSUME NEW s \in Sender, proc[s].pc \in {"posted", "failed"}
        PROVE  SendInv(proc[s])
    BY <1>1 DEF TeamsInv, RowInv, Process
  <2> QED
    BY <2>1 DEF TokenOutlivesParts, SendInv
<1> QED
  BY <1>1, TeamsInvariant, PTL

\* A mutex is held during the calls it guards, and by nobody else
\* (HoldersAreInCalls): one fetch of the keys and one of a token at a time.
THEOREM OneFetchAtATime == TeamsSpec => []HoldersAreInCalls
<1>1. ASSUME TeamsInv
      PROVE  HoldersAreInCalls
  <2>1. HolderInv /\ keyMutex \in Webhook \cup {None} /\ tokenMutex \in Process \cup {None}
    BY <1>1 DEF TeamsInv, TeamsTypeOK
  <2>2. None \notin Webhook /\ None \notin Process
    BY TeamsAssumption DEF Process
  <2> QED
    BY <2>1, <2>2 DEF HolderInv, HoldersAreInCalls
<1> QED
  BY <1>1, TeamsInvariant, PTL

-----------------------------------------------------------------------------
(* The life of the process.                                                *)

\* Each plugin of the registry is that of its ID.
RegistryInv ==
  /\ \A p \in byKind : IdOf(p) \in DOMAIN byID /\ byID[IdOf(p)] = p
  /\ \A id \in DOMAIN byID : byID[id] \in byKind /\ IdOf(byID[id]) = id

\* What has not begun yet, and what is over.
StageInv ==
  /\ stage = "config" => loaded = 0
  /\ stage \in {"config", "load", "init", "wire", "handlers", "outbound", "services"} => started = <<>>
  /\ stage \in {"config", "load", "init", "wire", "handlers", "outbound", "services", "start", "gateway", "ready"} =>
       \A p \in Plugin : stops[p] = 0
  /\ stage \in {"handlers", "outbound", "services", "start", "gateway", "ready", "channels", "drain", "plugins", "undo"} =>
       injected = byKind
  /\ stage = "exit" => running = {}
  /\ running # {} => injected = byKind

\* The started list is in the order of the kinds and has no gap; what is on it
\* runs, but for the channels that were stopped first.
StartedInv ==
  /\ \A i \in DOMAIN started : started[i] \in byKind
  /\ \A i, j \in DOMAIN started : i < j => Before(started[i], started[j])
  /\ \A i \in DOMAIN started, q \in byKind : Before(q, started[i]) => \E j \in DOMAIN started : started[j] = q
  /\ \A i \in DOMAIN started : stops[started[i]] # 2 /\ (stops[started[i]] = 1 => KindOf(started[i]) = "channel")
  /\ \A p \in Plugin : p \in running <=> stops[p] = 0 /\ \E i \in DOMAIN started : started[i] = p
  /\ \A p \in Plugin : stops[p] > 0 => p \in byKind
  /\ \A p \in Plugin : stops[p] = 2 => KindOf(p) = "channel"

LifecycleInv ==
  /\ LifecycleTypeOK
  /\ RegistryInv
  /\ StageInv
  /\ StartedInv

\* What is in a sequence is of its set.
LEMMA ElementOfSeq ==
  ASSUME NEW S, NEW s \in Seq(S), NEW i \in 1..Len(s)
  PROVE  s[i] \in S
OBVIOUS

\* Plugins are numbers, and each has its place in the order of the kinds, the
\* channels the last.
LEMMA PluginsRanked ==
  ASSUME config \in Configs
  PROVE  /\ B \in Nat /\ Len(entries) \in Nat /\ Plugin \subseteq Nat
         /\ \A p \in Plugin : /\ Rank(p) \in Nat /\ Rank(p) <= 7
                              /\ Rank(p) = 7 => KindOf(p) = "channel"
                              /\ KindOf(p) = "channel" => Rank(p) = 7
<1> DEFINE Kinds == {"store", "transport", "llm", "sandbox", "tool", "middleware", "channel"}
<1>1. /\ Builtins \in Seq([id : STRING, kind : {"tool", "middleware"}, config : BOOLEAN])
      /\ entries \in Seq([id : STRING, enabled : BOOLEAN, kind : Kinds])
  BY LifecycleAssumption DEF entries
<1>2. B \in Nat /\ Len(entries) \in Nat /\ Plugin \subseteq Nat
  BY <1>1 DEF B, Plugin
<1>3. Len(InitOrder) = 7
  BY DEF InitOrder
<1>4. \A k \in Kinds : \E r \in 1..7 : InitOrder[r] = k
  BY DEF InitOrder
<1>5. InitOrder[7] = "channel" /\ \A r \in 1..7 : InitOrder[r] = "channel" => r = 7
  BY DEF InitOrder
<1>6. ASSUME NEW p \in Plugin
      PROVE  KindOf(p) \in Kinds
  <2>1. CASE p <= B
    <3>1. p \in 1..Len(Builtins)
      BY <1>2, <2>1 DEF Plugin, B
    <3>2. Builtins[p] \in [id : STRING, kind : {"tool", "middleware"}, config : BOOLEAN]
      BY <1>1, <3>1, ElementOfSeq, Zenon
    <3>3. Builtins[p].kind \in {"tool", "middleware"}
      BY <3>2
    <3> QED
      BY <2>1, <3>3 DEF KindOf
  <2>2. CASE ~(p <= B)
    <3>1. p - B \in 1..Len(entries)
      BY <1>2, <2>2 DEF Plugin
    <3>2. entries[p - B] \in [id : STRING, enabled : BOOLEAN, kind : Kinds]
      BY <1>1, <3>1, ElementOfSeq, Zenon
    <3>3. entries[p - B].kind \in Kinds
      BY <3>2
    <3> QED
      BY <2>2, <3>3 DEF KindOf
  <2> QED
    BY <2>1, <2>2
<1> HIDE DEF Kinds
<1>7. ASSUME NEW p \in Plugin
      PROVE  Rank(p) \in 1..7 /\ InitOrder[Rank(p)] = KindOf(p)
  <2>1. \E r \in 1..7 : InitOrder[r] = KindOf(p)
    BY <1>4, <1>6
  <2> QED
    BY <1>3, <2>1 DEF Rank
<1>8. ASSUME NEW p \in Plugin
      PROVE  /\ Rank(p) \in Nat /\ Rank(p) <= 7
             /\ Rank(p) = 7 => KindOf(p) = "channel"
             /\ KindOf(p) = "channel" => Rank(p) = 7
  <2>1. PICK r \in 1..7 : r = Rank(p)
    BY <1>7
  <2>2. r \in Nat /\ r <= 7
    OBVIOUS
  <2> QED
    BY <1>5, <1>7, <2>1, <2>2
<1> QED
  BY <1>2, <1>8

\* The order of the plugins is one.
LEMMA PluginsOrdered ==
  ASSUME config \in Configs, NEW p \in Plugin, NEW q \in Plugin
  PROVE  /\ Before(p, q) => ~Before(q, p)
         /\ p # q => Before(p, q) \/ Before(q, p)
<1>1. p \in Nat /\ q \in Nat /\ Rank(p) \in Nat /\ Rank(q) \in Nat
  BY PluginsRanked
<1> QED
  BY <1>1 DEF Before

\* The first of some plugins is before all others of them.
LEMMA FirstExists ==
  ASSUME config \in Configs, NEW todo \in SUBSET Plugin, todo # {}
  PROVE  First(todo) \in todo /\ \A q \in todo \ {First(todo)} : Before(First(todo), q)
<1> DEFINE R == {Rank(p) : p \in todo}
<1>1. R \in SUBSET Nat /\ R # {}
  BY PluginsRanked
<1>2. PICK r \in R : \A y \in R : r =< y
  BY <1>1, LeastExists
<1> DEFINE T == {p \in todo : Rank(p) = r}
<1>3. T \in SUBSET Nat /\ T # {}
  BY PluginsRanked
<1>4. PICK p \in T : \A y \in T : p =< y
  BY <1>3, LeastExists
<1>5. ASSUME NEW q \in todo \ {p}
      PROVE  Before(p, q)
  <2>1. /\ Rank(p) = r /\ r =< Rank(q) /\ Rank(q) \in Nat /\ r \in Nat
        /\ p \in Nat /\ q \in Nat /\ p # q
    BY <1>1, <1>2, <1>3, PluginsRanked
  <2>2. CASE Rank(q) = r
    <3>1. p =< q
      BY <1>4, <2>2
    <3> QED
      BY <2>1, <2>2, <3>1 DEF Before
  <2>3. CASE Rank(q) # r
    BY <2>1, <2>3 DEF Before
  <2> QED
    BY <2>2, <2>3
<1>6. p \in todo
  OBVIOUS
<1> QED
  BY <1>5, <1>6 DEF First

\* Nothing runs while nothing is on the started list.
LEMMA NoneRuns ==
  ASSUME LifecycleInv, started = <<>>
  PROVE  running = {}
<1>1. running \subseteq Plugin
  BY DEF LifecycleInv, LifecycleTypeOK
<1>2. \A p \in running : \E i \in DOMAIN started : started[i] = p
  BY <1>1 DEF LifecycleInv, StartedInv
<1> QED
  BY <1>2

\* The plugins keep their names and their order.
LEMMA NamesStay ==
  ASSUME config' = config
  PROVE  /\ Plugin' = Plugin /\ entries' = entries
         /\ \A p : IdOf(p)' = IdOf(p) /\ KindOf(p)' = KindOf(p)
         /\ \A p, q : Before(p, q)' <=> Before(p, q)
<1>1. Plugin' = Plugin /\ entries' = entries
  BY DEF Plugin, entries
<1>2. \A p : IdOf(p)' = IdOf(p) /\ KindOf(p)' = KindOf(p)
  BY DEF IdOf, KindOf, entries
<1>3. ASSUME NEW p PROVE Rank(p)' = Rank(p)
  <2>1. PICK k : k = KindOf(p)
    OBVIOUS
  <2>2. k = KindOf(p)'
    BY <1>2, <2>1
  <2> QED
    BY <2>1, <2>2 DEF Rank
<1>4. \A p, q : Before(p, q)' <=> Before(p, q)
  BY <1>3 DEF Before
<1> QED
  BY <1>1, <1>2, <1>4

\* A step of the whole that changes no plugin.
LEMMA StageStep ==
  ASSUME LifecycleInv,
         \/ \E s \in {"load", "init", "wire", "outbound", "services"} : Fails(s)
         \/ LoadConfig \/ LoadEnds \/ InitPlugin \/ InitEnds
         \/ Inject \/ SetHandlers \/ SubscribeOutbound \/ SubscribeInbound
         \/ StartFails \/ StartScheduler \/ StartGateway \/ Exit
         \/ Killed \/ Signal \/ StopScheduler \/ DrainLoop
  PROVE  LifecycleInv'
<1> USE DEF LifecycleInv
<1>1. UNCHANGED <<config, loaded, byID, byKind, started, running, stops>>
  BY DEF Fails, LoadConfig, LoadEnds, InitPlugin, InitEnds, Inject, SetHandlers, SubscribeOutbound,
         SubscribeInbound, StartFails, StartScheduler, StartGateway, Exit, Killed, Signal, StopScheduler,
         DrainLoop, registryVars, wiringVars, runVars, services
<1>2. RegistryInv' /\ StartedInv'
  <2>1. RegistryInv'
    BY <1>1, NamesStay DEF RegistryInv
  <2>2. StartedInv'
    BY <1>1, NamesStay DEF StartedInv
  <2> QED
    BY <2>1, <2>2
<1>3. Aware = byKind
  BY DEF Aware, RegistryInv
<1>4. Plugin' = Plugin /\ entries' = entries
  BY <1>1 DEF Plugin, entries
<1> DEFINE Keeps ==
             /\ stage' \in Stages
             /\ DOMAIN given' \subseteq Plugin /\ injected' \in {injected, byKind}
             /\ handlers' \subseteq Plugin /\ topics' \subseteq {"inbound", "outbound"}
             /\ scheduler' \in {"none", "running", "stopped"}
             /\ loop' \in {"none", "serving", "drained"}
             /\ gateway' \in {"none", "listening", "failed", "stopped", "expired"}
<1>5. LifecycleTypeOK /\ byKind \subseteq Plugin
  BY DEF LifecycleTypeOK
<1>6. CASE \/ \E s \in {"load", "init", "wire", "outbound", "services"} : Fails(s)
           \/ LoadConfig \/ LoadEnds \/ InitEnds \/ StartFails \/ Exit \/ Killed
  <2>1. /\ UNCHANGED <<given, injected, handlers, topics, scheduler, loop, gateway>>
        /\ stage' \in Stages
    BY <1>6 DEF Fails, LoadConfig, LoadEnds, InitEnds, StartFails, Exit, Killed,
                registryVars, wiringVars, runVars, Stages
  <2>2. Keeps
    BY <1>5, <2>1 DEF LifecycleTypeOK
  <2>3. StageInv'
    <3>1. CASE \E s \in {"load", "init", "wire", "outbound", "services"} : Fails(s)
      BY <1>1, <1>4, <2>1, <3>1, NoneRuns DEF Fails, StageInv
    <3>2. CASE LoadConfig \/ LoadEnds \/ InitEnds
      BY <1>1, <1>4, <2>1, <3>2, NoneRuns DEF LoadConfig, LoadEnds, InitEnds, StageInv
    <3>3. CASE StartFails
      BY <1>1, <1>4, <2>1, <3>3 DEF StartFails, StageInv
    <3>4. CASE Exit
      BY <1>1, <1>4, <2>1, <3>4, NoneRuns DEF Exit, StageInv
    <3>5. CASE Killed
      BY <1>1, <1>4, <2>1, <3>5 DEF Killed, StageInv
    <3> QED
      BY <1>6, <3>1, <3>2, <3>3, <3>4, <3>5
  <2> QED
    BY <1>1, <1>2, <1>4, <2>2, <2>3 DEF LifecycleTypeOK
<1>7. CASE InitPlugin
  <2> DEFINE p == First(byKind \ DOMAIN given)
  <2>1. /\ byKind \ DOMAIN given # {} /\ DOMAIN given' = DOMAIN given \cup {p}
        /\ UNCHANGED <<stage, injected, handlers, topics, scheduler, loop, gateway>>
    BY <1>7 DEF InitPlugin, registryVars, runVars
  <2>2. p \in Plugin
    BY <1>5, <2>1, FirstExists DEF LifecycleTypeOK
  <2>3. Keeps
    BY <1>5, <2>1, <2>2 DEF LifecycleTypeOK
  <2>4. StageInv'
    BY <1>1, <1>4, <2>1 DEF StageInv
  <2> QED
    BY <1>1, <1>2, <1>4, <2>3, <2>4 DEF LifecycleTypeOK
<1>8. CASE Inject \/ SetHandlers \/ SubscribeOutbound \/ SubscribeInbound
  <2>1. /\ stage \in {"wire", "handlers", "outbound", "services"}
        /\ stage' \in {"handlers", "outbound", "services", "start"}
        /\ stage \in {"handlers", "outbound", "services"} => injected' = injected
        /\ stage = "wire" => injected' = byKind
        /\ given' = given /\ handlers' \in {handlers, Channels} /\ topics' \subseteq topics \cup {"inbound", "outbound"}
        /\ loop' \in {loop, "serving"} /\ UNCHANGED <<scheduler, gateway>>
    BY <1>3, <1>8 DEF Inject, SetHandlers, SubscribeOutbound, SubscribeInbound, registryVars, runVars
  <2>2. Channels \subseteq Plugin
    BY <1>5 DEF Channels
  <2>3. Keeps
    BY <1>5, <2>1, <2>2 DEF LifecycleTypeOK, Stages
  <2>4. StageInv'
    BY <1>1, <1>4, <2>1, NoneRuns DEF StageInv
  <2> QED
    BY <1>1, <1>2, <1>4, <2>3, <2>4 DEF LifecycleTypeOK
<1>9. CASE StartScheduler \/ StartGateway \/ Signal \/ StopScheduler \/ DrainLoop
  <2>1. /\ stage \in {"start", "gateway", "ready", "channels", "drain"}
        /\ stage' \in {"gateway", "ready", "channels", "drain", "plugins"}
        /\ stage' \in {"gateway", "ready"} => stage \in {"start", "gateway"}
        /\ UNCHANGED <<given, injected, handlers, topics>>
        /\ scheduler' \in {scheduler, "running", "stopped"} /\ loop' \in {loop, "drained"}
        /\ gateway' \in {gateway, "listening", "failed", "stopped", "expired"}
    BY <1>9 DEF StartScheduler, StartGateway, Signal, StopScheduler, DrainLoop, GatewayAfter, wiringVars
  <2>2. Keeps
    BY <1>5, <2>1 DEF LifecycleTypeOK, Stages
  <2>3. StageInv'
    BY <1>1, <1>4, <2>1 DEF StageInv
  <2> QED
    BY <1>1, <1>2, <1>4, <2>2, <2>3 DEF LifecycleTypeOK
<1> QED
  BY <1>6, <1>7, <1>8, <1>9
\* The loading of an entry: the registry, of which nothing runs yet, changes.
LEMMA LoadStep ==
  ASSUME LifecycleInv, LoadPlugin
  PROVE  LifecycleInv'
<1> USE DEF LifecycleInv
<1>1. /\ stage = "load" /\ stage' = stage /\ config' = config
      /\ loaded < Len(entries) /\ loaded' = loaded + 1
      /\ UNCHANGED <<given, injected, chain, handlers, topics, started, running, stops, scheduler, loop, gateway>>
  BY DEF LoadPlugin, wiringVars, runVars
<1>2. /\ Plugin' = Plugin /\ entries' = entries
      /\ \A p : IdOf(p)' = IdOf(p) /\ KindOf(p)' = KindOf(p)
  BY <1>1, NamesStay
<1>3. started = <<>> /\ running = {} /\ \A p \in Plugin : stops[p] = 0
  BY <1>1, NoneRuns DEF StageInv
<1>4. config \in Configs /\ loaded \in 0..Len(entries) /\ B \in Nat /\ Len(entries) \in Nat
  BY PluginsRanked DEF LifecycleTypeOK
<1>5. loaded' \in 0..Len(entries) /\ B + loaded' \in Plugin
  BY <1>1, <1>4 DEF Plugin
<1>6. RegistryInv' /\ byKind' \subseteq Plugin /\ \A id \in DOMAIN byID' : byID'[id] \in Plugin
  <2>1. byKind \subseteq Plugin /\ \A id \in DOMAIN byID : byID[id] \in Plugin
    BY DEF LifecycleTypeOK
  <2>2. CASE UNCHANGED <<byID, byKind>>
    BY <1>2, <2>1, <2>2 DEF RegistryInv
  <2>3. CASE Register(B + loaded')
    <3>1. PICK p \in Plugin : p = B + loaded'
      BY <1>5
    <3>2. /\ byID' = [id \in DOMAIN byID \cup {IdOf(p)} |-> IF id = IdOf(p) THEN p ELSE byID[id]]
          /\ byKind' = {q \in byKind : IdOf(q) # IdOf(p)} \cup {p}
      BY <2>3, <3>1 DEF Register, Kept
    <3>3. \A q \in byKind' : IdOf(q) \in DOMAIN byID' /\ byID'[IdOf(q)] = q
      BY <3>2 DEF RegistryInv
    <3>4. \A id \in DOMAIN byID' : byID'[id] \in byKind' /\ IdOf(byID'[id]) = id
      BY <3>2 DEF RegistryInv
    <3>5. byKind' \subseteq Plugin /\ \A id \in DOMAIN byID' : byID'[id] \in Plugin
      BY <2>1, <3>2
    <3> QED
      BY <1>2, <3>3, <3>4, <3>5 DEF RegistryInv
  <2> QED
    BY <2>2, <2>3 DEF LoadPlugin
<1>7. LifecycleTypeOK'
  BY <1>1, <1>2, <1>5, <1>6 DEF LifecycleTypeOK
<1>8. StageInv'
  BY <1>1, <1>2, <1>3 DEF StageInv
<1>9. StartedInv'
  BY <1>1, <1>2, <1>3 DEF StartedInv
<1> QED
  BY <1>6, <1>7, <1>8, <1>9

\* A start: the first plugin that does not run is the next of the list, for
\* what runs is what is listed, and each that is before it is listed.
LEMMA StartStep ==
  ASSUME LifecycleInv, StartPlugin
  PROVE  LifecycleInv'
<1> USE DEF LifecycleInv
<1>1. PICK p : p = First(byKind \ running)
  OBVIOUS
<1>2. /\ stage = "start" /\ byKind \ running # {}
      /\ started' = Append(started, p) /\ running' = running \cup {p}
      /\ UNCHANGED <<stage, config, loaded, byID, byKind, given, injected, chain, handlers, topics,
                     stops, scheduler, loop, gateway>>
  BY <1>1 DEF StartPlugin, registryVars, wiringVars, services
<1>3. /\ config \in Configs /\ byKind \subseteq Plugin
      /\ started \in Seq(Plugin) /\ running \subseteq Plugin
  BY DEF LifecycleTypeOK
<1>4. p \in byKind \ running /\ \A q \in (byKind \ running) \ {p} : Before(p, q)
  BY <1>1, <1>2, <1>3, FirstExists
<1>5. /\ Plugin' = Plugin /\ entries' = entries
      /\ \A q : IdOf(q)' = IdOf(q) /\ KindOf(q)' = KindOf(q)
      /\ \A q, r : Before(q, r)' <=> Before(q, r)
  BY <1>2, NamesStay
<1>6. \A q \in Plugin : stops[q] = 0
  BY <1>2 DEF StageInv
<1>7. \A q \in Plugin : q \in running <=> \E i \in DOMAIN started : started[i] = q
  BY <1>6 DEF StartedInv
<1> DEFINE n == Len(started)
<1>8. /\ n \in Nat /\ DOMAIN started = 1..n /\ DOMAIN started' = 1..(n + 1)
      /\ started'[n + 1] = p /\ \A i \in 1..n : started'[i] = started[i] /\ started[i] \in Plugin
      /\ started' \in Seq(Plugin)
  BY <1>2, <1>3, <1>4
<1>9. \A i \in 1..(n + 1) : i \in 1..n \/ i = n + 1
  BY <1>8
<1>10. LifecycleTypeOK'
  BY <1>2, <1>3, <1>4, <1>5, <1>8 DEF LifecycleTypeOK
<1>11. RegistryInv'
  BY <1>2, <1>5 DEF RegistryInv
<1>12. StageInv'
  BY <1>2, <1>5 DEF StageInv
<1>13. StartedInv'
  <2>1. \A i \in 1..n : started[i] \in byKind /\ started[i] \in running
    BY <1>7, <1>8 DEF StartedInv
  <2>2. \A i \in 1..(n + 1) : started'[i] \in byKind
    BY <1>4, <1>8, <1>9, <2>1
  <2>3. \A i \in 1..n : Before(started[i], p)
    <3>1. SUFFICES ASSUME NEW i \in 1..n
                   PROVE  Before(started[i], p)
      OBVIOUS
    <3>2. started[i] # p /\ started[i] \in Plugin /\ p \in Plugin
      BY <1>3, <1>4, <2>1
    <3>3. CASE Before(p, started[i])
      BY <1>4, <1>7, <1>8, <3>3 DEF StartedInv
    <3> QED
      BY <1>3, <3>2, <3>3, PluginsOrdered
  <2>4. \A i, j \in 1..(n + 1) : i < j => Before(started'[i], started'[j])
    <3>1. SUFFICES ASSUME NEW i \in 1..(n + 1), NEW j \in 1..(n + 1), i < j
                   PROVE  Before(started'[i], started'[j])
      OBVIOUS
    <3>2. i \in 1..n
      BY <1>8, <3>1
    <3>3. CASE j \in 1..n
      BY <1>8, <3>1, <3>2, <3>3 DEF StartedInv
    <3>4. CASE j = n + 1
      BY <1>8, <2>3, <3>2, <3>4
    <3> QED
      BY <1>9, <3>3, <3>4
  <2>5. \A i \in 1..(n + 1) : \A q \in byKind :
          Before(q, started'[i]) => \E j \in 1..(n + 1) : started'[j] = q
    <3>1. SUFFICES ASSUME NEW i \in 1..(n + 1), NEW q \in byKind, Before(q, started'[i])
                   PROVE  \E j \in 1..(n + 1) : started'[j] = q
      OBVIOUS
    <3>2. \A j \in 1..n : j \in 1..(n + 1)
      BY <1>8
    <3>3. CASE i \in 1..n
      <4>1. \E j \in 1..n : started[j] = q
        BY <1>8, <3>1, <3>3 DEF StartedInv
      <4> QED
        BY <1>8, <3>2, <4>1
    <3>4. CASE i = n + 1
      <4>1. Before(q, p) /\ p \in Plugin /\ q \in Plugin
        BY <1>3, <1>4, <1>8, <3>1, <3>4
      <4>2. q \in running \/ q = p
        BY <1>3, <1>4, <4>1, PluginsOrdered
      <4>3. CASE q = p
        BY <1>8, <4>3
      <4>4. CASE q \in running
        <5>1. \E j \in 1..n : started[j] = q
          BY <1>7, <1>8, <4>1, <4>4
        <5> QED
          BY <1>8, <3>2, <5>1
      <4> QED
        BY <4>2, <4>3, <4>4
    <3> QED
      BY <1>9, <3>3, <3>4
  <2>6. \A q \in Plugin : q \in running' <=> \E i \in 1..(n + 1) : started'[i] = q
    <3>1. SUFFICES ASSUME NEW q \in Plugin
                   PROVE  q \in running' <=> \E i \in 1..(n + 1) : started'[i] = q
      OBVIOUS
    <3>2. \A j \in 1..n : j \in 1..(n + 1)
      BY <1>8
    <3>3. ASSUME q \in running PROVE \E i \in 1..(n + 1) : started'[i] = q
      BY <1>7, <1>8, <3>2, <3>3
    <3>4. n + 1 \in 1..(n + 1) /\ started'[n + 1] = p
      BY <1>8
    <3>5. ASSUME NEW i \in 1..n, started'[i] = q PROVE q \in running
      BY <1>8, <2>1, <3>5
    <3> QED
      BY <1>2, <1>9, <3>3, <3>4, <3>5
  <2>7. \A i \in 1..(n + 1) : stops[started'[i]] = 0
    BY <1>3, <1>6, <2>2
  <2>8. DOMAIN started' = 1..(n + 1) /\ stops' = stops /\ byKind' = byKind
    BY <1>2, <1>8
  <2> QED
    BY <1>5, <1>6, <2>2, <2>4, <2>5, <2>6, <2>7, <2>8 DEF StartedInv
<1> QED
  BY <1>10, <1>11, <1>12, <1>13

\* A stop from the list: the last of it, so that the rest still has no gap.
LEMMA StopStep ==
  ASSUME LifecycleInv, StopPlugin
  PROVE  LifecycleInv'
<1> USE DEF LifecycleInv
<1> DEFINE n == Len(started)
<1>1. PICK p : p = Last(started)
  OBVIOUS
<1>2. /\ stage \in {"undo", "plugins"} /\ started # <<>>
      /\ started' = Front(started) /\ running' = running \ {p}
      /\ stops' = [stops EXCEPT ![p] = stops[p] + 1]
      /\ UNCHANGED <<stage, config, loaded, byID, byKind, given, injected, chain, handlers, topics,
                     scheduler, loop, gateway>>
  BY <1>1 DEF StopPlugin, StopOf, Rest, registryVars, wiringVars, services
<1>3. /\ config \in Configs /\ byKind \subseteq Plugin /\ running \subseteq Plugin
      /\ started \in Seq(Plugin) /\ stops \in [Plugin -> 0..2]
  BY DEF LifecycleTypeOK
<1>4. /\ Plugin' = Plugin /\ entries' = entries
      /\ \A q : IdOf(q)' = IdOf(q) /\ KindOf(q)' = KindOf(q)
      /\ \A q, r : Before(q, r)' <=> Before(q, r)
  BY <1>2, NamesStay
<1>5. /\ n \in Nat /\ n > 0 /\ DOMAIN started = 1..n /\ DOMAIN started' = 1..(n - 1)
      /\ n \in 1..n /\ started[n] = p
      /\ \A i \in 1..(n - 1) : i \in 1..n /\ i < n /\ started'[i] = started[i]
      /\ \A i \in 1..n : started[i] \in Plugin /\ (i \in 1..(n - 1) \/ i = n)
      /\ started' \in Seq(Plugin)
  BY <1>1, <1>2, <1>3 DEF Last, Front
<1>6. /\ p \in Plugin /\ p \in byKind
      /\ stops[p] \in {0, 1} /\ (stops[p] = 1 => KindOf(p) = "channel")
  <2>1. p \in Plugin /\ stops[p] \in 0..2
    BY <1>3, <1>5
  <2>2. p \in byKind /\ stops[p] # 2 /\ (stops[p] = 1 => KindOf(p) = "channel")
    BY <1>5 DEF StartedInv
  <2> QED
    BY <2>1, <2>2
<1>7. /\ stops' \in [Plugin -> 0..2] /\ stops'[p] \in {1, 2} /\ (stops'[p] = 2 => KindOf(p) = "channel")
      /\ \A q \in Plugin : q # p => stops'[q] = stops[q]
  BY <1>2, <1>3, <1>6
<1>8. LifecycleTypeOK'
  BY <1>2, <1>3, <1>4, <1>5, <1>7 DEF LifecycleTypeOK
<1>9. RegistryInv'
  BY <1>2, <1>4 DEF RegistryInv
<1>10. StageInv'
  BY <1>2, <1>4 DEF StageInv
<1>11. StartedInv'
  <2>1. \A i \in 1..(n - 1) : Before(started[i], p) /\ started[i] # p
    <3>1. SUFFICES ASSUME NEW i \in 1..(n - 1)
                   PROVE  Before(started[i], p) /\ started[i] # p
      OBVIOUS
    <3>2. Before(started[i], p)
      BY <1>5 DEF StartedInv
    <3> QED
      BY <1>3, <1>5, <1>6, <3>2, PluginsOrdered
  <2>2. \A i \in 1..(n - 1) : started'[i] \in byKind
    BY <1>5 DEF StartedInv
  <2>3. \A i, j \in 1..(n - 1) : i < j => Before(started'[i], started'[j])
    BY <1>5 DEF StartedInv
  <2>4. \A i \in 1..(n - 1) : \A q \in byKind :
          Before(q, started'[i]) => \E j \in 1..(n - 1) : started'[j] = q
    <3>1. SUFFICES ASSUME NEW i \in 1..(n - 1), NEW q \in byKind, Before(q, started'[i])
                   PROVE  \E j \in 1..(n - 1) : started'[j] = q
      OBVIOUS
    <3>2. Before(q, started[i]) /\ started[i] \in Plugin /\ q \in Plugin
      BY <1>3, <1>5, <3>1
    <3>3. PICK j \in 1..n : started[j] = q
      BY <1>5, <3>2 DEF StartedInv
    <3>4. q # p
      BY <1>3, <2>1, <3>2, PluginsOrdered
    <3>5. j \in 1..(n - 1)
      BY <1>5, <3>3, <3>4
    <3> QED
      BY <1>5, <3>3, <3>5
  <2>5. \A i \in 1..(n - 1) :
          stops'[started'[i]] # 2 /\ (stops'[started'[i]] = 1 => KindOf(started'[i]) = "channel")
    <3>1. SUFFICES ASSUME NEW i \in 1..(n - 1)
                   PROVE  /\ stops'[started'[i]] # 2
                          /\ stops'[started'[i]] = 1 => KindOf(started'[i]) = "channel"
      OBVIOUS
    <3>2. stops'[started'[i]] = stops[started[i]] /\ started'[i] = started[i]
      BY <1>5, <1>7, <2>1
    <3> QED
      BY <1>5, <3>2 DEF StartedInv
  <2>6. \A q \in Plugin : q \in running' <=> stops'[q] = 0 /\ \E i \in 1..(n - 1) : started'[i] = q
    <3>1. SUFFICES ASSUME NEW q \in Plugin
                   PROVE  q \in running' <=> stops'[q] = 0 /\ \E i \in 1..(n - 1) : started'[i] = q
      OBVIOUS
    <3>2. CASE q = p
      BY <1>2, <1>7, <3>2
    <3>3. CASE q # p
      <4>1. (\E i \in 1..(n - 1) : started'[i] = q) <=> \E i \in 1..n : started[i] = q
        <5>1. ASSUME NEW i \in 1..(n - 1), started'[i] = q PROVE \E j \in 1..n : started[j] = q
          BY <1>5, <5>1
        <5>2. ASSUME NEW i \in 1..n, started[i] = q PROVE \E j \in 1..(n - 1) : started'[j] = q
          BY <1>5, <3>3, <5>2
        <5> QED
          BY <5>1, <5>2
      <4>2. q \in running <=> stops[q] = 0 /\ \E i \in 1..n : started[i] = q
        BY <1>5 DEF StartedInv
      <4> QED
        BY <1>2, <1>7, <3>3, <4>1, <4>2
    <3> QED
      BY <3>2, <3>3
  <2>7. \A q \in Plugin : (stops'[q] > 0 => q \in byKind) /\ (stops'[q] = 2 => KindOf(q) = "channel")
    BY <1>6, <1>7 DEF StartedInv
  <2>8. DOMAIN started' = 1..(n - 1) /\ byKind' = byKind
    BY <1>2, <1>5
  <2> QED
    BY <1>4, <2>2, <2>3, <2>4, <2>5, <2>6, <2>7, <2>8 DEF StartedInv
<1> QED
  BY <1>8, <1>9, <1>10, <1>11

\* A stop of a channel ahead of the list.
LEMMA StopChannelStep ==
  ASSUME LifecycleInv, NEW p \in Plugin, StopChannel(p)
  PROVE  LifecycleInv'
<1> USE DEF LifecycleInv
<1>1. /\ stage = "channels" /\ p \in byKind /\ KindOf(p) = "channel" /\ stops[p] = 0
      /\ running' = running \ {p} /\ stops' = [stops EXCEPT ![p] = stops[p] + 1]
      /\ UNCHANGED <<stage, config, loaded, byID, byKind, given, injected, chain, handlers, topics,
                     started, scheduler, loop, gateway>>
  BY DEF StopChannel, StopOf, Channels, registryVars, wiringVars, services
<1>2. /\ Plugin' = Plugin /\ entries' = entries
      /\ \A q : IdOf(q)' = IdOf(q) /\ KindOf(q)' = KindOf(q)
      /\ \A q, r : Before(q, r)' <=> Before(q, r)
  BY <1>1, NamesStay
<1>3. stops \in [Plugin -> 0..2] /\ started \in Seq(Plugin) /\ running \subseteq Plugin
  BY DEF LifecycleTypeOK
<1>4. /\ stops' \in [Plugin -> 0..2] /\ stops'[p] = 1
      /\ \A q \in Plugin : q # p => stops'[q] = stops[q]
  BY <1>1, <1>3
<1>5. LifecycleTypeOK'
  BY <1>1, <1>2, <1>4 DEF LifecycleTypeOK
<1>6. RegistryInv'
  BY <1>1, <1>2 DEF RegistryInv
<1>7. StageInv'
  BY <1>1, <1>2 DEF StageInv
<1>8. StartedInv'
  <2>1. \A i \in DOMAIN started : started[i] \in Plugin
    BY <1>3
  <2>2. \A i \in DOMAIN started :
          stops'[started[i]] # 2 /\ (stops'[started[i]] = 1 => KindOf(started[i]) = "channel")
    <3>1. SUFFICES ASSUME NEW i \in DOMAIN started
                   PROVE  /\ stops'[started[i]] # 2
                          /\ stops'[started[i]] = 1 => KindOf(started[i]) = "channel"
      OBVIOUS
    <3>2. CASE started[i] = p
      BY <1>1, <1>4, <3>2
    <3>3. CASE started[i] # p
      BY <1>4, <2>1, <3>3 DEF StartedInv
    <3> QED
      BY <3>2, <3>3
  <2>3. \A q \in Plugin : q \in running' <=> stops'[q] = 0 /\ \E i \in DOMAIN started : started[i] = q
    BY <1>1, <1>4 DEF StartedInv
  <2>4. \A q \in Plugin : (stops'[q] > 0 => q \in byKind) /\ (stops'[q] = 2 => KindOf(q) = "channel")
    BY <1>1, <1>4 DEF StartedInv
  <2>5. started' = started /\ byKind' = byKind
    BY <1>1
  <2> QED
    BY <1>2, <2>2, <2>3, <2>4, <2>5 DEF StartedInv
<1> QED
  BY <1>5, <1>6, <1>7, <1>8

\* The process begins with the built-in plugins, each of its own ID.
LEMMA LifecycleInitial == LifecycleInit => LifecycleInv
<1> SUFFICES ASSUME LifecycleInit
             PROVE  LifecycleInv
  OBVIOUS
<1> USE DEF LifecycleInit
<1>1. /\ config \in Configs /\ B \in Nat /\ Len(entries) \in Nat
      /\ 1..B \subseteq Plugin /\ DOMAIN Builtins = 1..B
  BY PluginsRanked, LifecycleAssumption DEF B, Plugin
<1>2. \A i \in 1..B : IdOf(i) = Builtins[i].id
  BY <1>1 DEF IdOf
<1>3. ASSUME NEW id \in {Builtins[i].id : i \in 1..B}
      PROVE  byID[id] \in 1..B /\ Builtins[byID[id]].id = id
  <2>1. byID[id] = CHOOSE i \in 1..B : Builtins[i].id = id
    BY <1>3
  <2>2. \E i \in 1..B : Builtins[i].id = id
    BY <1>3
  <2> QED
    BY <2>1, <2>2
<1>4. RegistryInv
  <2>1. ASSUME NEW p \in byKind
        PROVE  IdOf(p) \in DOMAIN byID /\ byID[IdOf(p)] = p
    <3>1. p \in 1..B /\ IdOf(p) = Builtins[p].id /\ IdOf(p) \in {Builtins[i].id : i \in 1..B}
      BY <1>2, <2>1
    <3>2. byID[IdOf(p)] \in 1..B /\ Builtins[byID[IdOf(p)]].id = Builtins[p].id
      BY <1>3, <3>1
    <3> QED
      BY <1>1, <3>1, <3>2, LifecycleAssumption
  <2> QED
    BY <1>2, <1>3, <2>1 DEF RegistryInv
<1>5. LifecycleTypeOK
  BY <1>1, <1>3 DEF LifecycleTypeOK, Stages
<1>6. StageInv /\ StartedInv
  BY DEF StageInv, StartedInv
<1> QED
  BY <1>4, <1>5, <1>6 DEF LifecycleInv

\* The inductive invariant of the life of the process.
THEOREM LifecycleInvariant == LifecycleSpec => []LifecycleInv
<1>1. LifecycleInv /\ [LifecycleNext]_lifecycleVars => LifecycleInv'
  <2> SUFFICES ASSUME LifecycleInv, [LifecycleNext]_lifecycleVars
               PROVE  LifecycleInv'
    OBVIOUS
  <2>1. CASE LoadPlugin
    BY <2>1, LoadStep
  <2>2. CASE StartPlugin
    BY <2>2, StartStep
  <2>3. CASE StopPlugin
    BY <2>3, StopStep
  <2>4. CASE \E p \in Plugin : StopChannel(p)
    BY <2>4, StopChannelStep
  <2>5. CASE \/ \E s \in {"load", "init", "wire", "outbound", "services"} : Fails(s)
             \/ LoadConfig \/ LoadEnds \/ InitPlugin \/ InitEnds
             \/ Inject \/ SetHandlers \/ SubscribeOutbound \/ SubscribeInbound
             \/ StartFails \/ StartScheduler \/ StartGateway \/ Exit
             \/ Killed \/ Signal \/ StopScheduler \/ DrainLoop
    BY <2>5, StageStep
  <2>6. CASE UNCHANGED lifecycleVars
    <3>1. UNCHANGED <<stage, config, loaded, byID, byKind, given, injected, chain, handlers, topics,
                      started, running, stops, scheduler, loop, gateway>>
      BY <2>6 DEF lifecycleVars
    <3>2. Plugin' = Plugin /\ entries' = entries
      BY <3>1, NamesStay
    <3>3. LifecycleTypeOK' /\ StageInv'
      BY <3>1, <3>2 DEF LifecycleInv, LifecycleTypeOK, StageInv
    <3>4. RegistryInv' /\ StartedInv'
      <4>1. RegistryInv'
        BY <3>1, NamesStay DEF LifecycleInv, RegistryInv
      <4>2. StartedInv'
        BY <3>1, NamesStay DEF LifecycleInv, StartedInv
      <4> QED
        BY <4>1, <4>2
    <3> QED
      BY <3>3, <3>4 DEF LifecycleInv
  <2> QED
    BY <2>1, <2>2, <2>3, <2>4, <2>5, <2>6 DEF LifecycleNext
<1> QED
  BY <1>1, LifecycleInitial, PTL DEF LifecycleSpec

\* The types of the process (LifecycleTypeOK).
THEOREM LifecycleTypes == LifecycleSpec => []LifecycleTypeOK
<1>1. LifecycleInv => LifecycleTypeOK
  BY DEF LifecycleInv
<1> QED
  BY <1>1, LifecycleInvariant, PTL

\* Manager.Stop and stopStarted meet only what Start brought up, all of it
\* before the exit, and none twice but a channel (StopsMatchStarts).
THEOREM StopsMatch == LifecycleSpec => []StopsMatchStarts
<1>1. ASSUME LifecycleInv
      PROVE  StopsMatchStarts
  <2>1. stops \in [Plugin -> 0..2]
    BY <1>1 DEF LifecycleInv, LifecycleTypeOK
  <2>2. \A p \in Plugin : stops[p] > 0 => p \in byKind /\ p \notin running
    BY <1>1, <2>1 DEF LifecycleInv, StartedInv
  <2>3. \A p \in Plugin : stops[p] = 2 => KindOf(p) = "channel"
    BY <1>1 DEF LifecycleInv, StartedInv
  <2>4. stage = "exit" => running = {}
    BY <1>1 DEF LifecycleInv, StageInv
  <2> QED
    BY <2>2, <2>3, <2>4 DEF StopsMatchStarts
<1> QED
  BY <1>1, LifecycleInvariant, PTL

\* A plugin runs on those of the kinds before its own: only channels are
\* stopped out of turn, and no kind comes after theirs.
LEMMA GroundStands ==
  ASSUME LifecycleInv
  PROVE  RunsOnItsGround
<1> USE DEF LifecycleInv
<1>1. config \in Configs /\ running \subseteq Plugin /\ byKind \subseteq Plugin /\ stops \in [Plugin -> 0..2]
  BY DEF LifecycleTypeOK
<1>2. ASSUME NEW p \in running
      PROVE  p \in byKind /\ byID[IdOf(p)] = p /\ p \in injected
  <2>1. PICK i \in DOMAIN started : started[i] = p
    BY <1>1, <1>2 DEF StartedInv
  <2>2. p \in byKind
    BY <2>1 DEF StartedInv
  <2> QED
    BY <1>2, <2>2 DEF RegistryInv, StageInv
<1>3. ASSUME NEW p \in running, NEW q \in byKind, Rank(q) < Rank(p)
      PROVE  q \in running
  <2>1. PICK i \in DOMAIN started : started[i] = p
    BY <1>1, <1>3 DEF StartedInv
  <2>2. Before(q, p)
    BY <1>3 DEF Before
  <2>3. PICK j \in DOMAIN started : started[j] = q
    BY <2>1, <2>2 DEF StartedInv
  <2>4. stops[q] \in {0, 1} /\ (stops[q] = 1 => KindOf(q) = "channel")
    BY <1>1, <2>3 DEF StartedInv
  <2>5. KindOf(q) # "channel"
    <3>1. p \in Plugin /\ q \in Plugin
      BY <1>1
    <3>2. Rank(p) \in Nat /\ Rank(p) <= 7
      BY <1>1, <3>1, PluginsRanked
    <3> QED
      BY <1>1, <1>3, <3>1, <3>2, PluginsRanked
  <2> QED
    BY <1>1, <2>3, <2>4, <2>5 DEF StartedInv
<1> QED
  BY <1>2, <1>3 DEF RunsOnItsGround

\* While a plugin runs, so does every plugin of the kinds before its own; it is
\* the one of its ID and has what it works with (RunsOnItsGround).
THEOREM KindsStandOnEachOther == LifecycleSpec => []RunsOnItsGround
  BY LifecycleInvariant, GroundStands, PTL

-----------------------------------------------------------------------------
(* What the loop serves.                                                   *)

\* Every route leads to an endpoint.
RoutesIn == \A id \in config.routes : id \in DOMAIN byID /\ KindOf(byID[id]) = "llm"

\* What each stage finds done by those before it; a process that was killed is
\* as it was then.
ServeInv ==
  /\ stage = "load" =>
       /\ \A id \in config.routes : \E i \in DOMAIN entries :
            entries[i].kind = "llm" /\ entries[i].id = id /\ entries[i].enabled
       /\ \A i \in DOMAIN entries : i <= loaded /\ entries[i].enabled => entries[i].id \in DOMAIN byID
  /\ stage \in {"init", "wire", "handlers", "outbound", "services", "start", "gateway", "ready", "channels", "undo"} =>
       RoutesIn
  /\ stage \in {"outbound", "services", "start", "gateway", "ready", "channels", "undo"} => handlers = Channels
  /\ stage \in {"services", "start", "gateway", "ready", "channels", "undo"} => "outbound" \in topics
  /\ stage \in {"start", "gateway", "ready", "channels", "undo"} => "inbound" \in topics /\ loop = "serving"
  /\ stage \in {"gateway", "ready"} => byKind \subseteq running
  /\ stage = "channels" => byKind \subseteq running \cup Channels
  /\ stage \in {"drain", "plugins"} => running \cap Channels = {}
  /\ scheduler = "running" => stage \in {"gateway", "ready", "channels", "killed"}
  /\ gateway = "listening" => stage \in {"ready", "killed"}
  /\ running # {} => stage \in {"start", "gateway", "ready", "channels", "drain", "plugins", "undo", "killed"}
  /\ stage = "killed" => IngressIsServed

\* Plugins of one ID are of one kind.
LEMMA KindOfId ==
  ASSUME config \in Configs, NEW p \in Plugin, NEW q \in Plugin, IdOf(p) = IdOf(q)
  PROVE  KindOf(p) = KindOf(q)
<1>1. B \in Nat /\ Len(entries) \in Nat /\ DOMAIN Builtins = 1..B /\ DOMAIN entries = 1..Len(entries)
  BY PluginsRanked, LifecycleAssumption DEF B, entries
<1>2. \A r \in Plugin : \/ r \in DOMAIN Builtins /\ IdOf(r) = Builtins[r].id /\ KindOf(r) = Builtins[r].kind
                       \/ \E i \in DOMAIN entries : IdOf(r) = entries[i].id /\ KindOf(r) = entries[i].kind
  <2>1. SUFFICES ASSUME NEW r \in Plugin
                 PROVE  \/ r \in DOMAIN Builtins /\ IdOf(r) = Builtins[r].id /\ KindOf(r) = Builtins[r].kind
                        \/ \E i \in DOMAIN entries : IdOf(r) = entries[i].id /\ KindOf(r) = entries[i].kind
    OBVIOUS
  <2>2. CASE r <= B
    BY <1>1, <2>2 DEF IdOf, KindOf, Plugin
  <2>3. CASE ~(r <= B)
    <3>1. r - B \in DOMAIN entries
      BY <1>1, <2>3 DEF Plugin
    <3> QED
      BY <2>3, <3>1 DEF IdOf, KindOf
  <2> QED
    BY <2>2, <2>3
<1>3. /\ \A i, j \in DOMAIN Builtins : Builtins[i].id = Builtins[j].id => i = j
      /\ \A i, j \in DOMAIN entries : entries[i].id = entries[j].id => entries[i].kind = entries[j].kind
      /\ \A i \in DOMAIN entries, j \in DOMAIN Builtins :
           entries[i].id = Builtins[j].id => entries[i].kind = Builtins[j].kind
  BY LifecycleAssumption DEF entries
<1> QED
  BY <1>2, <1>3

\* Whatever brings messages is served.
LEMMA IngressStands ==
  ASSUME LifecycleInv, ServeInv
  PROVE  IngressIsServed
<1> USE DEF ServeInv
<1> SUFFICES ASSUME Ingress, stage # "killed"
             PROVE  IngressIsServed
  BY DEF IngressIsServed
<1>1. stage \in {"start", "gateway", "ready", "channels", "undo"}
  BY DEF Ingress
<1>2. /\ config \in Configs /\ byKind \subseteq Plugin /\ running \subseteq Plugin
      /\ topics \subseteq {"inbound", "outbound"}
  BY DEF LifecycleInv, LifecycleTypeOK
<1>3. RunsOnItsGround
  BY GroundStands
<1>4. ASSUME NEW q \in byKind, KindOf(q) # "channel"
      PROVE  q \in running
  <2>1. CASE stage \in {"gateway", "ready", "channels"}
    BY <1>4, <2>1 DEF Channels
  <2>2. CASE stage \in {"start", "undo"}
    <3>1. PICK p \in running : p \in Channels
      BY <2>2 DEF Ingress
    <3>2. KindOf(p) = "channel" /\ p \in Plugin /\ q \in Plugin
      BY <1>2, <3>1 DEF Channels
    <3>3. Rank(p) = 7 /\ Rank(q) \in Nat /\ Rank(q) <= 7 /\ Rank(q) # 7
      BY <1>2, <1>4, <3>2, PluginsRanked
    <3>4. Rank(q) < Rank(p)
      BY <3>3
    <3> QED
      BY <1>3, <3>1, <3>4 DEF RunsOnItsGround
  <2> QED
    BY <1>1, <2>1, <2>2
<1>5. \A id \in config.routes : id \in DOMAIN byID /\ byID[id] \in running
  <2>1. ASSUME NEW id \in config.routes
        PROVE  id \in DOMAIN byID /\ byID[id] \in running
    <3>1. id \in DOMAIN byID /\ KindOf(byID[id]) = "llm"
      BY <1>1 DEF RoutesIn
    <3>2. byID[id] \in byKind
      BY <3>1 DEF LifecycleInv, RegistryInv
    <3>3. KindOf(byID[id]) # "channel"
      BY <3>1
    <3> QED
      BY <1>4, <3>1, <3>2, <3>3
  <2> QED
    BY <2>1
<1>6. gateway = "listening" => Channels \subseteq running
  BY <1>1 DEF Channels
<1>7. handlers = Channels /\ topics = {"inbound", "outbound"} /\ loop = "serving"
  <2>1. handlers = Channels
    BY <1>1
  <2>2. "outbound" \in topics
    BY <1>1
  <2>3. "inbound" \in topics /\ loop = "serving"
    <3>1. CASE stage \in {"start", "gateway", "ready", "channels", "undo"}
      BY <3>1
    <3> QED
      BY <1>1, <3>1
  <2>4. topics = {"inbound", "outbound"}
    <3>1. \A x \in topics : x = "inbound" \/ x = "outbound"
      BY <1>2
    <3> QED
      BY ONLY <2>2, <2>3, <3>1, Zenon
  <2> QED
    BY <2>1, <2>3, <2>4, Zenon
<1>8. \A p \in byKind : KindOf(p) \in {"store", "transport", "sandbox"} => p \in running
  BY <1>4
<1> QED
  BY <1>5, <1>6, <1>7, <1>8 DEF IngressIsServed

\* The steps of the registry.
LEMMA RegistryServes ==
  ASSUME LifecycleInv, LifecycleInv', ServeInv, LoadConfig \/ LoadPlugin \/ LoadEnds
  PROVE  ServeInv'
<1>1. /\ stage \in {"config", "load"} /\ config' = config
      /\ UNCHANGED <<handlers, topics, running, scheduler, loop, gateway>>
  BY DEF LoadConfig, LoadPlugin, LoadEnds, registryVars, wiringVars, runVars
<1>2. running = {} /\ scheduler # "running" /\ gateway # "listening"
  BY <1>1 DEF ServeInv
<1>3. entries' = entries /\ config \in Configs /\ loaded \in 0..Len(entries) /\ Len(entries) \in Nat
      /\ DOMAIN entries = 1..Len(entries) /\ B \in Nat
  BY <1>1, NamesStay, PluginsRanked, LifecycleAssumption DEF LifecycleInv, LifecycleTypeOK, entries
<1>4. CASE LoadConfig
  <2>1. /\ stage' \in {"load", "exit"} /\ loaded' = loaded /\ byID' = byID
        /\ stage' = "load" => \A id \in config.routes : \E i \in DOMAIN entries :
             entries[i].kind = "llm" /\ entries[i].id = id /\ entries[i].enabled
    BY <1>4 DEF LoadConfig, Valid, registryVars
  <2>2. loaded = 0
    BY <1>4 DEF LifecycleInv, StageInv, LoadConfig
  <2> QED
    BY <1>1, <1>2, <1>3, <2>1, <2>2 DEF ServeInv
<1>5. CASE LoadPlugin
  <2>1. /\ stage = "load" /\ stage' = "load" /\ loaded' = loaded + 1 /\ loaded' \in DOMAIN entries
        /\ entries[loaded'].enabled => Register(B + loaded')
        /\ ~entries[loaded'].enabled => byID' = byID
    BY <1>3, <1>5 DEF LoadPlugin
  <2>2. IdOf(B + loaded') = entries[loaded'].id
    BY <1>3, <2>1 DEF IdOf
  <2>3. DOMAIN byID \subseteq DOMAIN byID' /\ (entries[loaded'].enabled => entries[loaded'].id \in DOMAIN byID')
    BY <2>1, <2>2 DEF Register
  <2>4. \A i \in DOMAIN entries : i <= loaded' /\ entries[i].enabled => entries[i].id \in DOMAIN byID'
    <3>1. \A i \in DOMAIN entries : i <= loaded' => i <= loaded \/ i = loaded'
      BY <1>3, <2>1
    <3> QED
      BY <2>1, <2>3, <3>1 DEF ServeInv
  <2> QED
    BY <1>1, <1>2, <1>3, <2>1, <2>4 DEF ServeInv
<1>6. CASE LoadEnds
  <2>1. stage = "load" /\ stage' = "init" /\ loaded = Len(entries) /\ UNCHANGED <<byID, byKind>>
    BY <1>6 DEF LoadEnds, registryVars
  <2>2. RoutesIn
    <3>1. SUFFICES ASSUME NEW id \in config.routes
                   PROVE  id \in DOMAIN byID /\ KindOf(byID[id]) = "llm"
      BY DEF RoutesIn
    <3>2. PICK i \in DOMAIN entries : entries[i].kind = "llm" /\ entries[i].id = id /\ entries[i].enabled
      BY <2>1 DEF ServeInv
    <3>3. id \in DOMAIN byID
      BY <1>3, <2>1, <3>2 DEF ServeInv
    <3>4. B + i \in Plugin /\ ~(B + i <= B) /\ (B + i) - B = i
      BY <1>3 DEF Plugin
    <3>5. IdOf(B + i) = id /\ KindOf(B + i) = "llm"
      BY <3>2, <3>4 DEF IdOf, KindOf
    <3>6. byID[id] \in Plugin /\ IdOf(byID[id]) = id
      BY <3>3 DEF LifecycleInv, LifecycleTypeOK, RegistryInv
    <3> QED
      BY <1>3, <3>3, <3>4, <3>5, <3>6, KindOfId
  <2>3. RoutesIn'
    BY <1>1, <2>1, <2>2, NamesStay DEF RoutesIn
  <2> QED
    BY <1>1, <1>2, <2>1, <2>3 DEF ServeInv
<1> QED
  BY <1>4, <1>5, <1>6

\* The channels, their routes and what is served stay if nothing of them changes.
LEMMA ServedStay ==
  ASSUME UNCHANGED <<config, byID, byKind>>
  PROVE  /\ Channels' = Channels /\ entries' = entries /\ Plugin' = Plugin
         /\ RoutesIn' <=> RoutesIn
         /\ UNCHANGED <<handlers, topics, running, scheduler, loop, gateway>> =>
              (IngressIsServed' <=> IngressIsServed)
<1>1. Channels' = Channels
  BY NamesStay DEF Channels
<1>2. RoutesIn' <=> RoutesIn
  BY NamesStay DEF RoutesIn
<1>3. ASSUME UNCHANGED <<handlers, topics, running, scheduler, loop, gateway>>
      PROVE  IngressIsServed' <=> IngressIsServed
  <2>1. Ingress' <=> Ingress
    BY <1>1, <1>3 DEF Ingress
  <2> QED
    BY <1>1, <1>3, <2>1, NamesStay DEF IngressIsServed
<1> QED
  BY <1>1, <1>2, <1>3, NamesStay

\* The steps of the rest.
LEMMA StagesServe ==
  ASSUME LifecycleInv, LifecycleInv', ServeInv,
         \/ \E s \in {"load", "init", "wire", "outbound", "services"} : Fails(s)
         \/ InitPlugin \/ InitEnds \/ Inject \/ SetHandlers \/ SubscribeOutbound \/ SubscribeInbound
         \/ StartPlugin \/ StartFails \/ StartScheduler \/ StartGateway \/ StopPlugin \/ Exit
         \/ Killed \/ Signal \/ StopScheduler \/ DrainLoop
         \/ \E p \in Plugin : StopChannel(p)
  PROVE  ServeInv'
<1>1. UNCHANGED <<config, loaded, byID, byKind>>
  BY DEF Fails, InitPlugin, InitEnds, Inject, SetHandlers, SubscribeOutbound, SubscribeInbound,
         StartPlugin, StartFails, StartScheduler, StartGateway, StopPlugin, Exit, Killed, Signal,
         StopScheduler, DrainLoop, StopChannel, registryVars, wiringVars, runVars, services
<1>2. /\ Channels' = Channels /\ entries' = entries /\ Plugin' = Plugin /\ (RoutesIn' <=> RoutesIn)
      /\ UNCHANGED <<handlers, topics, running, scheduler, loop, gateway>> =>
           (IngressIsServed' <=> IngressIsServed)
  BY <1>1, ServedStay
<1>3. IngressIsServed
  BY IngressStands
<1> USE DEF ServeInv
<1>4. CASE \E s \in {"load", "init", "wire", "outbound", "services"} : Fails(s)
  <2>1. /\ stage' = "exit" /\ stage \in {"load", "init", "wire", "outbound", "services"}
        /\ UNCHANGED <<handlers, topics, running, scheduler, loop, gateway>>
    BY <1>4 DEF Fails, wiringVars, runVars
  <2> QED
    BY <1>1, <1>2, <2>1
<1>5. CASE InitPlugin \/ InitEnds \/ Inject
  <2>1. /\ stage \in {"init", "wire"} /\ stage' \in {"init", "wire", "handlers"}
        /\ UNCHANGED <<handlers, topics, running, scheduler, loop, gateway>>
    BY <1>5 DEF InitPlugin, InitEnds, Inject, wiringVars, runVars
  <2> QED
    BY <1>1, <1>2, <2>1
<1>6. CASE SetHandlers \/ SubscribeOutbound \/ SubscribeInbound
  <2>1. /\ UNCHANGED <<running, scheduler, gateway>> /\ running = {}
        /\ scheduler # "running" /\ gateway # "listening"
    BY <1>6 DEF SetHandlers, SubscribeOutbound, SubscribeInbound, runVars
  <2>2. CASE SetHandlers
    BY <1>1, <1>2, <2>1, <2>2 DEF SetHandlers, runVars
  <2>3. CASE SubscribeOutbound
    BY <1>1, <1>2, <2>1, <2>3 DEF SubscribeOutbound, runVars
  <2>4. CASE SubscribeInbound
    BY <1>1, <1>2, <2>1, <2>4 DEF SubscribeInbound, runVars
  <2> QED
    BY <1>6, <2>2, <2>3, <2>4
<1>7. CASE StartPlugin
  BY <1>1, <1>2, <1>7 DEF StartPlugin, wiringVars, services
<1>8. CASE StartFails
  BY <1>1, <1>2, <1>8 DEF StartFails, wiringVars, runVars
<1>9. CASE StartScheduler
  BY <1>1, <1>2, <1>9 DEF StartScheduler, wiringVars
<1>10. CASE StartGateway
  BY <1>1, <1>2, <1>10 DEF StartGateway, wiringVars
<1>11. CASE StopPlugin
  <2>1. /\ stage \in {"undo", "plugins"} /\ stage' = stage /\ running' \subseteq running
        /\ UNCHANGED <<handlers, topics, scheduler, loop, gateway>>
    BY <1>11 DEF StopPlugin, StopOf, wiringVars, services
  <2> QED
    BY <1>1, <1>2, <2>1
<1>12. CASE Exit
  <2>1. /\ stage \in {"undo", "plugins"} /\ started = <<>> /\ stage' = "exit"
        /\ UNCHANGED <<handlers, topics, running, scheduler, loop, gateway>>
    BY <1>12 DEF Exit, wiringVars, runVars
  <2>2. running = {}
    BY <2>1, NoneRuns
  <2> QED
    BY <1>1, <1>2, <2>1, <2>2
<1>13. CASE Killed
  <2>1. stage' = "killed" /\ UNCHANGED <<handlers, topics, running, scheduler, loop, gateway>>
    BY <1>13 DEF Killed, wiringVars, runVars
  <2> QED
    BY <1>1, <1>2, <1>3, <2>1
<1>14. CASE Signal
  BY <1>1, <1>2, <1>14 DEF Signal, GatewayAfter, wiringVars
<1>15. CASE StopScheduler
  <2>1. /\ stage = "channels" /\ stage' = "drain" /\ scheduler' = "stopped" /\ \A p \in Channels : stops[p] = 1
        /\ UNCHANGED <<handlers, topics, running, loop, gateway>>
    BY <1>15 DEF StopScheduler, ToStopFirst, wiringVars
  <2>2. running \cap Channels = {}
    BY <2>1 DEF LifecycleInv, LifecycleTypeOK, StartedInv
  <2> QED
    BY <1>1, <1>2, <2>1, <2>2
<1>16. CASE DrainLoop
  BY <1>1, <1>2, <1>16 DEF DrainLoop, wiringVars
<1>17. CASE \E p \in Plugin : StopChannel(p)
  <2>1. PICK p \in Plugin : StopChannel(p)
    BY <1>17
  <2>2. /\ stage = "channels" /\ stage' = stage /\ p \in Channels /\ running' = running \ {p}
        /\ UNCHANGED <<handlers, topics, scheduler, loop, gateway>>
    BY <2>1 DEF StopChannel, StopOf, wiringVars, services
  <2> QED
    BY <1>1, <1>2, <2>2
<1> QED
  BY <1>4, <1>5, <1>6, <1>7, <1>8, <1>9, <1>10, <1>11, <1>12, <1>13, <1>14, <1>15, <1>16, <1>17

\* What each stage finds done stays done.
LEMMA ServedInvariant == LifecycleSpec => [](LifecycleInv /\ ServeInv)
<1>1. LifecycleInit => ServeInv
  BY DEF LifecycleInit, ServeInv
<1>2. LifecycleInv /\ LifecycleInv' /\ ServeInv /\ [LifecycleNext]_lifecycleVars => ServeInv'
  <2> SUFFICES ASSUME LifecycleInv, LifecycleInv', ServeInv, [LifecycleNext]_lifecycleVars
               PROVE  ServeInv'
    OBVIOUS
  <2>1. CASE LoadConfig \/ LoadPlugin \/ LoadEnds
    BY <2>1, RegistryServes
  <2>2. CASE UNCHANGED lifecycleVars
    <3>1. UNCHANGED <<stage, config, loaded, byID, byKind, handlers, topics, running, scheduler, loop, gateway>>
      BY <2>2 DEF lifecycleVars
    <3>2. /\ Channels' = Channels /\ entries' = entries /\ (RoutesIn' <=> RoutesIn)
          /\ IngressIsServed' <=> IngressIsServed
      BY <3>1, ServedStay
    <3> QED
      BY <3>1, <3>2 DEF ServeInv
  <2>3. CASE \/ \E s \in {"load", "init", "wire", "outbound", "services"} : Fails(s)
             \/ InitPlugin \/ InitEnds \/ Inject \/ SetHandlers \/ SubscribeOutbound \/ SubscribeInbound
             \/ StartPlugin \/ StartFails \/ StartScheduler \/ StartGateway \/ StopPlugin \/ Exit
             \/ Killed \/ Signal \/ StopScheduler \/ DrainLoop
             \/ \E p \in Plugin : StopChannel(p)
    BY <2>3, StagesServe
  <2> QED
    BY <2>1, <2>2, <2>3 DEF LifecycleNext
<1> QED
  BY <1>1, <1>2, LifecycleInvariant, PTL DEF LifecycleSpec

\* Channels, gateway and scheduler bring messages only while they are served
\* (IngressIsServed): from before the first Start to after the last Stop of a
\* channel, and when the process is killed in between.
THEOREM MessagesAreServed == LifecycleSpec => []IngressIsServed
<1>1. LifecycleInv /\ ServeInv => IngressIsServed
  BY IngressStands
<1> QED
  BY <1>1, ServedInvariant, PTL

-----------------------------------------------------------------------------
(* The chain of the middleware.                                            *)

\* A finite set of numbers is counted from the least to the greatest by Nth.
LEMMA Counting ==
  ASSUME NEW S \in SUBSET Nat, IsFiniteSet(S)
  PROVE  /\ Cardinality(S) \in Nat
         /\ \A n \in 1..Cardinality(S) : Nth(n, S) \in S
         /\ \A n, m \in 1..Cardinality(S) : Nth(n, S) = Nth(m, S) => n = m
         /\ \A x \in S : \E n \in 1..Cardinality(S) : Nth(n, S) = x
<1> DEFINE Below(x) == {y \in S : y < x}
           c == Cardinality(S)
           T == 0..(c - 1)
           rank == [x \in S |-> Cardinality(Below(x))]
<1>1. c \in Nat
  BY FS_CardinalityType
<1>2. ASSUME NEW x \in S
      PROVE  /\ IsFiniteSet(Below(x)) /\ Cardinality(Below(x)) \in Nat
             /\ Cardinality(Below(x)) < c
  <2>1. IsFiniteSet(Below(x)) /\ Cardinality(Below(x)) \in Nat /\ Cardinality(Below(x)) <= c
    BY <1>1, FS_Subset, FS_CardinalityType
  <2>2. Below(x) # S
    <3>1. x \notin Below(x)
      OBVIOUS
    <3> QED
      BY <3>1
  <2>3. Cardinality(Below(x)) # c
    BY <2>2, FS_Subset
  <2> QED
    BY <1>1, <2>1, <2>3
<1>3. ASSUME NEW x \in S, NEW y \in S, x < y
      PROVE  Cardinality(Below(x)) < Cardinality(Below(y))
  <2>1. Below(x) \in SUBSET Below(y) /\ Below(x) # Below(y)
    <3>1. x \in Below(y) /\ x \notin Below(x)
      BY <1>3
    <3>2. \A z \in S : z < x => z < y
      BY <1>3
    <3>3. Below(x) \subseteq Below(y)
      BY <3>2
    <3> QED
      BY <3>1, <3>3
  <2>2. Cardinality(Below(x)) <= Cardinality(Below(y)) /\ Cardinality(Below(x)) # Cardinality(Below(y))
    BY <1>2, <2>1, FS_Subset
  <2> QED
    BY <1>2, <2>2
<1>4. \A x, y \in S : Cardinality(Below(x)) = Cardinality(Below(y)) => x = y
  BY <1>2, <1>3
<1>5. rank \in [S -> T] /\ \A x \in S : rank[x] = Cardinality(Below(x))
  BY <1>1, <1>2
<1>6. rank \in Injection(S, T)
  BY <1>4, <1>5 DEF Injection, IsInjective
<1>7. IsFiniteSet(T) /\ Cardinality(T) = c
  <2>1. 0 \in Int /\ c - 1 \in Int
    BY <1>1
  <2>2. IsFiniteSet(0..(c - 1)) /\ Cardinality(0..(c - 1)) = IF 0 > c - 1 THEN 0 ELSE (c - 1) - 0 + 1
    BY <2>1, FS_Interval
  <2> QED
    BY <1>1, <2>2
<1>8. rank \in Surjection(S, T)
  BY <1>6, <1>7, FS_Injection
<1>9. ASSUME NEW n \in 1..c
      PROVE  Nth(n, S) \in S /\ Cardinality(Below(Nth(n, S))) = n - 1
  <2>1. n - 1 \in T
    BY <1>1
  <2>2. \E x \in S : Cardinality(Below(x)) = n - 1
    BY <1>5, <1>8, <2>1 DEF Surjection
  <2> QED
    BY <2>2 DEF Nth
<1>10. ASSUME NEW x \in S
       PROVE  \E n \in 1..c : Nth(n, S) = x
  <2>1. Cardinality(Below(x)) + 1 \in 1..c
    BY <1>1, <1>2
  <2>2. /\ Nth(Cardinality(Below(x)) + 1, S) \in S
        /\ Cardinality(Below(Nth(Cardinality(Below(x)) + 1, S))) = Cardinality(Below(x))
    BY <1>2, <1>9, <2>1
  <2> QED
    BY <1>4, <2>1, <2>2
<1>11. ASSUME NEW n \in 1..c, NEW m \in 1..c, Nth(n, S) = Nth(m, S)
       PROVE  n = m
  <2>1. PICK k : k = Cardinality(Below(Nth(n, S)))
    OBVIOUS
  <2>2. k = n - 1 /\ k = m - 1
    BY <1>9, <1>11, <2>1
  <2> QED
    BY <1>1, <2>2
<1> QED
  BY <1>1, <1>9, <1>10, <1>11

\* What the chain of the transport has to be.
Whole ==
  /\ {p \in byKind : KindOf(p) = "middleware"} = {chain[i] : i \in DOMAIN chain}
  /\ IsInjective(config.chain) => IsInjective(chain)

\* The slots are numbers, finitely many, each with a middleware, and a middleware
\* has a slot, one only if the config names none twice.
LEMMA SlotsHold ==
  ASSUME LifecycleInv
  PROVE  /\ Slots \in SUBSET Nat /\ IsFiniteSet(Slots)
         /\ \A s \in Slots : InSlot(s) \in byKind /\ KindOf(InSlot(s)) = "middleware"
         /\ \A p \in byKind : KindOf(p) = "middleware" => \E s \in Slots : InSlot(s) = p
         /\ IsInjective(config.chain) => \A s, t \in Slots : InSlot(s) = InSlot(t) => s = t
<1> DEFINE L == Len(config.chain)
           Named == {i \in DOMAIN config.chain : config.chain[i] \in DOMAIN byID}
           Behind == {L + p : p \in Unnamed}
<1>1. config \in Configs /\ byKind \subseteq Plugin
  BY DEF LifecycleInv, LifecycleTypeOK
<1>2. L \in Nat /\ DOMAIN config.chain = 1..L
  BY <1>1, LifecycleAssumption
<1>3. B \in Nat /\ Len(entries) \in Nat /\ Plugin = 1..(B + Len(entries)) /\ byKind \subseteq Nat \ {0}
  BY <1>1, PluginsRanked DEF Plugin
<1>4. Slots = Named \cup Behind
  BY DEF Slots
<1>5. Unnamed \subseteq byKind
  BY DEF Unnamed
<1>6. /\ \A i \in Named : i \in 1..L /\ InSlot(i) = byID[config.chain[i]]
      /\ \A p \in Unnamed : L + p \in Nat /\ L + p > L /\ InSlot(L + p) = p
  BY <1>2, <1>3, <1>5 DEF InSlot
<1>7. Slots \in SUBSET Nat
  BY <1>4, <1>6
<1>8. IsFiniteSet(Slots)
  <2>1. L + B + Len(entries) \in Nat
    BY <1>2, <1>3
  <2>2. \A s \in Slots : s <= L + B + Len(entries)
    BY <1>1, <1>2, <1>3, <1>4, <1>5, <1>6
  <2> QED
    BY <1>7, <2>1, <2>2, FS_BoundedSetOfNaturals
<1>9. ASSUME NEW i \in Named
      PROVE  /\ byID[config.chain[i]] \in byKind /\ IdOf(byID[config.chain[i]]) = config.chain[i]
             /\ KindOf(byID[config.chain[i]]) = "middleware"
  <2>1. PICK p : p = byID[config.chain[i]]
    OBVIOUS
  <2>2. p \in byKind /\ IdOf(p) = config.chain[i] /\ p \in Plugin
    BY <1>1, <2>1 DEF LifecycleInv, RegistryInv
  <2>3. KindOf(p) = "middleware"
    <3>1. CASE p <= B
      <4>1. p \in DOMAIN Builtins /\ Builtins[p].id = config.chain[i]
        BY <1>3, <2>2, <3>1, LifecycleAssumption DEF IdOf, B
      <4> QED
        BY <1>1, <3>1, <4>1, LifecycleAssumption DEF KindOf
    <3>2. CASE ~(p <= B)
      <4>1. p - B \in DOMAIN entries /\ entries[p - B].id = config.chain[i]
        BY <1>1, <1>3, <2>2, <3>2, LifecycleAssumption DEF IdOf, entries
      <4> QED
        BY <1>1, <3>2, <4>1, LifecycleAssumption DEF KindOf, entries
    <3> QED
      BY <3>1, <3>2
  <2> QED
    BY <2>1, <2>2, <2>3
<1>10. \A s \in Slots : InSlot(s) \in byKind /\ KindOf(InSlot(s)) = "middleware"
  BY <1>4, <1>5, <1>6, <1>9 DEF Unnamed
<1>11. ASSUME NEW p \in byKind, KindOf(p) = "middleware"
       PROVE  \E s \in Slots : InSlot(s) = p
  <2>1. CASE p \in Unnamed
    BY <1>4, <1>6, <2>1
  <2>2. CASE p \notin Unnamed
    <3>1. PICK i \in DOMAIN config.chain : config.chain[i] = IdOf(p)
      BY <1>11, <2>2 DEF Unnamed
    <3>2. i \in Named /\ byID[config.chain[i]] = p
      BY <3>1 DEF LifecycleInv, RegistryInv
    <3> QED
      BY <1>4, <1>6, <3>2
  <2> QED
    BY <2>1, <2>2
<1>12. ASSUME IsInjective(config.chain), NEW s \in Slots, NEW t \in Slots, InSlot(s) = InSlot(t)
       PROVE  s = t
  <2>1. ASSUME NEW i \in Named, NEW p \in Unnamed
        PROVE  InSlot(i) # InSlot(L + p)
    <3>1. IdOf(InSlot(i)) = config.chain[i]
      BY <1>6, <1>9
    <3>2. IdOf(InSlot(L + p)) # config.chain[i]
      BY <1>6 DEF Unnamed
    <3> QED
      BY <3>1, <3>2
  <2>2. CASE s \in Named /\ t \in Named
    <3>1. config.chain[s] = config.chain[t]
      BY <1>6, <1>9, <1>12, <2>2
    <3> QED
      BY <1>12, <2>2, <3>1 DEF IsInjective
  <2>3. CASE s \in Behind /\ t \in Behind
    <3>1. PICK p \in Unnamed, q \in Unnamed : s = L + p /\ t = L + q
      BY <2>3
    <3> QED
      BY <1>6, <1>12, <3>1
  <2> QED
    BY <1>4, <1>12, <2>1, <2>2, <2>3
<1> QED
  BY <1>7, <1>8, <1>10, <1>11, <1>12

\* The chain that Inject makes is whole.
LEMMA ChainMade ==
  ASSUME LifecycleInv
  PROVE  /\ {p \in byKind : KindOf(p) = "middleware"} = {Chain[i] : i \in DOMAIN Chain}
         /\ IsInjective(config.chain) => IsInjective(Chain)
<1>1. /\ Slots \in SUBSET Nat /\ IsFiniteSet(Slots)
      /\ \A s \in Slots : InSlot(s) \in byKind /\ KindOf(InSlot(s)) = "middleware"
      /\ \A p \in byKind : KindOf(p) = "middleware" => \E s \in Slots : InSlot(s) = p
      /\ IsInjective(config.chain) => \A s, t \in Slots : InSlot(s) = InSlot(t) => s = t
  BY SlotsHold
<1>2. /\ \A n \in 1..Cardinality(Slots) : Nth(n, Slots) \in Slots
      /\ \A n, m \in 1..Cardinality(Slots) : Nth(n, Slots) = Nth(m, Slots) => n = m
      /\ \A x \in Slots : \E n \in 1..Cardinality(Slots) : Nth(n, Slots) = x
  BY <1>1, Counting
<1>3. /\ DOMAIN Chain = 1..Cardinality(Slots)
      /\ \A n \in DOMAIN Chain : Chain[n] = InSlot(Nth(n, Slots))
  BY DEF Chain
<1>4. {p \in byKind : KindOf(p) = "middleware"} = {Chain[i] : i \in DOMAIN Chain}
  <2>1. ASSUME NEW p \in byKind, KindOf(p) = "middleware"
        PROVE  \E i \in DOMAIN Chain : Chain[i] = p
    <3>1. PICK s \in Slots : InSlot(s) = p
      BY <1>1, <2>1
    <3>2. PICK n \in 1..Cardinality(Slots) : Nth(n, Slots) = s
      BY <1>2
    <3> QED
      BY <1>3, <3>1, <3>2
  <2>2. ASSUME NEW i \in DOMAIN Chain
        PROVE  Chain[i] \in byKind /\ KindOf(Chain[i]) = "middleware"
    <3>1. PICK s \in Slots : Chain[i] = InSlot(s)
      BY <1>2, <1>3
    <3> QED
      BY <1>1, <3>1
  <2> QED
    BY <2>1, <2>2
<1>5. ASSUME IsInjective(config.chain)
      PROVE  IsInjective(Chain)
  <2>1. \A n, m \in DOMAIN Chain : Chain[n] = Chain[m] => n = m
    BY <1>1, <1>2, <1>3, <1>5
  <2> QED
    BY <2>1 DEF IsInjective
<1> QED
  BY <1>4, <1>5

\* From the injection on the chain is whole; what was killed before it has
\* nothing that brings messages.
ChainInv ==
  /\ stage \in {"handlers", "outbound", "services", "start", "gateway", "ready", "channels", "drain",
                "plugins", "undo"} => Whole
  /\ stage = "killed" => ChainIsWhole

\* The whole order of the kinds (OrderOfKinds): a running plugin stands on the
\* kinds before its own, what brings messages is served, and no middleware is
\* left out of their way or put into it twice.
THEOREM KindsInOrder == LifecycleSpec => []OrderOfKinds
<1>1. LifecycleInit => ChainInv
  BY DEF LifecycleInit, ChainInv
<1>2. ASSUME LifecycleInv, ServeInv, ChainInv
      PROVE  ChainIsWhole
  <2> SUFFICES ASSUME Ingress, stage # "killed"
               PROVE  Whole
    BY <1>2 DEF ChainInv, ChainIsWhole, Whole
  <2>1. stage \in {"start", "gateway", "ready", "channels", "drain", "plugins", "undo"}
    BY <1>2 DEF Ingress, ServeInv
  <2> QED
    BY <1>2, <2>1 DEF ChainInv
<1>3. ASSUME LifecycleInv, ServeInv, ChainInv, [LifecycleNext]_lifecycleVars
      PROVE  ChainInv'
  <2>1. ASSUME UNCHANGED <<config, byID, byKind, chain>>
        PROVE  /\ Whole' <=> Whole
               /\ UNCHANGED <<running, scheduler, gateway>> => (ChainIsWhole' <=> ChainIsWhole)
    <3>1. Whole' <=> Whole
      BY <2>1, NamesStay DEF Whole
    <3>2. ASSUME UNCHANGED <<running, scheduler, gateway>>
          PROVE  ChainIsWhole' <=> ChainIsWhole
      <4>1. Channels' = Channels
        BY <2>1, NamesStay DEF Channels
      <4>2. Ingress' <=> Ingress
        BY <3>2, <4>1 DEF Ingress
      <4> QED
        BY <3>1, <4>2 DEF ChainIsWhole, Whole
    <3> QED
      BY <3>1, <3>2
  <2>2. CASE LoadConfig \/ LoadPlugin \/ LoadEnds \/ InitPlugin \/ InitEnds
    <3>1. stage' \in {"load", "init", "wire", "exit"}
      BY <2>2 DEF LoadConfig, LoadPlugin, LoadEnds, InitPlugin, InitEnds
    <3> QED
      BY <3>1 DEF ChainInv
  <2>3. CASE (\E s \in {"load", "init", "wire", "outbound", "services"} : Fails(s)) \/ Exit
    <3>1. stage' = "exit"
      BY <2>3 DEF Fails, Exit
    <3> QED
      BY <3>1 DEF ChainInv
  <2>4. CASE Inject
    <3>1. UNCHANGED <<config, byKind>> /\ chain' = Chain /\ stage' = "handlers"
      BY <2>4 DEF Inject, registryVars
    <3>2. /\ {p \in byKind : KindOf(p) = "middleware"} = {Chain[i] : i \in DOMAIN Chain}
          /\ IsInjective(config.chain) => IsInjective(Chain)
      BY <1>3, ChainMade
    <3>3. PICK c : c = Chain
      OBVIOUS
    <3>4. \A p : KindOf(p)' = KindOf(p)
      BY <3>1, NamesStay
    <3>5. Whole'
      BY <3>1, <3>2, <3>3, <3>4 DEF Whole
    <3> QED
      BY <3>1, <3>5 DEF ChainInv
  <2>5. CASE Killed
    <3>1. UNCHANGED <<config, byID, byKind, chain, running, scheduler, gateway>> /\ stage' = "killed"
      BY <2>5 DEF Killed, registryVars, wiringVars, runVars
    <3> QED
      BY <1>2, <1>3, <2>1, <3>1 DEF ChainInv
  <2>6. CASE \/ SetHandlers \/ SubscribeOutbound \/ SubscribeInbound
             \/ StartPlugin \/ StartFails \/ StartScheduler \/ StartGateway \/ StopPlugin
             \/ Signal \/ StopScheduler \/ DrainLoop
             \/ \E p \in Plugin : StopChannel(p)
    <3>1. /\ UNCHANGED <<config, byID, byKind, chain>> /\ stage' # "killed"
          /\ stage \in {"handlers", "outbound", "services", "start", "gateway", "ready", "channels", "drain",
                        "plugins", "undo"}
      BY <2>6 DEF SetHandlers, SubscribeOutbound, SubscribeInbound, StartPlugin, StartFails, StartScheduler,
                  StartGateway, StopPlugin, Signal, StopScheduler, DrainLoop, StopChannel, registryVars,
                  wiringVars
    <3> QED
      BY <1>3, <2>1, <3>1 DEF ChainInv
  <2>7. CASE UNCHANGED lifecycleVars
    <3>1. UNCHANGED <<stage, config, byID, byKind, chain, running, scheduler, gateway>>
      BY <2>7 DEF lifecycleVars
    <3> QED
      BY <1>3, <2>1, <3>1 DEF ChainInv
  <2> QED
    BY <1>3, <2>2, <2>3, <2>4, <2>5, <2>6, <2>7 DEF LifecycleNext
<1>4. LifecycleSpec => [](LifecycleInv /\ ServeInv)
  BY ServedInvariant
<1>5. ASSUME LifecycleInv, ServeInv, ChainInv
      PROVE  OrderOfKinds
  BY <1>2, <1>5, GroundStands, IngressStands DEF OrderOfKinds
<1> QED
  BY <1>1, <1>3, <1>4, <1>5, PTL DEF LifecycleSpec
=============================================================================
