------------------------------- MODULE Stream -------------------------------
(***************************************************************************)
(* What a turn is told of the answer of an OpenAI-compatible endpoint: the *)
(* provider errors, and the chunks of a stream put together.               *)
(***************************************************************************)
EXTENDS Naturals, Sequences, FiniteSets, SequencesExt

\* What a chunk does not carry.
Nil == "nil"

NewAccumulator == [content |-> <<>>, calls |-> <<>>, finish |-> Nil]

NewCall == [id |-> Nil, name |-> Nil, arguments |-> <<>>]

Or(new, old) == IF new = Nil THEN old ELSE new

\* One delta of a tool call: the calls are a function on the indices seen.
AddDelta(calls, d) ==
  LET call == IF d.index \in DOMAIN calls THEN calls[d.index] ELSE NewCall
      grown == [id |-> Or(d.id, call.id), name |-> Or(d.name, call.name),
                arguments |-> call.arguments \o d.arguments]
  IN [i \in DOMAIN calls \cup {d.index} |-> IF i = d.index THEN grown ELSE calls[i]]

\* The usage of tokens is left out.
ProcessChunk(a, chunk) ==
  [content |-> a.content \o chunk.content,
   calls |-> FoldLeft(AddDelta, a.calls, chunk.deltas),
   finish |-> Or(chunk.finish, a.finish)]

\* The calls of the indices below their number, in order; one that came
\* without arguments gets an empty object.
Result(a) ==
  LET indices == {i \in DOMAIN a.calls : i < Cardinality(DOMAIN a.calls)}
      call(i) == [a.calls[i] EXCEPT !.arguments = IF @ = <<>> THEN <<"{}">> ELSE @]
  IN [content |-> a.content, finish |-> a.finish,
      calls |-> [k \in 1..Cardinality(indices) |-> call(SetToSortSeq(indices, <)[k])]]

\* The lines up to "data: [DONE]", or to the end of the body; what is not a
\* chunk (comments, events, what is malformed) is skipped.
ParseStream(lines) ==
  LET ends == SelectInSeq(lines, LAMBDA l : l.type = "done")
      read == IF ends = 0 THEN lines ELSE SubSeq(lines, 1, ends - 1)
      chunks == SelectSeq(read, LAMBDA l : l.type = "chunk")
  IN Result(FoldLeft(ProcessChunk, NewAccumulator, chunks))

\* Plugin.Complete.  Only "too many requests" carries a delay, in seconds or as
\* a date; a date that has passed gives none that counts.
PluginComplete(reply) ==
  CASE reply.status = 0 -> [type |-> "error"]
    [] reply.status \notin {0, 200} ->
         [type |-> "provider error", retryAfter |-> IF reply.status = 429 THEN reply.retryAfter ELSE 0]
    [] reply.status = 200 /\ reply.broken -> [type |-> "error"]
    [] reply.status = 200 /\ ~reply.broken -> [type |-> "response", of |-> ParseStream(reply.lines)]

-----------------------------------------------------------------------------
(* The deltas an endpoint may send for the calls it means: any fragments, in *)
(* an order that keeps those of each call.                                   *)

Meant(deltas, i) ==
  LET of == SelectSeq(deltas, LAMBDA d : d.index = i)
  IN [id |-> of[1].id, name |-> of[1].name,
      arguments |-> LET all == FlattenSeq([k \in DOMAIN of |-> of[k].arguments])
                    IN IF all = <<>> THEN <<"{}">> ELSE all]

Chunk(deltas, finish) == [type |-> "chunk", content |-> <<>>, deltas |-> deltas, finish |-> finish]

\* However the deltas are spread over chunks, every call comes out whole and in
\* its place, if the indices are 0, 1 and so on; what follows the end is not
\* read, what is not a chunk does not matter, and a body that breaks off
\* between two lines passes for a whole one.
StreamsWell(deltas, cut) ==
  LET first == SubSeq(deltas, 1, cut)
      second == SubSeq(deltas, cut + 1, Len(deltas))
      n == Cardinality({deltas[k].index : k \in DOMAIN deltas})
      lines == <<Chunk(first, Nil), [type |-> "comment"], Chunk(second, "tool_calls"), [type |-> "done"],
                 Chunk(deltas, Nil)>>
      response(l) == PluginComplete([status |-> 200, broken |-> FALSE, lines |-> l]).of
  IN /\ {deltas[k].index : k \in DOMAIN deltas} = 0..(n - 1)
     /\ \A k \in DOMAIN deltas : deltas[k].id = Nil => \E j \in 1..(k - 1) :
          deltas[j].index = deltas[k].index /\ deltas[j].id # Nil
     =>
       /\ response(lines).calls = [k \in 1..n |-> Meant(deltas, k - 1)]
       /\ response(lines).finish = "tool_calls"
       /\ response(SubSeq(lines, 1, 3)) = response(lines)

\* A call whose index leaves a gap is lost.
GapLoses(deltas) ==
  (\A k \in DOMAIN deltas : deltas[k].index > 0) /\ Len(deltas) = 1 =>
    ParseStream(<<Chunk(deltas, Nil)>>).calls = <<>>
=============================================================================
