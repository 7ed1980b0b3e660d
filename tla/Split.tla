------------------------------- MODULE Split -------------------------------
(***************************************************************************)
(* splitMessage, the same function in both channel plugins.  A message is  *)
(* a sequence of bytes; Go's LastIndex counts from zero.                   *)
(***************************************************************************)
EXTENDS Naturals, Sequences, SequencesExt

\* The places where s has the separator, after which it may be cut; one at the
\* very beginning does not count.
Cuts(s, separator) ==
  {k + Len(separator) - 1 : k \in {k \in 2..(Len(s) - Len(separator) + 1) :
     SubSeq(s, k, k + Len(separator) - 1) = separator}}

Paragraph == <<"nl", "nl">>
Sentence == <<".", " ">>
Line == <<"nl">>

\* The last paragraph ends the part, or the last sentence, or line.
CutAt(chunk) ==
  CASE Cuts(chunk, Paragraph) # {} -> Max(Cuts(chunk, Paragraph))
    [] Cuts(chunk, Paragraph) = {} /\ Cuts(chunk, Sentence) # {} -> Max(Cuts(chunk, Sentence))
    [] Cuts(chunk, Paragraph) = {} /\ Cuts(chunk, Sentence) = {} /\ Cuts(chunk, Line) # {} -> Max(Cuts(chunk, Line))
    [] OTHER -> Len(chunk)

RECURSIVE splitMessage(_, _)
splitMessage(content, maxLen) ==
  IF Len(content) <= maxLen THEN <<content>>
  ELSE LET cut == CutAt(SubSeq(content, 1, maxLen)) IN
       <<SubSeq(content, 1, cut)>> \o splitMessage(SubSeq(content, cut + 1, Len(content)), maxLen)

\* The parts are the message, each fits, none is empty unless the message is,
\* and one is shorter than it might be only to end with a separator.
SplitsWell(content, maxLen) ==
  LET parts == splitMessage(content, maxLen) IN
  /\ FlattenSeq(parts) = content
  /\ \A k \in DOMAIN parts :
       /\ Len(parts[k]) \in (IF content = <<>> THEN 0 ELSE 1)..maxLen
       /\ k < Len(parts) /\ Len(parts[k]) < maxLen =>
            \E s \in {Paragraph, Sentence, Line} : IsSuffix(s, parts[k])
=============================================================================
