------------------------------ MODULE Pairing ------------------------------
(***************************************************************************)
(* internal/translate/pairing.go: RepairToolPairing, which the Chat and    *)
(* the Responses input conversion run over the messages they made.  A      *)
(* client of either endpoint resends its whole history every turn; what    *)
(* it sends may put notices between a call and its result, leave calls     *)
(* unanswered, answer twice, or answer what was never called.              *)
(*                                                                         *)
(* A block is content (text, thinking, an image, ...), a call, or a        *)
(* result; `no' numbers what the client sent and stands for its content.   *)
(* Both conversions drop calls and results without an id, send only        *)
(* messages with blocks, and know no roles but user and assistant.         *)
(***************************************************************************)
EXTENDS Naturals, FiniteSets, SequencesExt

NoId == "noId"

Message(role, blocks) == [role |-> role, blocks |-> blocks]

\* `parts' is what a result holds, `cc' the client's cache marker.
Block(kind, id, no, parts, cc) ==
  [kind |-> kind, id |-> id, no |-> no, parts |-> parts, cc |-> cc]
Content(kind, no)     == Block(kind, NoId, no, <<>>, FALSE)
Call(id, no)          == Block("tool_use", id, no, <<>>, FALSE)
Result(id, no, parts) == Block("tool_result", id, no, parts, FALSE)

\* The elements of s that are in S, in their order.
Select(s, S) ==
  LET from[n \in 0..Len(s)] ==
        IF n = 0 THEN <<>> ELSE IF s[n] \in S THEN Append(from[n - 1], s[n]) ELSE from[n - 1]
  IN from[Len(s)]

Blocks(msgs) == FlattenSeq([i \in DOMAIN msgs |-> msgs[i].blocks])
OfKind(blocks, kind) == Select(blocks, {b \in ToSet(blocks) : b.kind = kind})
Except(blocks, kind) == Select(blocks, {b \in ToSet(blocks) : b.kind # kind})
WithIds(blocks, ids) == Select(blocks, {b \in ToSet(blocks) : b.id \in ids})
IdsOf(blocks) == {blocks[i].id : i \in DOMAIN blocks}

Results(msgs)    == OfKind(Blocks(msgs), "tool_result")
Declared(msgs)   == IdsOf(OfKind(Blocks(msgs), "tool_use"))

-----------------------------------------------------------------------------
\* mergeSameRole: neighbours of one role become one message.
Merged(out, m) ==
  IF out # <<>> /\ Last(out).role = m.role
  THEN [out EXCEPT ![Len(out)] = Message(m.role, @.blocks \o m.blocks)]
  ELSE Append(out, m)

MergeSameRole(msgs) ==
  LET from[n \in 0..Len(msgs)] == IF n = 0 THEN <<>> ELSE Merged(from[n - 1], msgs[n])
  IN from[Len(msgs)]

\* Mutant: the first result of a call wins.
FirstResult(results, id) == Head(WithIds(results, {id}))

\* The index of results: a later one with the same id overwrites.
ResultFor(results, id) == Last(WithIds(results, {id}))

Duplicates(results) ==
  {<<"duplicate", results[i].id>> :
     i \in {i \in DOMAIN results : \E j \in 1..(i - 1) : results[j].id = results[i].id}}

\* orphanWarnings.
Orphans(results, declared) == {<<"orphan", id>> : id \in IdsOf(results) \ declared}

Unanswered(msgs, results) == {<<"unanswered", id>> : id \in Declared(msgs) \ IdsOf(results)}

\* Mutant: the calls are put before the other blocks.
CallsFirst(m, results) ==
  LET kept == WithIds(OfKind(m.blocks, "tool_use"), IdsOf(results))
  IN IF kept = <<>> THEN <<m>>
     ELSE <<Message(m.role, kept \o Except(m.blocks, "tool_use")),
            Message("user", [i \in DOMAIN kept |-> ResultFor(results, kept[i].id)])>>

\* pairAssistant: the answered calls move behind the other blocks, and their
\* results follow in a message of their own.
PairAssistant(m, results) ==
  LET calls  == OfKind(m.blocks, "tool_use")
      others == Except(m.blocks, "tool_use")
      kept   == WithIds(calls, IdsOf(results))
  IN CASE calls = <<>> -> <<m>>
       [] calls # <<>> /\ kept = <<>> /\ others = <<>> -> <<>>
       [] calls # <<>> /\ kept = <<>> /\ others # <<>> -> <<Message(m.role, others)>>
       [] kept # <<>> ->
            <<Message(m.role, others \o kept),
              Message("user", [i \in DOMAIN kept |-> ResultFor(results, kept[i].id)])>>

\* stripToolResults: results have moved behind their calls.
StripToolResults(m) ==
  LET kept == Except(m.blocks, "tool_result")
  IN IF kept = <<>> THEN <<>> ELSE <<Message(m.role, kept)>>

\* pairToolCalls.
PairToolCalls(msgs) ==
  LET results == Results(msgs)
  IN FlattenSeq([i \in DOMAIN msgs |->
                   IF msgs[i].role = "assistant" THEN PairAssistant(msgs[i], results)
                   ELSE StripToolResults(msgs[i])])

\* Mutant: the pieces that pairing cut are not merged again.
RepairedOnce(msgs) == PairToolCalls(MergeSameRole(msgs))

RepairToolPairing(msgs) == MergeSameRole(PairToolCalls(MergeSameRole(msgs)))

Warnings(msgs) ==
  Duplicates(Results(msgs)) \cup Orphans(Results(msgs), Declared(msgs))
    \cup Unanswered(msgs, Results(msgs))

-----------------------------------------------------------------------------
IdSeq(blocks) == [i \in DOMAIN blocks |-> blocks[i].id]

\* The shape the upstream asks for: roles alternate; calls come last in their
\* message; the next message starts with their results, in their order, and
\* no other message has results.
WellFormed(msgs) ==
  \A i \in DOMAIN msgs :
    LET blocks == msgs[i].blocks
        due    == IF i = 1 THEN <<>> ELSE OfKind(msgs[i - 1].blocks, "tool_use")
    IN /\ i > 1 => msgs[i].role # msgs[i - 1].role
       /\ blocks = IF msgs[i].role = "assistant"
                   THEN Except(blocks, "tool_use") \o OfKind(blocks, "tool_use")
                   ELSE OfKind(blocks, "tool_result") \o Except(blocks, "tool_result")
       /\ IdSeq(OfKind(blocks, "tool_result")) = IdSeq(due)
       /\ i = Len(msgs) => OfKind(blocks, "tool_use") = <<>>
=============================================================================
