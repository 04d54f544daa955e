---------------------------- MODULE ResponsesOut ----------------------------
(***************************************************************************)
(* The Responses state machine under any disciplined stream of events      *)
(* (what StreamTranslator is proved to produce), with errors anywhere and  *)
(* a tool input in fragments, which the code is written for although the   *)
(* translator sends it whole.                                              *)
(***************************************************************************)
EXTENDS ResponsesCodec, Positions

CONSTANTS
  Texts,         \* chunks of text and of reasoning
  ToolKinds,     \* what the tools were before the request was degraded:
                 \* "function_call", "custom_tool_call", "tool_search_call"
  ToolInputs,    \* texts of tool inputs, as sequences of runes
  StopReasons,   \* of message_delta
  MaxEvents      \* bound on the events of one stream

ASSUME KindsAssumption ==
  ToolKinds \subseteq {"function_call", "custom_tool_call", "tool_search_call"}

ASSUME TextsAssumption == \A t \in Texts \cup ToolInputs : t \in Seq(Range(t))

VARIABLES
  o,       \* the responsesOut
  block,   \* source: kind of the open block, None if none
  blocks,  \* source: blocks opened so far, the open one has the last number
  left,    \* source: runes of the open tool's input still to come
  calls,   \* history: the tool calls of the source, block number and whole input
  fed,     \* history: the events fed, one per call of feed
  ended    \* the caller called Finish

sourceVars    == <<block, blocks, left, calls, ended>>
responsesVars == <<o, fed, sourceVars>>

---------------------------------------------------------------------------
(* The source. *)

Init ==
  /\ o = ResponsesFeed(NewResponsesOut, MessageStart)
  /\ block = None /\ blocks = 0 /\ left = <<>> /\ calls = {}
  /\ fed = <<>> /\ ended = FALSE

\* ResponsesEncoder.Feed.
Takes(e) ==
  /\ ~ended /\ Len(fed) < MaxEvents
  /\ fed' = Append(fed, [event |-> e, late |-> o.terminated])
  /\ o' = ResponsesFeed(o, e)

FeedBlockStart(kind) ==
  /\ block = None /\ Takes(BlockStart(blocks, kind))
  /\ block' = kind /\ blocks' = blocks + 1
  /\ UNCHANGED <<left, calls, ended>>

\* The start of the block of a tool that was a `kind' in the request.
ToolStart(i, kind) ==
  [name |-> "content_block_start", index |-> i, kind |-> "tool_use", tool |-> kind]

FeedToolStart(kind, input) ==
  /\ block = None /\ Takes(ToolStart(blocks, kind))
  /\ block' = "tool_use" /\ blocks' = blocks + 1 /\ left' = input
  /\ calls' = calls \cup {[call |-> blocks, input |-> input]}
  /\ UNCHANGED ended

FeedDelta(kind, chunk) ==
  /\ block = kind
  /\ Takes(BlockDelta(blocks - 1, IF kind = "text" THEN "text_delta" ELSE "thinking_delta", chunk))
  /\ UNCHANGED sourceVars

FeedSignature ==
  /\ block = "thinking" /\ Takes(BlockDelta(blocks - 1, "signature_delta", <<"signed">>))
  /\ UNCHANGED sourceVars

FeedFragment(n) ==
  /\ block = "tool_use" /\ n <= Len(left)
  /\ Takes(BlockDelta(blocks - 1, "input_json_delta", SubSeq(left, 1, n)))
  /\ left' = SubSeq(left, n + 1, Len(left))
  /\ UNCHANGED <<block, blocks, calls, ended>>

FeedStop ==
  /\ block # None /\ left = <<>> /\ Takes(BlockStop(blocks - 1))
  /\ block' = None
  /\ UNCHANGED <<blocks, left, calls, ended>>

\* An error of the upstream, after which the stream goes on, or one the
\* pipeline makes up for a read error.
FeedError ==
  /\ Takes(ErrorEvent("message"))
  /\ UNCHANGED sourceVars

\* End of stream: message_delta and message_stop, unless there was an error,
\* and Finish in any case.
EndOfStream(reason) ==
  /\ ~ended /\ ended' = TRUE
  /\ \/ o.failed /\ o' = FinishResponse(o)
     \/ /\ ~o.failed /\ block = None
        /\ o' = FinishResponse(ResponsesFeed(ResponsesFeed(o, MessageDelta(reason, NoTokens)),
                                             MessageStop))
  /\ UNCHANGED <<fed, block, blocks, left, calls>>

Next ==
  \/ FeedSignature \/ FeedStop \/ FeedError
  \/ \E kind \in {"text", "thinking"} :
       FeedBlockStart(kind) \/ \E chunk \in Texts : FeedDelta(kind, chunk)
  \/ \E kind \in ToolKinds, input \in ToolInputs : FeedToolStart(kind, input)
  \/ \E n \in 1..Len(left) : FeedFragment(n)
  \/ \E reason \in StopReasons : EndOfStream(reason)

Spec == Init /\ [][Next]_responsesVars

---------------------------------------------------------------------------
(* Properties. *)

Sent == o.frames

At(fs, type) == {i \in 1..Len(fs) : fs[i].type = type}

ItemsAdded(fs) == At(fs, "output_item.added")
ItemsDone(fs)  == At(fs, "output_item.done")

\* The numbers of the events are 0, 1, 2, ..., whatever path they were sent on.
SequenceContiguous == \A i \in 1..Len(Sent) : Sent[i].sequence_number = i - 1

\* The types of the events that are about no item.
AboutResponse == {"created", "in_progress", "completed", "incomplete", "failed"}

\* Items do not overlap: every event carries the number of the items done
\* before it, and one about an item comes when just one more is announced;
\* an item is done under the id it was announced with.
ItemsInTurn(fs) ==
  /\ \A i \in 1..Len(fs) :
       /\ fs[i].index = Before(ItemsDone(fs), i)
       /\ fs[i].type \notin AboutResponse => Place(ItemsAdded(fs), i) = fs[i].index + 1
  /\ \A i \in ItemsAdded(fs), k \in ItemsDone(fs) : fs[i].index = fs[k].index => fs[k].data.id = fs[i].data

ItemsPaired ==
  /\ ItemsInTurn(Sent)
  /\ Cardinality(ItemsAdded(Sent)) = Cardinality(ItemsDone(Sent)) + IF o.open = NoItem THEN 0 ELSE 1

\* The events about a part of a message and about the summary of a reasoning.
TextPart    == [added |-> "content_part.added", delta |-> "output_text.delta",
                text |-> "output_text.done", done |-> "content_part.done"]
SummaryPart == [added |-> "reasoning_summary_part.added", delta |-> "reasoning_summary_text.delta",
                text |-> "reasoning_summary_text.done", done |-> "reasoning_summary_part.done"]

\* The events of a type about part p of item i.
OfPart(fs, type, i, p) == {k \in At(fs, type) : fs[k].index = i /\ fs[k].part = p}

\* The part is announced by the event at a, before any of its text, and closed
\* at most once, after its full text, which is the deltas put together.
PartInOrder(fs, kind, i, p, a) ==
  LET deltas == OfPart(fs, kind.delta, i, p)
      texts  == OfPart(fs, kind.text, i, p)
      closes == OfPart(fs, kind.done, i, p)
  IN /\ OfPart(fs, kind.added, i, p) = {a}
     /\ \A k \in deltas \cup texts \cup closes : a < k
     /\ \A c \in closes : closes = {c} /\ texts # {}
     /\ \A t \in texts :
          /\ texts = {t} /\ closes # {} /\ \A k \in deltas : k < t
          /\ \A c \in closes : t < c /\ fs[c].data = fs[t].data
          /\ fs[t].data = Data(fs, deltas)

\* Every part is announced once and goes the same way; the parts of an item are
\* numbered from 0, one after the other, and closed before the item is, also
\* when an error cuts them short.  No text belongs to a part never announced.
PartsPaired ==
  \A kind \in {TextPart, SummaryPart} :
    /\ \A a \in At(Sent, kind.added) :
         LET i == Sent[a].index  p == Sent[a].part
         IN /\ PartInOrder(Sent, kind, i, p, a)
            /\ p > 0 => OfPart(Sent, kind.done, i, p - 1) # {}
            /\ (\E k \in ItemsDone(Sent) : Sent[k].index = i) => OfPart(Sent, kind.done, i, p) # {}
    /\ \A type \in {kind.delta, kind.text, kind.done} : \A k \in At(Sent, type) :
         OfPart(Sent, kind.added, Sent[k].index, Sent[k].part) # {}

\* What a strict client checks: the three constraints together, on every prefix
\* of every stream.
EventsPaired == SequenceContiguous /\ ItemsPaired /\ PartsPaired

\* The events about item i of these types.
OfItem(fs, types, i) == {k \in 1..Len(fs) : fs[k].type \in types /\ fs[k].index = i}

ToolDeltas == {"function_call_arguments.delta", "custom_tool_call_input.delta"}
ToolDones  == {"function_call_arguments.done", "custom_tool_call_input.done"}

\* The call, of those the source made, that the item stands for; and its input
\* as the client is to get it.
CallOf(item, made) == {c \in made : item.id = <<item.kind, c.call>>}

WholeInput(item, c) == IF item.kind = "custom_tool_call" THEN FinalInput(c.input) ELSE c.input

\* Where an object ends the input ends, or is none: nothing comes after it that
\* is no JSON.
Steady(input) == \A n \in 0..Len(input) : IsObject(SubSeq(input, 1, n)) => IsObject(input)

\* The text of an object that the input began with was told before the whole.
ToldAhead(told, text, input) ==
  \E n \in 2..Len(input) : /\ IsObject(SubSeq(input, 1, n))
                           /\ told = SubSeq(input, 2, n - 1) \o text

\* The fragments told make up the content of an item.
MakesUp(told, item, made) ==
  \/ item.kind \notin {"function_call", "custom_tool_call"}
  \/ item.content = told
  \/ /\ item.kind = "custom_tool_call"
     /\ \E c \in CallOf(item, made) : ~Steady(c.input) /\ ToldAhead(told, item.content, c.input)

\* What is told of the input of a tool call, when the item is done at d.
InputTold(fs, made, d) ==
  LET item  == fs[d].data
      dones == OfItem(fs, ToolDones, fs[d].index)
  IN /\ \A k \in dones : k < d /\ fs[k].data = item.content
     /\ dones # {} => \E c \in CallOf(item, made) : item.content = WholeInput(item, c)
     /\ MakesUp(Data(fs, OfItem(fs, ToolDeltas, fs[d].index)), item, made)

\* The input told at the end is what the finished item carries, and it is the
\* whole input of the call, an object or a truncated one, in whatever fragments
\* it came.  The fragments sent make it up; only for a custom tool whose input goes
\* on after an object (closeCustom) may the text of that object come ahead of all
\* of it, told once more.
ToolInputWhole == \A d \in ItemsDone(Sent) : InputTold(Sent, calls, d)

\* A stream that was ended, or that an error reached, has one terminal event,
\* its last; it lists the items that were done, and says failed exactly when
\* an error came first.
Terminals(fs) == At(fs, "completed") \cup At(fs, "incomplete") \cup At(fs, "failed")

ErrorFed == \E k \in 1..Len(fed) : fed[k].event.name = "error"

\* The output is the items done, in order.
ItemsListed(output, fs) ==
  /\ Len(output) = Cardinality(ItemsDone(fs))
  /\ \A d \in ItemsDone(fs) : output[Place(ItemsDone(fs), d)] = fs[d].data

TerminalEvent ==
  /\ ended \/ ErrorFed => Terminals(Sent) # {}
  /\ \A k \in Terminals(Sent) :
       /\ k = Len(Sent)
       /\ Sent[k].type = "failed" <=> ErrorFed
       /\ Cardinality(ItemsAdded(Sent)) = Cardinality(ItemsDone(Sent))
       /\ ItemsListed(Sent[k].data.output, Sent)

\* No content is lost on the way: until the terminal event, the text and the
\* reasoning fed are the text and the reasoning sent, in order.
Taken(delta) ==
  {k \in 1..Len(fed) : IsDelta(fed[k].event) /\ fed[k].event.delta = delta /\ ~fed[k].late}

ContentFed == [k \in 1..Len(fed) |->
                 [data |-> IF IsDelta(fed[k].event) THEN fed[k].event.payload ELSE <<>>]]

ContentKept ==
  /\ Data(ContentFed, Taken("text_delta")) = Data(Sent, At(Sent, "output_text.delta"))
  /\ Data(ContentFed, Taken("thinking_delta")) =
       Data(Sent, At(Sent, "reasoning_summary_text.delta"))
=============================================================================
