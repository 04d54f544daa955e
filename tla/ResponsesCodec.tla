-------------------------- MODULE ResponsesCodec --------------------------
(***************************************************************************)
(* internal/translate/respout.go: responsesOut, the state machine behind   *)
(* the streaming encoder and the aggregator of the Responses endpoint.  It *)
(* takes Anthropic events and gives Responses events, which a strict       *)
(* client pairs by index, part and sequence number.                        *)
(*                                                                         *)
(* It is a record; each of its methods is an operator that gives the       *)
(* record after the call, with the events it returned added to `frames'.   *)
(* A chunk of text is a sequence, a fragment of a tool input a sequence of *)
(* runes.                                                                  *)
(***************************************************************************)
EXTENDS Integers, Sequences, SequencesExt, Events, Usage, Fragments

---------------------------------------------------------------------------
NoItem == [kind |-> None]

NewItem(kind, index, id) ==
  [kind |-> kind, index |-> index, id |-> id, contentIndex |-> 0, partOpen |-> FALSE,
   partText |-> <<>>, parts |-> <<>>, thinking |-> <<>>, signature |-> <<>>,
   arguments |-> <<>>, unwrapped |-> <<>>, inputEmitted |-> 0]

NewResponsesOut ==
  [seq |-> 0, outputIndex |-> 0, output |-> <<>>, open |-> NoItem, stopReason |-> None,
   usage |-> NoTokens, started |-> FALSE, terminated |-> FALSE, failed |-> FALSE, errMsg |-> None,
   messageSeq |-> 0, frames |-> <<>>]

\* An event with the next sequence number, about the item being written.
Emit(r, type, part, data) ==
  [r EXCEPT !.seq = @ + 1,
            !.frames = Append(@, [sequence_number |-> r.seq, type |-> type,
                         index |-> r.outputIndex, part |-> part, data |-> data])]

\* The same for each element of data.
EmitEach(r, type, datas) ==
  [r EXCEPT !.seq = @ + Len(datas),
            !.frames = @ \o [k \in DOMAIN datas |->
                [sequence_number |-> r.seq + k - 1, type |-> type,
                 index |-> r.outputIndex, part |-> 0, data |-> datas[k]]]]

---------------------------------------------------------------------------
(* Closing. *)

\* toolSearchArguments: an object, the empty one when there is none.
IsObject(raw) == Len(raw) >= 2 /\ raw[1] = "{" /\ raw[Len(raw)] = "}"
SearchArguments(raw) == IF IsObject(raw) THEN raw ELSE <<"{", "}">>

\* doneItem: the final shape of an item.
DoneItem(item) ==
  LET Done(content) == [kind |-> item.kind, id |-> item.id, content |-> content,
                        encrypted |-> item.signature]
  IN CASE item.kind = "message"          -> Done(item.parts)
       [] item.kind = "reasoning"        -> Done(item.thinking)
       [] item.kind = "function_call"    -> Done(item.arguments)
       [] item.kind = "custom_tool_call" -> Done(item.unwrapped)
       [] item.kind = "tool_search_call" -> Done(SearchArguments(item.arguments))

\* closeTextPart: the text is told in full, the next part gets the next index.
CloseTextPart(r) ==
  IF r.open.kind # "message" \/ ~r.open.partOpen THEN r
  ELSE LET i == r.open.contentIndex
           t == r.open.partText
       IN [Emit(Emit(r, "output_text.done", i, t), "content_part.done", i, t)
             EXCEPT !.open.parts = Append(@, t), !.open.partText = <<>>,
                    !.open.partOpen = FALSE, !.open.contentIndex = i + 1]

CloseReasoningSummary(r) ==
  Emit(Emit(r, "reasoning_summary_text.done", 0, r.open.thinking),
       "reasoning_summary_part.done", 0, r.open.thinking)

\* What is still open inside the item, on whatever path it is closed.
CloseParts(r) ==
  CASE r.open.kind = "message"   -> CloseTextPart(r)
    [] r.open.kind = "reasoning" -> CloseReasoningSummary(r)
    [] OTHER                     -> r

\* closeOpen: the parts first, then the item, which joins the output.
CloseOpen(r) ==
  IF r.open = NoItem THEN r
  ELSE LET c == CloseParts(r)
       IN [Emit(c, "output_item.done", 0, DoneItem(c.open))
             EXCEPT !.output = Append(@, DoneItem(c.open)),
                    !.outputIndex = @ + 1, !.open = NoItem]

TerminalStatus(r) ==
  CASE r.failed                                                  -> "failed"
    [] ~r.failed /\ r.stopReason \in {"max_tokens", "refusal"}    -> "incomplete"
    [] ~r.failed /\ r.stopReason \notin {"max_tokens", "refusal"} -> "completed"

\* Mutant: Finish ends the stream whatever has happened before.
TerminatedIgnored(r) == FALSE

\* The early return of feed, fail and finish.
Terminated(r) == r.terminated

\* finish: the open item is closed, the terminal event carries the output.
FinishResponse(r) ==
  IF Terminated(r) THEN r
  ELSE LET c == CloseOpen([r EXCEPT !.terminated = TRUE])
       IN Emit(c, TerminalStatus(c), 0,
               [output |-> c.output, usage |-> ResponsesUsageFromDelta(c.usage)])

Fail(r, m) ==
  IF Terminated(r) THEN r ELSE FinishResponse([r EXCEPT !.failed = TRUE, !.errMsg = m])

---------------------------------------------------------------------------
(* Opening. *)

\* message_start: created and in_progress.
StartResponse(r) ==
  IF r.started THEN r
  ELSE Emit(Emit([r EXCEPT !.started = TRUE], "created", 0, None), "in_progress", 0, None)

Added(r, item) == Emit([r EXCEPT !.open = item], "output_item.added", 0, item.id)

\* Mutant: the open item is replaced, not closed.
BeforeStartForgets(r) == r

\* An item is announced only when the open one is closed.
BeforeStart(r) == CloseOpen(r)

\* startTextPart: a part of the open message, or of a new one.
StartTextPart(r) ==
  LET c == IF r.open.kind # "message"
           THEN LET d == BeforeStart(r)
                IN Added([d EXCEPT !.messageSeq = @ + 1],
                         NewItem("message", d.outputIndex, <<"msg", d.messageSeq>>))
           ELSE CloseTextPart(r)
  IN Emit([c EXCEPT !.open.partOpen = TRUE], "content_part.added", c.open.contentIndex, None)

StartReasoning(r) ==
  LET c == BeforeStart(r)
  IN Emit(Added(c, NewItem("reasoning", c.outputIndex, <<"reasoning">>)),
          "reasoning_summary_part.added", 0, None)

\* startToolCall: the kind of item the tool was in the request.
StartToolCall(r, kind, call) ==
  LET c == BeforeStart(r) IN Added(c, NewItem(kind, c.outputIndex, <<kind, call>>))

---------------------------------------------------------------------------
(* Tool input.  The degraded schema of a custom tool wraps its free text in *)
(* an object: "{", the text, "}".                                          *)

\* responsesCustomInput: whether raw can be unwrapped yet, and the text.
Unwraps(raw) == raw = <<>> \/ IsObject(raw)
CustomInput(raw) == IF raw = <<>> THEN <<>> ELSE SubSeq(raw, 2, Len(raw) - 1)

\* emitToolDeltas, only for the kinds with argument deltas.
EmitToolDeltas(r, runes) ==
  CASE r.open.kind = "function_call" ->
         EmitEach(r, "function_call_arguments.delta", ChatSplitRunes(runes, ArgChunkSize))
    [] r.open.kind = "custom_tool_call" ->
         EmitEach(r, "custom_tool_call_input.delta", ChatSplitRunes(runes, ArgChunkSize))
    [] OTHER -> r

\* Mutant: the whole text every time.
UnsentAll(item, text) == text

\* The part of text that was not sent as a delta; all of it when what was
\* sent is not how it begins.
Unsent(item, text) ==
  IF IsPrefix(item.unwrapped, text) THEN SubSeq(text, item.inputEmitted + 1, Len(text)) ELSE text

\* appendCustomInputDelta: nothing is sent before the object is whole.
AppendCustomInput(r) ==
  LET raw  == r.open.arguments
      text == CustomInput(raw)
  IN IF ~Unwraps(raw) THEN r
     ELSE EmitToolDeltas([r EXCEPT !.open.unwrapped = text, !.open.inputEmitted = Len(text)],
                         Unsent(r.open, text))

\* appendToolArguments
AppendToolArguments(r, runes) ==
  LET c == [r EXCEPT !.open.arguments = @ \o runes]
  IN CASE r.open.kind = "function_call"    -> EmitToolDeltas(c, runes)
       [] r.open.kind = "custom_tool_call" -> AppendCustomInput(c)
       [] r.open.kind = "tool_search_call" -> c
       [] OTHER                            -> r

\* An input that is no object in the end is given as it came.
FinalInput(raw) == IF Unwraps(raw) THEN CustomInput(raw) ELSE raw

\* closeCustom: the rest of the text as deltas, then the whole.
CloseCustom(r) ==
  LET text == FinalInput(r.open.arguments)
      sent == [EmitToolDeltas(r, Unsent(r.open, text)) EXCEPT !.open.unwrapped = text]
  IN CloseOpen(Emit(sent, "custom_tool_call_input.done", 0, text))

\* closeBlock: a message item stays open for the next text block.
CloseResponsesBlock(r) ==
  CASE r.open.kind = "message"          -> CloseTextPart(r)
    [] r.open.kind = "function_call"    ->
         CloseOpen(Emit(r, "function_call_arguments.done", 0, r.open.arguments))
    [] r.open.kind = "custom_tool_call" -> CloseCustom(r)
    [] OTHER                            -> CloseOpen(r)

\* blockDelta: what does not belong to the open item, and an empty chunk, is
\* dropped.
TakeDelta(r, e) ==
  CASE e.delta = "text_delta" /\ r.open.kind = "message" /\ e.payload # <<>> ->
         Emit([r EXCEPT !.open.partText = @ \o e.payload],
              "output_text.delta", r.open.contentIndex, e.payload)
    [] e.delta = "thinking_delta" /\ r.open.kind = "reasoning" /\ e.payload # <<>> ->
         Emit([r EXCEPT !.open.thinking = @ \o e.payload],
              "reasoning_summary_text.delta", 0, e.payload)
    [] e.delta = "signature_delta" /\ r.open.kind = "reasoning" ->
         [r EXCEPT !.open.signature = e.payload]
    [] e.delta = "input_json_delta" /\ r.open # NoItem /\ e.payload # <<>> ->
         AppendToolArguments(r, e.payload)
    [] OTHER -> r

\* captureMeta: the last snapshot wins; cache writes are kept when none are told.
CaptureMeta(r, e) ==
  [r EXCEPT !.stopReason = IF e.stop_reason = None THEN @ ELSE e.stop_reason,
            !.usage = [e.usage EXCEPT !.cacheCreation =
                         IF @ = 0 THEN r.usage.cacheCreation ELSE @]]

\* startBlock.  What a tool was in the request is a field of its event; an
\* event without the field is about a plain function.
ToolKind(e) == IF "tool" \in DOMAIN e THEN e.tool ELSE "function_call"

StartBlock(r, e) ==
  CASE e.kind = "text"     -> StartTextPart(r)
    [] e.kind = "thinking" -> StartReasoning(r)
    [] e.kind = "tool_use" -> StartToolCall(r, ToolKind(e), e.index)

\* feed: nothing is taken in after the terminal event.
ResponsesFeed(r, e) ==
  CASE Terminated(r) -> r
    [] ~Terminated(r) /\ e.name = "message_start" -> StartResponse(r)
    [] ~Terminated(r) /\ IsStart(e)               -> StartBlock(r, e)
    [] ~Terminated(r) /\ IsDelta(e)               -> TakeDelta(r, e)
    [] ~Terminated(r) /\ IsStop(e)                -> CloseResponsesBlock(r)
    [] ~Terminated(r) /\ e.name = "message_delta" -> CaptureMeta(r, e)
    [] ~Terminated(r) /\ e.name = "message_stop"  -> FinishResponse(r)
    [] ~Terminated(r) /\ e.name = "error"         -> Fail(r, e.message)
=============================================================================
