----------------------------- MODULE ChatCodec -----------------------------
(***************************************************************************)
(* internal/translate/chatout.go: the two consumers of the translator's    *)
(* events on the Chat Completions endpoint, ChatEncoder (streaming: the    *)
(* events become `data:' frames) and ChatAggregator (one completion).      *)
(* Each is a record, each of its methods an operator that gives the record *)
(* after the call.                                                         *)
(***************************************************************************)
EXTENDS StreamTranslator, Fragments

---------------------------------------------------------------------------
(* Frames.  The fields that are the same in every chunk are left out. *)

RoleFrame         == [frame |-> "role"]
ContentFrame(t)   == [frame |-> "content", text |-> t]
ReasoningFrame(t) == [frame |-> "reasoning", text |-> t]
ToolFrame(i)      == [frame |-> "tool", index |-> i]
ArgsFrame(i, f)   == [frame |-> "arguments", index |-> i, fragment |-> f]
FinishFrame(r)    == [frame |-> "finish", reason |-> r]
UsageFrame(u)     == [frame |-> "usage", usage |-> u]
ErrorFrame(m)     == [frame |-> "error", message |-> m]
DoneFrame         == [frame |-> "done"]

\* The text of a tool input, rune by rune.
Runes(json) ==
  CASE json = "emptyObject" -> <<"{", "}">>
    [] json = "json"        -> <<"{", "x", ":", "1", "}">>
    [] json = "bad"         -> <<"{", "x", ":">>
    [] json = "empty"       -> <<>>

ValidArguments(runes) == runes \in {Runes("emptyObject"), Runes("json")}

\* Stop reasons become OpenAI's finish reasons.
ChatFinishReason(r) ==
  CASE r = "max_tokens" -> "length"
    [] r = "tool_use"   -> "tool_calls"
    [] r = "refusal"    -> "content_filter"
    [] OTHER            -> "stop"

---------------------------------------------------------------------------
(* ChatEncoder.  Returning(c, fs) is the encoder c that returns fs too.    *)

NewChatEncoder ==
  [started |-> FALSE, hasError |-> FALSE, finished |-> FALSE, toolIndex |-> 0, curTool |-> 0,
   stopReason |-> None, usage |-> NoTokens, frames |-> <<>>]

Returning(c, fs) == [c EXCEPT !.frames = @ \o fs]

\* withRole: the role is declared once, before the first content frame.
WithRole(c, fs) ==
  Returning([c EXCEPT !.started = TRUE], IF c.started THEN fs ELSE <<RoleFrame>> \o fs)

\* finishFrames, also Finish's when neither finished nor failed.
FinishFrames(c) ==
  [WithRole(c, <<FinishFrame(ChatFinishReason(c.stopReason)), UsageFrame(ChatUsageFrom(c.usage)), DoneFrame>>)
     EXCEPT !.finished = TRUE]

\* errorFrames: before the first frame nothing is sent, the caller answers
\* with a JSON error.
ErrorFrames(c, m) ==
  Returning([c EXCEPT !.hasError = TRUE], IF c.started THEN <<ErrorFrame(m)>> ELSE <<>>)

\* A tool_use block: tools are numbered among themselves.
ToolStarted(c, i) ==
  WithRole([c EXCEPT !.curTool = c.toolIndex, !.toolIndex = @ + 1], <<ToolFrame(c.toolIndex)>>)

ChatDelta(c, e) ==
  CASE e.delta = "text_delta"       -> WithRole(c, <<ContentFrame(e.payload[1])>>)
    [] e.delta = "thinking_delta"   -> WithRole(c, <<ReasoningFrame(e.payload[1])>>)
    [] e.delta = "signature_delta"  -> c
    [] e.delta = "input_json_delta" ->
         LET fragments == ChatSplitRunes(Runes(e.payload[1]), ArgChunkSize)
         IN Returning(c, [k \in DOMAIN fragments |-> ArgsFrame(c.curTool, fragments[k])])

\* Mutant: the encoder goes on after an error.
SilencedOnlyByFinish(c) == c.finished

\* Feed's and Finish's early return.
Silenced(c) == c.finished \/ c.hasError

ChatEncode(c, e) ==
  CASE Silenced(c) -> c
    [] ~Silenced(c) /\ IsStart(e) /\ e.kind = "tool_use" -> ToolStarted(c, e.index)
    [] ~Silenced(c) /\ IsDelta(e)                        -> ChatDelta(c, e)
    [] ~Silenced(c) /\ e.name = "message_delta" ->
         [c EXCEPT !.stopReason = e.stop_reason, !.usage = e.usage]
    [] ~Silenced(c) /\ e.name = "message_stop"           -> FinishFrames(c)
    [] ~Silenced(c) /\ e.name = "error"                  -> ErrorFrames(c, e.message)
    [] OTHER -> c

ChatEncoderFinish(c) == IF Silenced(c) THEN c ELSE FinishFrames(c)

---------------------------------------------------------------------------
(* ChatAggregator. *)

NewChatAggregator ==
  [text |-> <<>>, reasoning |-> <<>>, tools |-> <<>>, toolByBlk |-> <<>>,
   stopReason |-> None, usage |-> NoTokens]

\* Mutant: a chunk replaces what was written before.
BuiltOver(builder, chunk) == chunk

\* strings.Builder.WriteString.
Built(builder, chunk) == builder \o chunk

AggTool(a, e) ==
  LET blocks == DOMAIN a.toolByBlk \cup {e.index}
  IN [a EXCEPT !.tools = Append(@, <<>>),
               !.toolByBlk = [b \in blocks |-> IF b = e.index THEN Len(a.tools) + 1 ELSE @[b]]]

AggDelta(a, e) ==
  CASE e.delta = "text_delta"      -> [a EXCEPT !.text = Built(@, e.payload)]
    [] e.delta = "thinking_delta"  -> [a EXCEPT !.reasoning = Built(@, e.payload)]
    [] e.delta = "signature_delta" -> a
    [] e.delta = "input_json_delta" ->
         IF e.index \in DOMAIN a.toolByBlk
         THEN [a EXCEPT !.tools[a.toolByBlk[e.index]] = Built(@, Runes(e.payload[1]))]
         ELSE a

\* Errors are the handler's business: nothing is kept of them here.
ChatAggregate(a, e) ==
  CASE IsStart(e) /\ e.kind = "tool_use" -> AggTool(a, e)
    [] IsDelta(e)                        -> AggDelta(a, e)
    [] e.name = "message_delta" ->
         [a EXCEPT !.stopReason = e.stop_reason, !.usage = e.usage]
    [] OTHER -> a

\* Completion(): arguments that are not JSON become the empty object.
Completion(a) ==
  [content |-> a.text, reasoning |-> a.reasoning,
   tools |-> [k \in DOMAIN a.tools |->
                IF ValidArguments(a.tools[k]) THEN a.tools[k] ELSE Runes("emptyObject")],
   reason |-> ChatFinishReason(a.stopReason), usage |-> ChatUsageFrom(a.usage)]
=============================================================================
