------------------------- MODULE StreamTranslator -------------------------
(***************************************************************************)
(* internal/translate/stream.go: the state machine that turns the lines of *)
(* the upstream NDJSON stream into Anthropic SSE events.  One request owns *)
(* one translator.  Its caller feeds it one line at a time and calls       *)
(* Finish once, at end of stream.                                          *)
(*                                                                         *)
(* The fields of the Go struct are the variables; `fed' and `out' are the  *)
(* history of the lines taken in and of the events given back, which the   *)
(* properties relate.  A text is an opaque non-empty chunk, an error       *)
(* message is a model value.                                               *)
(***************************************************************************)
EXTENDS Integers, Sequences, FiniteSets, Positions, Events, Usage

CONSTANTS
  Texts,      \* non-empty payloads of text-delta and reasoning-delta
  Reasons,    \* finishReason values the upstream sends
  Usages,     \* usage objects the upstream sends
  ToolInputs, \* classes of tool-call input, a subset of AllToolInputs
  Messages,   \* messages of upstream error events
  MaxLines    \* bound on the lines of one stream

AllToolInputs == {"absent", "object", "jsonString", "badString", "emptyString"}

ASSUME TextsAssumption    == None \notin Texts
ASSUME UsagesAssumption   == Usages \subseteq UsageObject
ASSUME InputsAssumption   == ToolInputs \subseteq AllToolInputs
ASSUME MaxLinesAssumption == MaxLines \in Nat

VARIABLES
  nextIndex,      \* index the next content block gets
  openType,       \* the kind of the open block, text or thinking, None if none
  openIndex,      \* its index
  thinkingText,   \* every reasoning chunk of the message, in order
  usage,          \* the latest usage object, NoUsage before
  hasUsage,       \* some usage object was seen
  outEstimate,    \* output tokens estimated from the deltas
  stopReason,     \* None until a finish event gives one
  stepReasonSet,  \* a finish-step gave it: finish does not override it
  contentStarted, \* some block was opened
  hasError,       \* an upstream error event was seen
  errMessage,     \* the message of the latest one, None before
  finished,       \* Finish was called
  panicked,       \* Feed dereferenced the missing error object
  fed,            \* history: the lines fed
  out             \* history: the events returned

blockVars  == <<nextIndex, openType, openIndex, thinkingText, contentStarted>>
finishVars == <<usage, hasUsage, stopReason, stepReasonSet>>
errorVars  == <<hasError, errMessage, panicked>>
vars == <<blockVars, finishVars, errorVars, outEstimate, finished, fed, out>>

---------------------------------------------------------------------------
ZeroOutput == "Empty response from upstream (zero output tokens)"

\* Mutant: an upstream reason is handed on untranslated.
MapStopReasonMissing(cc) == cc

MapStopReason(cc) ==
  CASE cc = "stop"           -> "end_turn"
    [] cc = "length"         -> "max_tokens"
    [] cc = "tool-calls"     -> "tool_use"
    [] cc = "content-filter" -> "refusal"
    [] OTHER                 -> "end_turn"

\* The text of the one input_json_delta: an absent input becomes an empty
\* object, a JSON string is unwrapped whatever it holds.
JSONTexts == {"emptyObject", "json", "bad", "empty"}

PartialJSON(input) ==
  CASE input = "absent"      -> "emptyObject"
    [] input = "object"      -> "json"
    [] input = "jsonString"  -> "json"
    [] input = "badString"   -> "bad"
    [] input = "emptyString" -> "empty"

\* Mutant: a usage object with zero tokens counts as no usage object.
OutputTokensIgnoringZero == IF usage.outputTokens # 0 THEN usage.outputTokens ELSE outEstimate

OutputTokens == IF hasUsage THEN usage.outputTokens ELSE outEstimate

\* Mutant: the open block is abandoned, not closed.
CloseBlockForgotten(s) == s

\* Mutant: the signature follows the stop.
CloseBlockSignedLate(s) ==
  CASE openType = None       -> s
    [] openType = "text"     -> Append(s, BlockStop(openIndex))
    [] openType = "thinking" -> Append(Append(s, BlockStop(openIndex)),
                                  BlockDelta(openIndex, "signature_delta", thinkingText))

\* closeBlock(): stream s with the open block, if any, closed; a thinking
\* block is signed before it is closed.
CloseBlock(s) ==
  CASE openType = None       -> s
    [] openType = "text"     -> Append(s, BlockStop(openIndex))
    [] openType = "thinking" ->
         Append(Append(s, BlockDelta(openIndex, "signature_delta", thinkingText)),
                BlockStop(openIndex))

\* Mutant: reasoning goes out as text.
DeltaOfText(kind) == "text_delta"

DeltaOf(kind) == IF kind = "text" THEN "text_delta" ELSE "thinking_delta"

\* Mutant: every chunk gets a block of its own.
ContinuesNever(kind) == FALSE

\* startBlock's early return: the chunk joins the open block.
Continues(kind) == openType = kind

---------------------------------------------------------------------------
Init ==
  /\ nextIndex = 0 /\ openType = None /\ openIndex = 0 /\ thinkingText = <<>>
  /\ usage = NoUsage /\ hasUsage = FALSE /\ outEstimate = 0
  /\ stopReason = None /\ stepReasonSet = FALSE
  /\ contentStarted = FALSE /\ hasError = FALSE /\ errMessage = None
  /\ finished = FALSE /\ panicked = FALSE
  /\ fed = <<>> /\ out = <<MessageStart>>

\* A line reaches Feed: the caller is still scanning.
Take(line) ==
  /\ ~finished /\ ~panicked
  /\ Len(fed) < MaxLines
  /\ fed' = Append(fed, line)

\* Blank lines, comments, [DONE], lines that do not parse, empty deltas and
\* the signal events (start, text-start, tool-input-*, ...) change nothing.
FeedIgnored ==
  /\ Take([type |-> "ignored"])
  /\ UNCHANGED <<blockVars, finishVars, errorVars, outEstimate, finished, out>>

\* text-delta and reasoning-delta: extend the open block of that kind, or
\* close the open block and open one.
FeedDelta(kind, text) ==
  /\ Take([type |-> kind, text |-> text])
  /\ thinkingText' = IF kind = "thinking" THEN Append(thinkingText, text) ELSE thinkingText
  /\ outEstimate' = outEstimate + 1
  /\ contentStarted' = TRUE
  /\ \/ /\ Continues(kind)
        /\ out' = Append(out, BlockDelta(openIndex, DeltaOf(kind), <<text>>))
        /\ UNCHANGED <<nextIndex, openType, openIndex>>
     \/ /\ ~Continues(kind)
        /\ out' = Append(Append(CloseBlock(out), BlockStart(nextIndex, kind)),
                         BlockDelta(nextIndex, DeltaOf(kind), <<text>>))
        /\ openType' = kind
        /\ openIndex' = nextIndex
        /\ nextIndex' = nextIndex + 1
  /\ UNCHANGED <<finishVars, errorVars, finished>>

\* A tool call arrives whole: its block is opened and closed at once.
FeedToolCall(input) ==
  /\ Take([type |-> "tool-call", input |-> input])
  /\ out' = Append(Append(Append(CloseBlock(out),
                BlockStart(nextIndex, "tool_use")),
                BlockDelta(nextIndex, "input_json_delta", <<PartialJSON(input)>>)),
                BlockStop(nextIndex))
  /\ openType' = None
  /\ nextIndex' = nextIndex + 1
  /\ outEstimate' = outEstimate + 20
  /\ contentStarted' = TRUE
  /\ UNCHANGED <<openIndex, thinkingText, finishVars, errorVars, finished>>

FeedFinishStep(reason, u) ==
  /\ Take([type |-> "finish-step", reason |-> reason, usage |-> u])
  /\ IF reason = None
     THEN UNCHANGED <<stopReason, stepReasonSet>>
     ELSE stopReason' = MapStopReason(reason) /\ stepReasonSet' = TRUE
  /\ IF u = <<>>
     THEN UNCHANGED <<usage, hasUsage>>
     ELSE usage' = u[1] /\ hasUsage' = TRUE
  /\ UNCHANGED <<blockVars, errorVars, outEstimate, finished, out>>

\* finish: totalUsage wins over usage; the reason only counts when no
\* finish-step gave one.  u is the usage object the code picks, if any.
FeedFinish(reason, u) ==
  /\ Take([type |-> "finish", reason |-> reason, usage |-> u])
  /\ IF u = <<>>
     THEN UNCHANGED <<usage, hasUsage>>
     ELSE usage' = u[1] /\ hasUsage' = TRUE
  /\ stopReason' =
       CASE stepReasonSet                                        -> stopReason
         [] ~stepReasonSet /\ reason # None                      -> MapStopReason(reason)
         [] ~stepReasonSet /\ reason = None /\ stopReason = None   -> "end_turn"
         [] ~stepReasonSet /\ reason = None /\ stopReason # None   -> stopReason
  /\ UNCHANGED <<stepReasonSet, blockVars, errorVars, outEstimate, finished, out>>

\* An error event with an error object.  It does not stop the translator:
\* the lines after it are translated as before.
FeedError(m) ==
  /\ Take([type |-> "error", message |-> m])
  /\ hasError' = TRUE
  /\ errMessage' = m
  /\ out' = Append(out, ErrorEvent(m))
  /\ UNCHANGED <<panicked, blockVars, finishVars, outEstimate, finished>>

\* An error event without an error object: ev.Error is nil and Feed panics
\* on ev.Error.Message, after hasError was set.
FeedErrorWithoutDetail ==
  /\ Take([type |-> "error", message |-> None])
  /\ hasError' = TRUE
  /\ panicked' = TRUE
  /\ UNCHANGED <<errMessage, blockVars, finishVars, outEstimate, finished, out>>

\* Finish(), at end of stream: an upstream error leaves everything as it is,
\* zero output becomes an error event, anything else ends the message.
Finish ==
  /\ ~finished /\ ~panicked
  /\ finished' = TRUE
  /\ \/ /\ hasError
        /\ UNCHANGED <<out, openType, stopReason>>
     \/ /\ ~hasError
        /\ openType' = None
        /\ stopReason' = IF stopReason = None THEN "end_turn" ELSE stopReason
        /\ out' = IF OutputTokens = 0
                  THEN Append(CloseBlock(out), ErrorEvent(ZeroOutput))
                  ELSE Append(Append(CloseBlock(out),
                                     MessageDelta(stopReason', DeltaUsage(usage, OutputTokens))),
                              MessageStop)
  /\ UNCHANGED <<nextIndex, openIndex, thinkingText, contentStarted,
                 usage, hasUsage, stepReasonSet, errorVars, outEstimate, fed>>

OptionalUsage == {<<>>} \cup {<<u>> : u \in Usages}

Feed ==
  \/ FeedIgnored
  \/ \E kind \in {"text", "thinking"}, text \in Texts : FeedDelta(kind, text)
  \/ \E input \in ToolInputs : FeedToolCall(input)
  \/ \E reason \in Reasons \cup {None}, u \in OptionalUsage : FeedFinishStep(reason, u)
  \/ \E reason \in Reasons \cup {None}, u \in OptionalUsage : FeedFinish(reason, u)
  \/ \E m \in Messages : FeedError(m)
  \/ FeedErrorWithoutDetail

Next == Feed \/ Finish

Spec == Init /\ [][Next]_vars

\* The events a step of the translator returns.
NewEvents == SubSeq(out', Len(out) + 1, Len(out'))

---------------------------------------------------------------------------
(* Properties. *)

Kinds       == {"text", "thinking", "tool_use"}
StopReasons == {"end_turn", "max_tokens", "tool_use", "refusal"}

Line ==
  [type : {"ignored"}]
    \cup [type : {"text", "thinking"}, text : Texts]
    \cup [type : {"tool-call"}, input : ToolInputs]
    \cup [type : {"finish-step", "finish"}, reason : Reasons \cup {None}, usage : OptionalUsage]
    \cup [type : {"error"}, message : Messages \cup {None}]

Event ==
  [name : {"message_start", "message_stop"}]
    \cup [name : {"content_block_start"}, index : Nat, kind : Kinds]
    \cup [name : {"content_block_delta"}, index : Nat, payload : Seq(Texts \cup JSONTexts),
          delta : {"text_delta", "thinking_delta", "signature_delta", "input_json_delta"}]
    \cup [name : {"content_block_stop"}, index : Nat]
    \cup [name : {"message_delta"}, stop_reason : StopReasons, usage : TokenCounts]
    \cup [name : {"error"}, message : Messages \cup {ZeroOutput}]

\* The deltas a block of a kind may carry.
DeltasOf(kind) ==
  CASE kind = "text"     -> {"text_delta"}
    [] kind = "thinking" -> {"thinking_delta", "signature_delta"}
    [] kind = "tool_use" -> {"input_json_delta"}

\* The fields of the struct and the two histories have their types; in
\* particular the stop reason is one Anthropic defines.
TypeOK ==
  /\ nextIndex \in Nat /\ openIndex \in Nat
  /\ openType \in {None, "text", "thinking"}
  /\ thinkingText \in Seq(Texts)
  /\ usage \in UsageObject /\ outEstimate \in Nat
  /\ stopReason \in StopReasons \cup {None}
  /\ hasUsage \in BOOLEAN /\ stepReasonSet \in BOOLEAN /\ contentStarted \in BOOLEAN
  /\ hasError \in BOOLEAN /\ finished \in BOOLEAN /\ panicked \in BOOLEAN
  /\ errMessage \in Messages \cup {None}
  /\ fed \in Seq(Line) /\ Len(fed) <= MaxLines
  /\ out \in Seq(Event)

\* In stream s, the block opened by event j is still open just before event
\* i: since j there were only deltas, and errors, which close nothing.
OpenUntil(s, j, i) ==
  /\ IsStart(s[j])
  /\ \A k \in (j + 1)..(i - 1) : s[k].name \in {"content_block_delta", "error"}

DeltaIsOfOpenBlock(s, i) ==
  \E j \in 1..(i - 1) :
    OpenUntil(s, j, i) /\ s[j].index = s[i].index /\ s[i].delta \in DeltasOf(s[j].kind)

StopIsOfOpenBlock(s, i) ==
  \E j \in 1..(i - 1) : OpenUntil(s, j, i) /\ s[j].index = s[i].index

NothingOpenBefore(s, i) == \A j \in 1..(i - 1) : ~OpenUntil(s, j, i)

\* Every delta and every stop belongs to the block that is open at that
\* point, a delta to a block of its kind, and a block is opened only when the
\* previous one was closed: a client SDK never gets text for a block that was
\* closed, replaced or never opened, and never overwrites what it has
\* accumulated.
Disciplined(s) ==
  \A i \in 1..Len(s) :
    /\ IsDelta(s[i]) => DeltaIsOfOpenBlock(s, i)
    /\ IsStop(s[i])  => StopIsOfOpenBlock(s, i)
    /\ IsStart(s[i]) => NothingOpenBefore(s, i)

BlockDiscipline == Disciplined(out)

\* The block started by event i follows directly on one with the index below
\* (none for block 0), which is of another kind unless both are tool calls.
FollowsPrevious(s, i) ==
  /\ \A j \in 1..(i - 1) : IsStart(s[j]) => s[j].index < s[i].index
  /\ s[i].index > 0 => \E j \in 1..(i - 1) :
       /\ IsStart(s[j]) /\ s[j].index = s[i].index - 1
       /\ s[j].kind = s[i].kind => s[i].kind = "tool_use"

\* Blocks are numbered 0, 1, 2, ... in the order they are opened (the
\* aggregators use the number as a position), and chunks of one kind that
\* follow each other share a block.
Numbered(s) == \A i \in 1..Len(s) : IsStart(s[i]) => FollowsPrevious(s, i)

BlockSequence == Numbered(out)

\* The last of some positions.
Latest(P) == CHOOSE i \in P : \A j \in P : j <= i

\* The reasoning that went out up to event n of stream s.
ThinkingDeltas(s, n) == {k \in 1..n : IsDelta(s[k]) /\ s[k].delta = "thinking_delta"}

\* Just before event i, a signature of all the reasoning that went out before.
SignedBefore(s, i) ==
  LET signature == s[i - 1]
      chunks    == ThinkingDeltas(s, i)
  IN /\ IsDelta(signature) /\ signature.delta = "signature_delta"
     /\ signature.index = s[i].index
     /\ Len(signature.payload) = Cardinality(chunks)
     /\ \A k \in chunks : signature.payload[Place(chunks, k)] = s[k].payload[1]

\* A thinking block is closed only right after its signature, and the
\* signature covers all the thinking text of the message up to that point.
Signed(s) ==
  \A i, j \in 1..Len(s) :
    (IsStop(s[i]) /\ IsStart(s[j]) /\ s[i].index = s[j].index /\ s[j].kind = "thinking")
      => SignedBefore(s, i)

SignedThinking == Signed(out)

ContentLines(f)  == {i \in 1..Len(f) : f[i].type \in {"text", "thinking", "tool-call"}}
ContentDeltas(s) == {i \in 1..Len(s) : IsDelta(s[i]) /\ s[i].delta # "signature_delta"}

\* The delta event e carries what line l brought.
Brings(e, l) ==
  IF l.type = "tool-call"
  THEN e.delta = "input_json_delta" /\ e.payload[1] = PartialJSON(l.input)
  ELSE /\ e.delta = IF l.type = "text" THEN "text_delta" ELSE "thinking_delta"
       /\ e.payload[1] = l.text

\* As many content deltas in stream s as content lines in f, and the n-th delta
\* carries the n-th line.
SameContent(f, s) ==
  LET lines == ContentLines(f)  deltas == ContentDeltas(s)
  IN /\ Cardinality(lines) = Cardinality(deltas)
     /\ \A i \in lines, j \in deltas :
          Place(lines, i) = Place(deltas, j) => Brings(s[j], f[i])

\* The content the upstream sent is the content the client gets: same chunks,
\* same order, whatever finish, error and noise lines come in between.
ContentPreserved == SameContent(fed, out)

StepReasons(f)   == {i \in 1..Len(f) : f[i].type = "finish-step" /\ f[i].reason # None}
FinishReasons(f) == {i \in 1..Len(f) : f[i].type = "finish" /\ f[i].reason # None}
UsageLines(f)    == {i \in 1..Len(f) : f[i].type \in {"finish-step", "finish"} /\ f[i].usage # <<>>}
ChunkLines(f)    == {i \in 1..Len(f) : f[i].type \in {"text", "thinking"}}
ToolLines(f)     == {i \in 1..Len(f) : f[i].type = "tool-call"}

\* What the message_delta must report, defined on the lines alone: the
\* latest finish-step reason, else the latest finish reason, else end_turn.
ReasonReported ==
  LET reasons == IF StepReasons(fed) # {} THEN StepReasons(fed) ELSE FinishReasons(fed)
  IN IF reasons = {} THEN "end_turn" ELSE MapStopReason(fed[Latest(reasons)].reason)

\* The latest usage object, else the estimate: one token per delta, twenty
\* per tool call.
TokensReported ==
  IF UsageLines(fed) # {} THEN fed[Latest(UsageLines(fed))].usage[1].outputTokens
  ELSE Cardinality(ChunkLines(fed)) + 20 * Cardinality(ToolLines(fed))

\* Every block of stream s was closed.
AllClosed(s) ==
  \A j \in 1..Len(s) : IsStart(s[j]) =>
    \E i \in (j + 1)..Len(s) : IsStop(s[i]) /\ s[i].index = s[j].index

\* A message that ends well reports the reason and the tokens the whole
\* stream calls for, in its last two events, with every block closed and
\* never with zero tokens; without output the client gets an error instead.
\* message_delta and message_stop come nowhere else, and never in a stream
\* that carried an error.
EndsProperly ==
  LET Ended == finished /\ ~hasError
  IN /\ Ended =>
          /\ AllClosed(out)
          /\ IF TokensReported = 0
             THEN out[Len(out)] = ErrorEvent(ZeroOutput)
             ELSE LET delta == out[Len(out) - 1]
                  IN /\ out[Len(out)] = MessageStop
                     /\ delta.name = "message_delta"
                     /\ delta.stop_reason = ReasonReported
                     /\ delta.usage.output = TokensReported
     /\ \A i \in 1..Len(out) :
          /\ out[i].name = "message_stop"  => Ended /\ i = Len(out)
          /\ out[i].name = "message_delta" => Ended /\ i = Len(out) - 1

\* What the code of the error branch promises (`msg = ev.Message', then
\* "Unknown CC error"): every upstream error event reaches the client as an
\* error event, with or without an error object.
ErrorAlwaysReported ==
  LET IsErrorLine(l) == l.type = "error"
      IsErrorOut(e)  == e.name = "error"
  IN ~finished => Len(SelectSeq(fed, IsErrorLine)) = Len(SelectSeq(out, IsErrorOut))
=============================================================================
