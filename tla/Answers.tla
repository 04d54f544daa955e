------------------------------ MODULE Answers ------------------------------
(***************************************************************************)
(* The translator with everything that stands behind it on the Messages    *)
(* and Chat endpoints: the Aggregator, the ChatEncoder and the             *)
(* ChatAggregator.  A request uses one of them; here all run side by side  *)
(* on one event sequence, so that the streamed and the buffered answer can *)
(* be compared.                                                            *)
(***************************************************************************)
EXTENDS ChatCodec, Aggregate

VARIABLES
  enc,     \* the ChatEncoder
  frames,  \* history: the frames it returned
  chatAgg  \* the ChatAggregator

answerVars == <<vars, agg, enc, frames, chatAgg>>

---------------------------------------------------------------------------
\* An event goes to each of the three.
Deliver(x, e) ==
  [agg |-> AggregateFeed(x.agg, e), enc |-> ChatEncode(x.enc, e), chat |-> ChatAggregate(x.chat, e)]

\* What the three are after the events es.
Delivered(x, es) ==
  LET after[n \in 0..Len(es)] == IF n = 0 THEN x ELSE Deliver(after[n - 1], es[n])
  IN after[Len(es)]

Consumers == [agg |-> agg, enc |-> enc, chat |-> chatAgg]

NewConsumers == [agg |-> NewAggregator, enc |-> NewChatEncoder, chat |-> NewChatAggregator]

AnswersInit ==
  LET x == Deliver(NewConsumers, MessageStart)
  IN /\ Init
     /\ agg = x.agg /\ chatAgg = x.chat
     /\ enc = [x.enc EXCEPT !.frames = <<>>] /\ frames = x.enc.frames

\* The three after a call; the encoder's frames, c with them, go to the history.
Becomes(x, c) ==
  /\ agg' = x.agg /\ chatAgg' = x.chat
  /\ enc' = [c EXCEPT !.frames = <<>>] /\ frames' = frames \o c.frames

\* One line, encoded and aggregated.
AnswersFeed ==
  /\ Feed
  /\ LET x == Delivered(Consumers, NewEvents) IN Becomes(x, x.enc)

\* End of stream: the translator's last events, then the encoder's Finish.
AnswersFinish ==
  /\ Finish
  /\ LET x == Delivered(Consumers, NewEvents) IN Becomes(x, ChatEncoderFinish(x.enc))

AnswersNext == AnswersFeed \/ AnswersFinish

AnswersSpec == AnswersInit /\ [][AnswersNext]_answerVars

---------------------------------------------------------------------------
(* Properties. *)

\* The frames of a kind among the frames fs.
Positions(fs, kind) == {i \in 1..Len(fs) : fs[i].frame = kind}

FrameOrder(fs) ==
  /\ fs # <<>> => Positions(fs, "role") = {1}
  /\ Positions(fs, "error") \cup Positions(fs, "done") \subseteq {Len(fs)}
  /\ \A i \in Positions(fs, "finish") :
       /\ i = Len(fs) - 2 /\ fs[i + 1].frame = "usage" /\ fs[i + 2] = DoneFrame
  /\ Cardinality(Positions(fs, "usage")) = Cardinality(Positions(fs, "finish"))
  /\ Cardinality(Positions(fs, "done")) = Cardinality(Positions(fs, "finish"))

ToolsAnnounced(fs) ==
  LET tools == Positions(fs, "tool")
  IN /\ \A i \in tools : fs[i].index = Place(tools, i) - 1
     /\ \A i \in Positions(fs, "arguments") :
          Cardinality({j \in tools : j < i}) = fs[i].index + 1

\* The fragments for tool i among the frames fs, put together.
Joined(fs, i) ==
  LET upTo[n \in 0..Len(fs)] ==
        IF n = 0 THEN <<>>
        ELSE IF fs[n].frame = "arguments" /\ fs[n].index = i
        THEN upTo[n - 1] \o fs[n].fragment ELSE upTo[n - 1]
  IN upTo[Len(fs)]

\* The frames fs bring each tool's whole input.
WholeInputs(fs, tools) == \A n \in 1..Len(tools) : Joined(fs, n - 1) = tools[n]

\* What an OpenAI client relies on.  The role is declared first and once; the
\* stream ends with finish, usage and [DONE], or with one error, and with
\* nothing after it.  Tools are announced as 0, 1, 2, ... whatever other blocks
\* come between, arguments come after the announcement of their tool and
\* before the next one, and put together the fragments of a tool are its whole
\* input, as the aggregator collected it.
ChatStreamReadable ==
  /\ FrameOrder(frames)
  /\ ToolsAnnounced(frames)
  /\ ~hasError => WholeInputs(frames, chatAgg.tools)

\* The frames of a kind among fs carry these texts, one each.
SameTexts(fs, kind, texts) ==
  /\ Len(texts) = Cardinality(Positions(fs, kind))
  /\ \A i \in Positions(fs, kind) : fs[i].text = texts[Place(Positions(fs, kind), i)]

\* Streaming and not streaming, a client reads the same answer: same text and
\* reasoning in the same order, same number of tools, same finish reason and
\* tokens.
StreamMatchesCompletion ==
  LET result == Completion(chatAgg)
  IN /\ ~hasError =>
          /\ SameTexts(frames, "content", result.content)
          /\ SameTexts(frames, "reasoning", result.reasoning)
          /\ Cardinality(Positions(frames, "tool")) = Len(result.tools)
     /\ \A i \in Positions(frames, "finish") : frames[i].reason = result.reason
     /\ \A i \in Positions(frames, "usage")  : frames[i].usage = result.usage

\* The usage object that counts: the latest one, never a sum over the steps.
LatestUsage ==
  IF UsageLines(fed) = {} THEN NoUsage ELSE fed[Latest(UsageLines(fed))].usage[1]

\* Every token is billed once.  What each endpoint tells of the tokens adds up,
\* the cached ones among them, to what the upstream's latest usage object
\* says: its count of uncached ones if it has one, with what caches gave and
\* took; else its total, of which the cached ones are a part.  A stream without
\* such an object bills no input.  (chatUsageFrom and ResponsesUsageFromDelta
\* each add back what DeltaUsage takes out.)
TokensAddUp ==
  \A i \in 1..Len(out) : out[i].name = "message_delta" =>
    LET u         == LatestUsage
        chat      == Completion(chatAgg).usage
        responses == ResponsesUsageFromDelta(out[i].usage)
        cached    == IF u.cachedInputTokens > 0 THEN u.cachedInputTokens ELSE u.details.cacheRead
    IN /\ Message(agg).usage = out[i].usage
       /\ chat.prompt_tokens = u.details.cacheWrite +
            (IF u.details.noCache >= 0 THEN u.details.noCache + cached
             ELSE IF u.inputTokens > cached THEN u.inputTokens ELSE cached)
       /\ chat.cached_tokens = cached
       /\ chat.total_tokens = chat.prompt_tokens + TokensReported
       /\ chat.prompt_tokens = responses.input_tokens
       /\ chat.cached_tokens = responses.cached_tokens
       /\ chat.total_tokens = responses.total_tokens

\* A stream the upstream failed on never looks like a success: nothing is
\* sent after the error, no [DONE], and the error is told in the stream as
\* soon as anything was sent before it.
FailureNeverLooksLikeSuccess ==
  hasError \/ panicked =>
    /\ Positions(frames, "done") = {} /\ Positions(frames, "finish") = {}
    /\ frames # <<>> /\ ~panicked => frames[Len(frames)].frame = "error"
=============================================================================
