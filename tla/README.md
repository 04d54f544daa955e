# cmdc2api in TLA+

cmdc2api is a proxy: it takes requests on three endpoints (Anthropic Messages,
OpenAI Chat Completions, OpenAI Responses), turns each into one request to the
cmdc upstream, and translates the upstream's NDJSON stream back into the
protocol of the endpoint, streamed or as one object.  This directory holds TLA+
modules of its state machines and of the steps its goroutines interleave, the
TLC configurations that check them on small instances, and TLAPS proofs.

Paths below are relative to the repository; `translate/`, `server/`, `masq/`,
`errs/` and `types/` stand for `src/internal/...`.

## 1. The system

| Component | State | Operations | Interacts with |
|---|---|---|---|
| Stream translator, `translate/stream.go` | open block, block counter, thinking text, usage, stop reason, error; one per request | `Start`, `Feed(line)`, `Finish` | fed by the pipeline; its events go to one encoder or aggregator |
| Message aggregator, `translate/aggregate.go` | message, tool inputs by block number | `Feed(event)`, `Message` | the buffered Messages answer |
| Chat output, `translate/chatout.go` | started/failed/finished, tool counter, reason, usage | `ChatEncoder.Feed/Finish`, `ChatAggregator.Feed/Completion` | both Chat answers |
| Responses output, `translate/respout.go` | sequence number, output index, open item, terminal flags | `feed`, `fail`, `finish`, `result` | both Responses answers, one state machine |
| Pipeline, `server/pipeline.go`, `server/body.go`, middleware of `server/server.go` | reader timer, timeout flag, header sent, frames held back | `runPipeline`, `serveStream`, `serveBuffer`, `idleReader.Read/Close`, its timer, `sseWriter.add/start` | upstream body, client connection, timer goroutine |
| Error mapping, `errs/errs.go` | none | `MapStatus`, `MapEvent` | translator and pipeline |
| Pre-requests, `masq/upstream.go` | `inflight` under `initMu` | `EnsureInitialized` | state store, upstream |
| State store, `masq/fingerprint.go` | fingerprint and next time by key, in memory and in a file | `LoadState`, `KeyState`, `ScheduleNextInit`, `saveLocked` | every request; survives the process |
| Model list, `masq/upstream.go`, `server/models.go` | list by key with its age | `Models` | upstream |
| Session affinity, `masq/session.go` | session id by key | `ResolveSession`, `Cleanup` | hourly ticker of `main.go` |
| Version refresher, `masq/version.go` | one atomic string | `Start`, `Get` | npm registry |
| Request construction, `translate/request.go` | none | `BuildCcRequest`, `PrefixCacheKey` | all endpoints |
| Chat and Responses input, `translate/chatin.go`, `translate/respin.go` | none (a tool set while converting) | `ChatToRequest`, `ResponsesToRequest` | their endpoints; the mapping of tool names goes to the Responses output |
| Token accounting, `types/cmdc.go`, `stream.go`, `chatout.go`, `types/responses.go` | none | `Normalize`, `DeltaUsage`, `chatUsageFrom`, `ResponsesUsageFromDelta` | every output |
| Tool pairing, `translate/pairing.go` | none | `RepairToolPairing` | both input conversions |
| Endpoints, `server/messages.go`, `chat.go`, `responses.go`, `server.go` | what is left of a body; count of consecutive timeouts | the handlers, `readBody`, middleware | pipeline |
| Configuration and process, `config/`, `main.go` | none | `Load`, `main` | all |

What makes each correct:

* *Translator*: events form disciplined blocks, numbered in order, of the kind
  their deltas need; a thinking block is signed before it is closed; content is
  kept; the end reports what the lines call for, and no output is an error.
* *Aggregators and encoders*: streamed and buffered answers say the same; tools
  keep their own input; frames and events are ordered and paired as strict
  clients require; nothing follows an error or the end.
* *Inputs, tool pairing and request construction*: whatever a client resends, the
  upstream gets a legal history that carries or accounts for everything the client
  sent; a conversation that grows extends what was sent before, under the same
  session, so that the upstream's prompt cache hits.
* *Tools*: every declared tool reaches the model under a name of its own or the request
  is refused; its call goes back as the call of what was declared; choice, parallel
  calls, effort and limit arrive or are told to have been given up.
* *Token accounting*: every token is billed once, on every endpoint alike.
* *Pipeline*: a request that is accepted ends, as its protocol ends or with an error that
  is told; one status, a header only with content, a JSON error before the header and an
  error of the stream behind it, no failure that looks like a success.
* *Sessions and model lists*: a session lasts its period and expired ones go; a list is
  served to its own key and not longer than its lifetime allows.
* *Pre-requests and store*: one round of pre-requests at a time, not again within
  the period, one fingerprint per key for ever.

What is hard: the idle timer races reads, end of file and the client; failures
strike before and after the header is out; the order of finish, usage and error
lines is the upstream's; items and parts are closed on many paths; requests of
one key compete through two locks and an unlocked read; the process dies between
the steps of a save.  On the way in, a client's whole history comes again every
turn, with calls and results in any order, and three conversions in a row reorder,
split and drop parts of it.  `PROJECT.json` lists these hazards, each at its line, with
the properties that would show it going wrong.

## 2. Modules and how they correspond to the code

```
Events, Usage, Positions --- StreamTranslator --- Aggregate --- Answers
                                     |                             |
                        Fragments --- ChatCodec -------------------'
                            |             |
                            |          Pipeline === HttpResponse (refined)
                            |          |      |
                            '--- ResponsesCodec   Errs
                                       |
                       Positions --- ResponsesOut

Pairing --- Inbound ---.              ToolSet --- Tools
     |                 Requests
     '----- Envelope --'              Lifecycle

                        Sessions, Models --- Stores
```

A single line is EXTENDS, a double one INSTANCE.  `MC*` modules give the constants of
the modules they extend.  The proofs are in modules of their own:

| Module | About | Uses |
|---|---|---|
| SequenceLemmas | concatenation, places in a sequence and the data at them, induction over the naturals, Fragments | |
| StreamProofs | StreamTranslator; ChatCodec, and the events a call of the translator returns | SequenceLemmas |
| ResponsesCodecProofs | ResponsesCodec | SequenceLemmas |
| AnswersProofs | Aggregate and Answers | StreamProofs |
| PipelineProofs | Pipeline | StreamProofs, ResponsesCodecProofs |
| ResponsesOutProofs | ResponsesOut | ResponsesCodecProofs |
| StateProofs | Lifecycle, Stores; ToolSet and Tools | SequenceLemmas |
| RequestProofs | Pairing, Inbound, Envelope and Requests | SequenceLemmas |

**Events** (`types/anthropic.go`) are the events of the Anthropic stream, the form every
answer passes through.  **Usage** is the arithmetic of tokens.  **Positions** models no
code: the properties of streams speak of places in them (`Place`, `Before`) and of the
data found there (`Data`).

**StreamTranslator** (`translate/stream.go`).  The variables are the fields of
the struct; `fed` and `out` are histories of the lines fed and the events
returned.  One action per kind of line (`FeedDelta`, `FeedToolCall`,
`FeedFinishStep`, `FeedFinish`, `FeedError`, `FeedErrorWithoutDetail`,
`FeedIgnored`) and `Finish`.  A text is an opaque chunk, a usage object a
record of its counts, a tool input one of five classes that `partialJSON` tells apart,
a signature the list of chunks it was computed from.

**Aggregate** (`translate/aggregate.go`) is the aggregator as a record and its
methods as operators.  It appends text to the latest block and puts tool inputs by
number, as the code does, while the properties assemble by number alone.

**ChatCodec** (`translate/chatout.go`) has the encoder and the aggregator as
records and each method as an operator on them.  **Answers** delivers each event that
a call of the translator returns to these two and to the aggregator, in one fold
(`Delivered`, the loop of `encodeAll` and of `serveBuffer`), so that they can be
compared; a real request uses one of them.

**Pipeline** (`server/pipeline.go`, `server/body.go` and the three handlers) is one
request on one of the three endpoints: the body as it arrives and the limit on it,
the translator with the endpoint's encoder, and around them the handler's program
counter, the scanner's buffer, the idle reader with its timer, and the sseWriter with
what it wrote.  Four parties take steps: handler, timer, upstream, client.  The
firing of the timer and its goroutine's taking of the mutex are two steps, since
a read may come between.  The upstream call is in steps too: the request is written
(`RequestSent`), a header comes or does not (`GenerateSucceeds`, `GenerateFails`), and one
that refuses the request (`GenerateRefused`) has a body which is read before the client is
answered (`AnswerRefusal`), up to its end, an error or 64 KiB, `RefusalLimit` pieces of
it in the model.  No timer runs then: it starts with the idle reader, behind a header
with status 200.  Request cancellation is `gone`.  A panic of the
translator ends in the middleware's answer.  On the Messages endpoint a frame is
an event; on the Chat endpoint the encoder is ChatCodec's, on the Responses endpoint
ResponsesCodec's.  **Errs** is `MapStatus`.

**HttpResponse** is the abstract side of the pipeline: what `net/http` lets a
handler do to a response and a client make sense of.  It is one JSON object under one
status, an error or a whole answer, and then the handler returns; or it is a stream, which
grows and never holds a JSON object.  Pipeline implements it under
status, body and "the handler returned".

**ResponsesCodec** (`translate/respout.go`) has the responsesOut as a record and
its methods as operators.  JSON is abstracted to braces: an input is an object
when it begins and ends with one, and the free text of a custom tool is what is
between them.  **Fragments** cuts tool inputs, for this encoder and Chat's, at a size that
is a constant of the model.
**ResponsesOut** feeds the machine from a source of its own, which makes any
disciplined stream, as the translator is proved to do, but gives tool inputs in
fragments and errors anywhere: the code is written for both, and the idle timer's
error does come anywhere.  An input is any of
`ToolInputs`, whole, truncated, or with more behind an object; `calls` remembers which call
had which, so that what is told can be compared with it.  A custom tool's text is unwrapped
as soon as the braces close and is told at once, and cannot be taken back when more
follows in another fragment (`translate/respout.go:444`).  That an unwrapped text gives
way to another one that does not begin with it (`:354`) cannot happen, since an input only
grows and only white space can follow an object that stays one.  The translator sends an
input in one fragment, whatever is in it.

**Pairing** (`translate/pairing.go`) has the steps of `RepairToolPairing` as
operators on lists of messages.  The content of a block is the number of the item
it came in, which tells every two results of a call apart.

**Inbound** (`translate/chatin.go`, `translate/respin.go`) says what a Chat message
or a Responses item becomes, what is dropped of it, and what is said of that.  A
part is one the endpoint takes, of a kind (text, image, thinking), or one it does not
("bad"); a call or a result has an id or none.  Of a reasoning item the thinking is kept and
"bad" is all that `respinReasoningText` leaves out: parts of another type, content that
does not parse.

**Envelope** (`translate/request.go`) is `BuildCcRequest` on the messages, and
`PrefixCacheKey`.  A part keeps the kind, id and number of the block it was made of,
and whether it has a cache marker.

**Requests** puts them in a row as the three handlers do.  Its state is what the
client has sent so far and what was made of it at each stage; an action adds one
item (on the Messages endpoint, one block) and converts the whole history anew, as
happens on every turn of a client.  `earlier` remembers what the last turn that was
settled sent: one whose calls were all answered in place and whose last word was the
user's, which is when a client calls the model.  `settings` picks the endpoint and
the two environment variables that decide on thinking and markers.

**ToolSet** (`translate/respin.go`, and `startToolCall` of `respout.go`) is the tool set
of a Responses request: what is declared at the top, in `additional_tools` items and by
completed searches, flattened to one list of names, with the marks by which a call finds
its way back (`Restore`).  A name is the sequence of its parts, so that a flattened name
may be one the client chose.  **Tools** puts it behind the three endpoints, with
`tool_choice`, `parallel_tool_calls`, effort and limit up to their fields in the envelope
(`translate/chatin.go`, `translate/request.go`).  A request grows by one declaration or
setting a step, and is converted anew.

**Sessions** (`masq/session.go`) is the map of sessions under requests, the hourly ticker
and time.  **Models** (`Upstream.Models`) is the cache of model lists: the lock is given
up for a fetch, so that fetches of one key overlap, fail, or end in any order.  **Stores**
puts both under one clock.

**Lifecycle** (`masq/upstream.go`, `masq/fingerprint.go`) has any number of
request goroutines, the store in memory and on disk, the temporary file, the
store's mutex (held over a whole save, so the others wait), the in-flight marks,
and a clock.  A save is two steps, write and rename; it can fail at both, and the
process can be killed before, between and after.  The unlocked read of
`NextInitAt` in `EnsureInitialized` races with the locked write; the racing read
returns the value before or the value after, or, torn, behaves as one of them in
the comparison that follows, so one atomic read covers it.

## 3. What is checked

All invariants are checked over every reachable state of the instance.

| Run | Module, cfg | Instance | States |
|---|---|---|---|
| answers | MCAnswers, Answers | up to 4 lines; 2 texts, interchangeable; 2 reasons; 3 usage objects; 3 classes of tool input; fragments of 2 runes | 1 987 000 |
| pipeline | MCPipeline, Pipeline | bodies of the limit and one more, in any pieces; up to 3 lines, read in any pieces; three endpoints, both forms; refusals read up to 2 pieces | 1 305 000 |
| responses | MCResponsesOut, ResponsesOut | up to 8 events; 3 kinds of tool, 4 inputs, one going on after an object | 1 271 000 |
| requests | MCRequests, Requests | up to 4 items, or 4 blocks on Messages; 2 call ids, interchangeable; 6 configurations | 698 000 |
| tools | MCTools, Tools | up to 3 declarations and settings; 16 declarations, 6 discovered tools | 81 000 |
| lifecycle | MCLifecycle, Lifecycle | 2 requests, 2 keys, jitter 0 or 1, one failed save, one crash | 748 000 |
| stores | MCStores, Stores | 1 session key; 2 callers, 2 keys; lives of 2 or 3 hours, lists kept for 3, fetches of up to 2 | 116 000 |

What each shows:

* **answers**: `BlockDiscipline` (deltas and stops belong to the open block,
  blocks do not overlap), `BlockSequence` (numbers in order, chunks of a kind
  merged), `SignedThinking`, `ContentPreserved`, `EndsProperly` (the last two
  events report the reason and tokens a definition over the lines alone calls
  for; with no output, an error), `TypeOK`; `MessageMatchesStream` (at every point the
  message is what a client assembles from the stream), `ToolInputsKeptApart`;
  `ChatStreamReadable` (the order of frames, and fragments that add up),
  `StreamMatchesCompletion`, `FailureNeverLooksLikeSuccess`; `TokensAddUp` (what each
  endpoint bills adds up to the upstream's latest usage object).
* **pipeline**: `NoEmptySuccess`, `StreamComplete`; `OutcomeTold` (a failed request, an
  unreachable or refusing upstream included, never looks finished and is told, a good one
  ends as its protocol ends, a body is refused as too large just if it is; failures in Chat
  streams are left to `ChatFailureTold`, and a panic behind the header is told by nothing);
  `ResponseContract`, the refinement of HttpResponse, by which an error takes the form that
  fits: JSON before the header, never behind it; `RequestEnds`, liveness: an accepted
  request ends, unless the upstream for ever does not take it, or refuses it and stalls.
* **responses**: `EventsPaired` (numbers without gaps, items and their parts opened and
  closed in pairs), `TerminalEvent`, `ContentKept`: the three constraints the comment on
  responsesOut states, and what a client reads from them; `ToolInputWhole` (the done event
  and the finished item have the whole input of the call, unwrapped where it is an object
  for a custom tool, and the deltas add up to it; only where a custom tool's input goes on
  after an object may the text of that object come once more ahead of it, see section 4).
* **requests**: `PairingInvariants` (the three constraints the comment in
  pairing.go states, and the order of blocks), `ContentKept`, `LegalUntouched`;
  `LossTold` (whatever of a history is not in the envelope, a warning names it, but for
  the three kinds of content that `SilentlyLost` names, see section 4, and no warning tells
  of a loss that was none, or of one of these three); `ResultsFollowCalls` and `MediaFollowsResults` in the envelope;
  `BreakpointPlaced` and `CacheGrows` (a turn's request begins with what the last one
  sent, its breakpoint does not move back, its session is the same).
* **tools**: `EveryToolReachable`, `CallsComeBack`, `SettingsHonoured`.
* **lifecycle**: `OneAtATime`, `OneFingerprint`, `FileIsStore`; the action
  property `FileKeepsThePeriod`; `EveryRequestGoesOn`, liveness.
* **stores**: `ModelsFresh`; the action property `SessionPeriod`; `ExpiredEntriesGo`,
  liveness.

Why the bounds are enough. The translator's decisions look at the open block, the finish
flags and whether an error was seen: four lines reach every combination of them, and
follow it by another line and by `Finish`. Two texts make a reordering visible. The
aggregator and the encoders add a switch between blocks, and two tools with something
between them, which four lines hold. Eight events of ResponsesOut are two items with
parts and deltas, or a tool input in fragments and what follows it, the last fragment behind an object
included. Four items of
Requests are two calls, in one message or two, with their results in any order, or a
call, its result and something between or behind them, and then a turn more; ids beyond
two behave like either of the two. An item has at most two parts, one of them of a kind
that is dropped, and a Messages marker is on a text or a result, since every kind
carries it in the same way. The histories hold every kind of content that the code drops,
with a warning or without: among them documents in and outside of results, redacted
thinking, and reasoning items with a part that is no reasoning text, alone or beside some.
In Pipeline three lines are content,
an error and one line more, in any order and any number of reads, with the timer, the
upstream's end and the client's leaving at any point among them; no decision looks
further back than one line, and the limit on a body is met by one of its size and one
above it. `RefusalLimit` stands for 64 KiB: below it a refusal is read on, at it no more,
and 2 pieces reach both. Three declarations or settings of Tools are two tools whose names collide and
a discovery or a choice that names one of them, or a tool and two settings; the tools
are chosen so that every pair of sources can collide. In Stores each conflict is between
two callers over one key; the two lifetimes of a session differ, and a fetch times out
before a list expires, as in the code. Symmetry is used for the texts of `answers` and
the ids of `requests`, which the modules only compare for equality. Lifecycle has two
requests because each conflict in it is between two, over one key or over the file they
share; one crash and one failed save meet every step of both; the clock passes one
period. Nothing here replaces a proof for more of each; section 5 says what
is proved.

Fairness.  The translator and its answers, ResponsesOut, Requests and Tools are driven by
their caller and state no liveness.  In Pipeline the handler's steps are weakly fair
where it is not blocked: the wait for a header is bounded by the transport's 120 s, and a
write to the client is assumed to return (the server sets no write timeout, see the
hazards).  It may be blocked for ever in two places besides a read of the stream, while
the client stays: in writing the request, since the header's time counts from the end of
that, and in reading the body of a refusal, which has no timer.  Nothing is assumed of them;
`RequestEnds` exempts an upstream that stalls there for ever (`UpstreamStalls`); without
this exemption TLC finds a handler that never ends.
`HandlerCanStep` says of a state that the handler has a step, which TLC evaluates faster
than ENABLED of the steps themselves.  The
timer is weakly fair, since `time.AfterFunc` fires.  Nothing is asked of the upstream or
the client: `RequestEnds` holds because the timer wakes a read of the stream, and it starts
when the body has arrived, since nothing bounds an upload.  In
Lifecycle each goroutine is strongly fair, because Go's `sync.Mutex` hands over
to a waiter that starves; without it one request could be passed by others for
ever.  Pre-requests end by the client's 10 s timeout.  Restart is weakly fair.  In
Stores the cleanup is weakly fair: its ticker and its goroutine live as long as the
process.

`CHECK_DEADLOCK FALSE` stands in the configurations whose system ends: a stream
or a request is over, a history or a list of tools has its full length.  Lifecycle and
Stores are checked for deadlock.

Every property has an operator marked `Mutant:` in the module it is about: a
plausible bug in the definition it follows, under which TLC finds the property
violated.  They are used nowhere else.

## 4. Where the code and its comments disagree

Five runs state what a comment or the code next to it says, and TLC finds each
violated by what the code does.

1. `ErrorAlwaysReported` (translator_error): an upstream error event without an
   `error` object makes `Feed` dereference nil (`translate/stream.go:138`),
   although the lines below have fallbacks for a missing message.  The middleware
   recovers; after the header is out the client sees a stream that just stops.
2. `ChatFailureTold` (pipeline_chat_error): on the Chat endpoint an upstream error
   before the first frame silences the encoder; if content follows, the header goes
   out, and at the end of the stream the pipeline takes the error as told
   (`server/pipeline.go:256`).  The client gets an empty 200.
3. `SentOnlyWhenDue` (lifecycle_stale): `EnsureInitialized` reads the time before
   it takes the in-flight mark and does not read it again
   (`masq/upstream.go:94`), so a second round can go out inside the period.
4. `ClosedOnlyWhenIdle` (pipeline_idle): the timer is reset when a read begins and
   runs on while the handler delivers what was read (`server/body.go:118`), so a
   slow client makes a lively upstream time out.
5. `CallsReturnAsDeclared` (tools_namespaced): a custom tool declared in a namespace is
   marked both as custom and with its namespace, and `startToolCall` looks at the
   custom mark first (`translate/respout.go:254`).  Its call comes back as a
   custom_tool_call under the flattened name, without the namespace, against the comment
   at `translate/responses_mapping.go:5`.

Three others are stated by properties of the passing runs, as what the code does instead:

* `RequestEnds` exempts `UpstreamStalls`.  The comment on `Upstream.client`
  (`masq/upstream.go:26`) does without a time limit for the whole because the reading of
  the body is limited, but the body of a refusal is read before there is an idle reader
  (`server/pipeline.go:166`).  An upstream that refuses a request and stalls holds the
  handler for as long as the client waits.
* `ToolInputWhole` has `ToldAhead`.  When the fragments of a custom tool's input make an
  object and then more comes, what was told of the object is told again with the rest
  (`translate/respout.go:446`), so that the deltas do not add up to the done event as the
  comment there has it.  The translator sends an input in one fragment, and nothing else
  feeds this code, so no request gets there today.
* `LossTold` has `SilentlyLost`.  The comment on `BuildCcRequest`
  (`translate/request.go:32`) says that its warnings describe everything that is dropped.
  `toolResultContent` skips a block of a tool result that is neither text nor image without
  one (`:464`), and `convertAssistant` skips `redacted_thinking` in the same way (`:386`).
  The third silent loss is of a Responses reasoning item: what is neither summary nor
  reasoning text, or cannot be parsed (`translate/respin.go:602`); no comment promises a
  warning there.

Others were seen and have no property:

* two more silent losses are outside of what the model calls a history: the encrypted form
  of a reasoning item, dropped on purpose, and blocks of a Messages system prompt that are
  no text, or a system prompt that does not parse (`translate/request.go:251`);
* a call that a Responses client replays is passed on under the name it came with, its
  namespace ignored, so the upstream sees the child's name where it was told the
  flattened one; likewise a `tool_choice` may name a tool that was dropped;
* a tool input that is not JSON becomes `{}` in the buffered message only
  (`translate/aggregate.go:92`), where the comment on Aggregator has both forms mean
  the same;
* the signature of a thinking block covers the thinking text of the whole message
  (`translate/stream.go:250`), so the same block text can carry different signatures,
  where the comment on `FakeThinkingSignature` calls them stable;
* `RepairToolPairing` indexes results by call id over the whole history: when a client
  uses an id again in a later turn, the earlier result is replaced by the later one
  (`translate/pairing.go:135`), although the history was legal;
* with CC_ASSISTANT_REASONING=0 a request that has only thinking passes the check for
  a request without messages and goes up with an empty envelope; its loss is told;
* a call that was left unanswered is dropped from the request, and user messages before
  and behind it are merged.  When its answer comes in a later turn, the history changes
  before its end, and so does the session, if the call followed the first user message.
  `CacheGrows` is therefore about settled histories.

## 5. What is proved

Every theorem is about the specification a run checks, for every value of its
constants: streams of any length, any sets of payloads, keys, requests and callers, any
fragment size.  The assumptions are those the modules state: the empty text is no
payload, usage counts are naturals, tool inputs are of the five classes, a fragment has
at least one rune, the bounds are naturals, a refusal's status is not 200; in ResponsesOut,
texts and tool inputs are sequences, whatever is in them; in Tools, a name is a sequence of parts and
the children of a namespace have none themselves.

**StreamProofs**, of the translator:

* `TypeCorrect`: `Spec => []TypeOK`, which includes that usage counts stay naturals
  (`DeltaUsageType`: what is billed as fresh input never goes below zero);
* `BlocksDisciplined`: `Spec => []BlockDiscipline`;
* `BlocksNumbered`: `Spec => []BlockSequence`;
* `ContentDelivered`: `Spec => []ContentPreserved`;
* `ThinkingSigned`: `Spec => []SignedThinking`;
* `MessageEnds`: `Spec => []EndsProperly`.

`BlockDiscipline` and `BlockSequence` speak of the events alone and are not
inductive: nothing in them ties the stream to `openType`, `openIndex` and
`nextIndex`, by which the next step decides.  The inductive invariant `IInv` adds that
link, `Bookkept(last)`: `last` is the kind of the latest block, which has the number
below `nextIndex`; if `openType` names a kind then that block is of it, has number
`openIndex` and is still open, and if not then none is.  Lemmas say once what appending
a start, a delta, a stop or another event does to a disciplined and numbered sequence;
the step of each action is a short composition of them.

`ContentPreserved` pairs lines and deltas by their place among their like.  It is
inductive by itself once it is known what an appended element does to places
(`PositionAdded`): it takes the next one and moves no other.  A signature is computed
from `thinkingText`, so `SigningInv` adds to `SignedThinking` that this field holds the
reasoning of the stream, chunk by chunk; together with `IInv`, which says that the block
being closed is the open one, it is inductive.  `EndsProperly` defines reason and usage from the
lines alone, so its invariant says what the fields have taken from them: `Accounts`
(usage is the latest usage object, the estimate counts the content, a finish-step's reason
wins over a finish's), and `EndsInv` (a block is open just if `openType` says so, no end
without `finished`).

**AnswersProofs**, of AnswersSpec:

* `MessageIsTheStream`: `[]MessageMatchesStream`;
* `ToolsHaveTheirInputs`: `[]ToolInputsKeptApart`;
* `ChatStreamIsReadable`: `[]ChatStreamReadable`;
* `StreamIsTheCompletion`: `[]StreamMatchesCompletion`;
* `FailureStaysAFailure`: `[]FailureNeverLooksLikeSuccess`;
* `EveryTokenBilledOnce`: `[]TokensAddUp`.

The argument has two halves.  The first knows no translator.  `Aggregated(s, a)` says
that aggregator `a` is what stream `s` makes it, `Coded(s, c, fs, h)` the same of the
encoder, all frames it returned, and the chat aggregator; each is kept by every event
that keeps the stream `Good` (disciplined, numbered, one chunk to a delta, nothing after
its end).  Here it matters that deltas belong to the open block: only so is the
latest block, to which both aggregators write, the one that the event names, and
a fragment of a tool's input the latest tool's.  The second half shows that what
the translator sends is good, that a call appends some events (`CallAdds`), and, by
induction over these, that `Mirrored` holds after the call if it held before.
`AnswersInv` is that, with the translator's invariants and two facts that connect its
fields to the stream: an error is told in it (`ErrorsTold`), and the tokens it reports are
the accounted ones (`TokensTold`).  `ToolInputsKeptApart` compares the message
with the lines, not with the events; `ToolsKept` relates those two, and tool blocks and
their starts are matched one to one and in order (`SamePlaces`).

**PipelineProofs**, of PipelineSpec, on each of the three endpoints:

* `StreamsComplete`: `[]StreamComplete`;
* `NoSuccessIsEmpty`: `[]NoEmptySuccess`;
* `OutcomesTold`: `[]OutcomeTold`, of every failure, those of the upstream call included;
* `ResponsesContract`: `PipelineSpec => ResponseContract`, the refinement of
  HttpResponse: initial states map to initial states, and every step to a step of it
  or a stutter.  It needs that what the encoders return are frames, none of them a JSON
  object (`Framed`), and that a JSON object is written only while no header is out.

The lemmas about the encoders (`EncodeMiddle`, `EncodeEnd`, `EncodeError`, from
StreamProofs and ResponsesCodecProofs) say for all three alike what one event
makes of an encoder: before the end its frames tell no end, the end of the message is
told once, after an error it is silent or tells it.  They are lifted to a call of
`encodeAll` by induction over its events, and to what the translator's calls return.
`FrontInv` is about the body, the upstream call and how the scan ended; `WorkInv` about the handler at
work: what the encoder returned so far is held back as a whole or was sent as a
whole, it tells no end, and the header is out just if content is.  The properties
are about the finished request and follow from the last step, one lemma for each way
in which the handler can end.

**ResponsesOutProofs**, of ResponsesOut's `Spec`, for texts of any length, any number of
tools of any kind, and inputs cut anywhere:

* `EventsArePaired`: `Spec => []EventsPaired`;
* `ToolInputsAreWhole`: `Spec => []ToolInputWhole`;
* `OneTerminalEvent`: `Spec => []TerminalEvent`;
* `ContentIsKept`: `Spec => []ContentKept`.

All four follow from one inductive invariant, `StreamInv` (`StreamInvariant`).  The
properties speak of the events alone, while the next event is decided by the fields of
the record.  `Told` is the link: it says
of a sequence of events how many items it completes, which one is open, which of its
parts have begun and at what stage the latest is (`ItemsTold`, `PartsTold`), what the
fragments of the open tool's input add up to (`ToolTold`), and which texts all deltas
together carry.  There is one lemma for each type of event that says how sending it
moves `Told` on, and above them one for each method of the record, which composes these:
a record is `Between` items, `InText`, `InReasoning`, `InTool`, or `AfterText`, when a
text part was closed and its message waits for another.  Parts must be counted from the
item's first.  What was sent of a custom tool's text is that of an object its input began
with (`Unwrapped`): the end of the input completes it, or all is sent behind it (`ToldAhead`),
the latter only where something followed an object.  `BlockOpen` ties the open item to the source's open block, and
for a tool says that what was fed and what is left are the input of its call (`InputFed`),
which `calls` remembers.  After the terminal
event `Over` keeps `EndTold`: it is the last, and lists what was done.

**StateProofs**, of Lifecycle's `Spec`, for any sets of requests and keys, any period,
jitters and bounds:

* `NeverTwoRounds`: `Spec => []OneAtATime`;
* `FileFollowsStore`: `Spec => []FileIsStore`;
* `FingerprintKept`: `Spec => []OneFingerprint`;
* `PeriodKept`: `Spec => FileKeepsThePeriod`, an action property.

The first three follow from one inductive invariant `IInv` (`Invariance`).  Besides
types it says who holds the store's lock and where (`Locking`), that a request
past its first step has a key with a fingerprint (`Fingerprinted`), that unless a
failed save was lost the temporary file and the state file hold the fingerprints
memory has, except for the key being saved (`FileFollows`), and that what the
upstream was told is the fingerprint that memory holds and, unless the last save
failed, the file too (`Remembered`).  The last two are why a crash between write and rename is harmless:
a fingerprint is sent only after its save ended, so one that the upstream knows is
in the file, or its save failed.  One lemma per action shows that it keeps the
invariant.  `PeriodKept` needs times as well.  `Timely` orders them: no next time, in
memory or in the file, is set further ahead than a period (and its jitter) from now;
memory is never behind the file; a request that is about to schedule replaces an earlier
time; and what a request owes when it sends is past.

and of `StoresSpec`, for any sets of keys and callers and any lengths of time:

* `ListsFresh`: `StoresSpec => []ModelsFresh`;
* `SessionsLast`: `StoresSpec => SessionPeriod`, an action property, from the type of
  the sessions alone (`SessionsTypeCorrect`).

`ModelsFresh` bounds the age of what is served, which the cache does not record: it
knows when a list was stored, not when it was made.  The inductive invariant `ModelsInv`
carries that over from the fetch: a list on its way is no older than its fetch, which
ends by the timeout (`OnTime`), and a list in the cache is its key's and no older than
the time it was held and one timeout (`Served`).

and of `ToolsSpec`, for any tools, any number of declarations, and searches with any
outputs:

* `ToolsAlwaysReachable`: `ToolsSpec => []EveryToolReachable`;
* `CallsAlwaysComeBack`: `ToolsSpec => []CallsComeBack`;
* `SettingsAlwaysHonoured`: `ToolsSpec => []SettingsHonoured`.

A step converts the whole request anew, so the inductive invariant
(`RequestsConverted`) only says that the request is one and that what was sent is its
conversion; the work is in the conversion.  Its loops are written as recursive
functions, whose equations are lemmas (`DeclareIs`, `PromoteToolsIs`, ...).  `Standing`
is the invariant of these loops: after the leaves `L` (the tools declared one by one, a
namespace's among them) and the unusable declarations `U`, the set has a tool for each of
`L`, under different names, and none besides; each tool belongs to a leaf that has all of
its marks, each mark to a leaf that asks for it; each of `U` was told; or there was an
error, and two tools have one name or one tool was declared twice.  `AddOutcome` is the
heart of it: `add` fails only for the name of another leaf or a repetition.
`CallsComeBack` needs the marks in both directions, since `startToolCall` decides by what
is marked and by what is not.  In the settings, each conversion keeps what the field means
or says that it gave it up (`Keeps`), and `WarningsApart` shows that no warning about one
field passes for one about another.

**RequestProofs**, of RequestsSpec, for any ids and histories of any length on the Chat
and Responses endpoints, the last two of them on the Messages endpoint too:

* `PairingAlwaysHolds`: `RequestsSpec => []PairingInvariants`;
* `ContentAlwaysKept`: `RequestsSpec => []ContentKept`;
* `LegalAlwaysUntouched`: `RequestsSpec => []LegalUntouched`;
* `ResultsAlwaysFollow`: `RequestsSpec => []ResultsFollowCalls`;
* `MediaAlwaysFollows`: `RequestsSpec => []MediaFollowsResults`;
* `BreakpointAlwaysPlaced`: `RequestsSpec => []BreakpointPlaced`.

Each turn converts and repairs the whole history anew, so the inductive invariants are
equations: what is sent is the repair of what was made of the items, whose numbers are
their places (`HistoryRepaired`), the envelope is built from it, and what the client is
told is what the conversion, the repair and the envelope had to say (`RequestBuilt`).
The work is in the repair, a merge, a pass over the messages and a merge again.  Filters,
flattening and merging are lists computed element by element; each is reasoned about by
the table of what it has after n elements (`SelectIs`, `FlattenIs`, `MergeIs`), by
induction over n.

* The pass makes a row that is `Paired`: calls come last in their message, their results
  are the message that follows, in their order, and there are none elsewhere.  It keeps
  contents, and the calls that are answered (`KeptOf`).
* A merge moves no block (`MergingKeepsBlocks`), and of a paired row it makes well-formed
  messages: `Regrown` says what a partial merge looks like, whose last message may still
  grow, and every message that comes keeps it.
* Items are numbered by their places and are converted in their order, so that numbers
  ascend and the last result of a call is the one with the greatest (`LatestAnswers`).
* Messages that were well-formed when merged, and call no id twice, have one result for
  each call.  The pass cuts the results from the user's words behind them and the last
  merge joins them again, so that the repair returns what it was given (`Regained`,
  `PairingUndone`).  Nothing is said of their pairing, neither by the repair
  (`NothingToSay`) nor by the envelope, whose conversion also warns of results without a
  call (`EnvelopeTells`).
* The split into the messages of the envelope keeps each result behind its call.  An
  envelope is `Whole` if every call is followed by its result, in a message of its own, and
  it has as many results as calls; whole envelopes in a row are whole (`WholesJoin`).  A
  message without calls and the answer to one without are whole by themselves
  (`AssistantAlone`, `UserAlone`).  A message with calls is whole with the next
  (`PairIsWhole`), since what the user says goes out behind the results
  (`ResultsLead`); their names come from the only call of the id (`NamesAre`).  The marker
  changes texts only (`MarkerKeeps`, `MarkedIsWhole`).
* The images of results go with their numbers.  An envelope is `Cared` for some numbers if
  behind every result of one of them its image is shown before the assistant speaks.  So
  is what a user message becomes: `UserTended` follows `flushUser`, which sends the images
  that wait ahead of the user's words, and `convertUser`, which sends what still waits at
  the end; an assistant message brings no results (`AssistantSent`).  Such envelopes in a
  row are such an envelope (`CaresJoin`).  That a result is found by its number needs one
  result for each: an item makes one at most (`ResultsNumbered`), and on the Messages
  endpoint, where nothing is repaired, blocks are numbered by their places
  (`BlocksInOrder`, an invariant with a proof of its own, `MessagesInOrder`).
* The marks of the envelope are followed part by part.  Before `synthesizeCacheMarker`
  each part is `Copied` from a block, with its mark, or `Moved` out of a result, without
  one (`BuiltIsDrawn`).  A part is matched with its block by kind, id and number: on the
  Messages endpoint `BlocksInOrder` makes the number enough, on the other two no block
  has a mark to match (`RepairedBare`), and with `CC_CACHE_MARKERS=replace` none has one
  left (`ParsedAre`); so the parts with a mark are the client's (`MarksAreTheClients`).
  `MarkerPlaced` says what the synthesis does to the parts of the whole envelope, counted
  across its messages (`FlattenPlaces`): nothing, or the last text gets the only mark.

Only model-checked:

* all liveness (`RequestEnds`, `EveryRequestGoesOn`, `ExpiredEntriesGo`) and anything
  about ENABLED, which the prover does not handle;
* `LossTold`, which follows whatever a client sent through the conversion, the repair and
  the split into the messages of the envelope and matches each loss with a warning, and
  `CacheGrows`, which compares two requests.  TLC checks them on every history up to the
  bound.  The list functions they are about are not the obstacle, as above: these proofs
  are not done;
* `CallsReturnAsDeclared` and the other four properties that the code violates (section 4), which are false.

## 6. What is not modelled, and the plan

Not modelled, with the reason in `PROJECT.json`:

* the version refresher: one goroutine writes one atomic value, and readers take what
  is there;
* configuration, the routing table, CORS, the health and root pages: no state;
* the request fields that are copied (temperature, `prompt_cache_key`, message-level
  `reasoning_content`), ignored with a warning, or stand for the machine;
* the wording of messages and warnings, and the count of consecutive timeouts, which only
  chooses a wording;
* ids, timestamps, echoed request fields and the bytes of JSON;
* what is drained of a body after it was refused as too large.

The modules were written with the most important behaviour first: Events, Usage,
StreamTranslator and its proofs, Aggregate, ChatCodec, Fragments and Answers;
ResponsesCodec and ResponsesOut; Errs, Pipeline and HttpResponse; Lifecycle and its
proofs; Pairing, Inbound, Envelope and Requests; ToolSet and Tools; Sessions, Models,
Stores and their proofs; the proofs of Tools and of Requests.  Nothing that keeps state or
decides is left to model; the stateless parts above could only be restated.  Of the safety
properties, two of Requests are without a theorem; they are listed at the end of section 5.
