------------------------------ MODULE Pipeline ------------------------------
(***************************************************************************)
(* internal/server: one request from the reading of its body to the end of *)
(* its response.  The handlers of the three endpoints, pipeline.go         *)
(* (runPipeline, serveStream, serveBuffer), and the limitedReader, the     *)
(* idleReader and the sseWriter of body.go.                                *)
(*                                                                         *)
(* Four parties take steps: the handler goroutine, the timer goroutine of  *)
(* the idleReader, the upstream, and the client, who may go away.  The     *)
(* handler reads the upstream body in pieces of some lines and feeds them  *)
(* to the translator one by one; its frames are buffered until there is    *)
(* content, so that a failure before that is a plain JSON error.           *)
(***************************************************************************)
EXTENDS ChatCodec, ResponsesCodec, Errs

CONSTANTS
  Protocols,     \* endpoints: "messages" (a frame is an event), "chat", "responses"
  Modes,         \* of the answer: "stream", "buffer"
  MaxBody,       \* MaxBodyBytes, the limit of a request body
  BodySizes,     \* sizes of request bodies
  StatusPrefix,  \* message of an upstream error -> the status it begins with, or 502
  Refusals,      \* statuses of upstream refusals
  RefusalLimit   \* pieces of a refusal's body that are read (64 KiB)

ASSUME ProtocolsAssumption == Protocols \subseteq {"messages", "chat", "responses"}
ASSUME ModesAssumption     == Modes \subseteq {"stream", "buffer"}
ASSUME BodyAssumption      == MaxBody \in Nat /\ BodySizes \subseteq Nat
ASSUME PrefixAssumption    == StatusPrefix \in [Messages -> Nat]
ASSUME RefusalAssumption   == Refusals \subseteq (100..999) \ {200} /\ RefusalLimit \in Nat

VARIABLES
  protocol, mode,  \* of this request
  inbound,   \* the request body, until it is accepted: its size, the part not
             \* yet received (left), the limit less what was received (remaining),
             \* its form, and whether a key came with it
  refusal,   \* the status the upstream refused the request with; 0: it did not
  pc,        \* handler: "front"; "sending" its request upstream; "generate",
             \* waiting for a header; "refusal", reading the body of one;
             \* "scan", "reading", "over"; "done"
  readErr,   \* how the scan ended: "eof", "idle", "failed", None before
  buffered,  \* lines read and not yet scanned
  ready,     \* lines, or pieces of a refusal, sent by the upstream and not read
  upstream,  \* "open", "ended", "broken", "unreachable" (it never answered)
  timer,     \* of the idleReader: "off", "armed", "fired" (its goroutine waits for mu)
  timedOut,  \* idleReader.timedOut: the body was closed by the timer
  gone,      \* the client went away: the request context is cancelled
  codec,     \* the encoder: on the Responses endpoint a responsesOut, else a
             \* ChatEncoder, of which the Messages endpoint uses the frames only
  encoded,   \* history: every frame the encoder returned
  sw         \* the sseWriter and what reached the ResponseWriter:
             \* started, pending; status (0: nothing written), body, retry

requestVars == <<protocol, mode, inbound, refusal>>
readerVars  == <<pc, readErr, buffered>>
sourceVars  == <<ready, upstream, timer, timedOut, gone>>
writerVars  == <<codec, encoded, sw>>
pipelineVars == <<vars, requestVars, readerVars, sourceVars, writerVars>>

---------------------------------------------------------------------------
(* The response. *)

JSONError(s) == [json |-> s]
JSONAnswer   == [json |-> 200]

\* Writes to a client who is gone fail and are ignored.
Wrote(w, fs) == IF gone THEN w ELSE [w EXCEPT !.body = @ \o fs]

\* sseWriter.add
Add(w, fs) == IF w.started THEN Wrote(w, fs) ELSE [w EXCEPT !.pending = @ \o fs]

\* Mutant: the frames held back are dropped.
StartDropsPending(w) == [w EXCEPT !.started = TRUE, !.status = 200, !.pending = <<>>]

\* sseWriter.start
Start(w) ==
  IF w.started THEN w
  ELSE Wrote([w EXCEPT !.started = TRUE, !.status = 200, !.pending = <<>>], w.pending)

\* ErrorWriter.Write: a header written twice is ignored, the body is not.
WriteError(w, s, retry) ==
  [Wrote(w, <<JSONError(s)>>) EXCEPT !.status = IF @ = 0 THEN s ELSE @, !.retry = retry]

WriteAnswer(w) == [Wrote(w, <<JSONAnswer>>) EXCEPT !.status = 200]

\* Mutant: the header goes out with the first frame, message_start.
HasContentAlways == TRUE

\* What makes the handler send the header: tr.ContentStarted().
HasContent == contentStarted'

---------------------------------------------------------------------------
(* The encoder of the endpoint. *)

NewEncoder == IF protocol = "responses" THEN NewResponsesOut ELSE NewChatEncoder

\* The Responses encoder works on the runes of a tool's input.
Spelled(e) ==
  IF IsDelta(e) /\ e.delta = "input_json_delta"
  THEN [e EXCEPT !.payload = Runes(e.payload[1])] ELSE e

\* enc.Feed.  On the Messages endpoint an event is its own frame.
Encode(c, e) ==
  CASE protocol = "messages"  -> [c EXCEPT !.frames = Append(@, e)]
    [] protocol = "chat"      -> ChatEncode(c, e)
    [] protocol = "responses" -> ResponsesFeed(c, Spelled(e))

\* encodeAll: the encoder after the events es, its frames those it returned.
EncodeAll(c, es) ==
  LET after[n \in 0..Len(es)] ==
        IF n = 0 THEN [c EXCEPT !.frames = <<>>] ELSE Encode(after[n - 1], es[n])
  IN IF mode = "buffer" THEN c ELSE after[Len(es)]

\* enc.Finish(): unconditional, the encoder itself knows whether it has failed.
EncoderFinish(c) ==
  CASE mode = "buffer" \/ protocol = "messages"    -> c
    [] mode = "stream" /\ protocol = "chat"      -> ChatEncoderFinish(c)
    [] mode = "stream" /\ protocol = "responses" -> FinishResponse(c)

---------------------------------------------------------------------------
NoInbound == [left |-> 0]

\* json.Valid fails; Unmarshal or the conversion does; neither does.
Forms == {"invalid", "unusable", "usable"}

Inbounds == {[size |-> n, left |-> n, remaining |-> MaxBody, form |-> f, key |-> k] :
               n \in BodySizes, f \in Forms, k \in BOOLEAN}

PipelineInit ==
  /\ Init
  /\ protocol \in Protocols /\ mode \in Modes /\ inbound \in Inbounds
  /\ refusal = 0 /\ pc = "front" /\ readErr = None /\ buffered = 0
  /\ ready = 0 /\ upstream = "open" /\ timer = "off" /\ timedOut = FALSE /\ gone = FALSE
  /\ codec = EncodeAll(NewEncoder, <<MessageStart>>)
  /\ encoded = codec.frames
  /\ sw = [started |-> FALSE, pending |-> codec.frames, status |-> 0, body |-> <<>>, retry |-> 0]

\* The handler returns: its deferred calls cancel the upstream call and stop
\* the timer, a fired one excepted.
Return ==
  /\ pc' = "done"
  /\ timer' = IF timer = "armed" THEN "off" ELSE timer
  /\ UNCHANGED <<readErr, buffered, requestVars>>

\* Steps of the request that touch neither translator nor encoder.
NoEvents == UNCHANGED <<vars, codec, encoded>>

---------------------------------------------------------------------------
(* The front end: readBody and the handler of the endpoint. *)

\* limitedReader: more was received than the limit.
TooLarge == inbound.remaining < 0

\* A read of the body gives what has come.
ReadBody(n) ==
  /\ pc = "front" /\ ~TooLarge /\ ~gone /\ n <= inbound.left
  /\ inbound' = [inbound EXCEPT !.left = @ - n, !.remaining = @ - n]
  /\ NoEvents
  /\ UNCHANGED <<protocol, mode, refusal, pc, readErr, buffered, sourceVars, sw>>

\* An error of the handler before the pipeline: reading ends at the first byte
\* too many or at an error; a whole body must be JSON, come with a key, and
\* leave something to send.
FrontRefuses(s) ==
  /\ pc = "front"
  /\ \/ s = 413 /\ TooLarge
     \/ s = 400 /\ ~TooLarge /\ inbound.left > 0 /\ gone
     \/ s = 400 /\ ~TooLarge /\ inbound.left = 0 /\ inbound.form = "invalid"
     \/ s = 401 /\ ~TooLarge /\ inbound.left = 0 /\ inbound.form # "invalid" /\ ~inbound.key
     \/ s = 400 /\ ~TooLarge /\ inbound.left = 0 /\ inbound.form = "unusable" /\ inbound.key
  /\ sw' = WriteError(sw, s, 0)
  /\ Return /\ NoEvents
  /\ UNCHANGED <<ready, upstream, timedOut, gone>>

FrontAccepts ==
  /\ pc = "front" /\ ~TooLarge /\ inbound.left = 0 /\ inbound.form = "usable" /\ inbound.key
  /\ pc' = "sending" /\ inbound' = NoInbound
  /\ NoEvents
  /\ UNCHANGED <<protocol, mode, refusal, readErr, buffered, sourceVars, sw>>

---------------------------------------------------------------------------
(* runPipeline: the upstream call. *)

\* The transport writes the request, as far as the upstream takes it; the time
\* set for the header counts from the end of it.
RequestSent ==
  /\ pc = "sending" /\ pc' = "generate"
  /\ NoEvents
  /\ UNCHANGED <<requestVars, readErr, buffered, sourceVars, sw>>

\* No connection, one that broke, or no header in time.
GenerateFails ==
  /\ pc \in {"sending", "generate"} /\ Return /\ NoEvents
  /\ upstream' = "unreachable"
  /\ sw' = IF gone THEN sw ELSE WriteError(sw, 502, 0)
  /\ UNCHANGED <<ready, timedOut, gone>>

\* A header with another status than 200: first its body is read, ...
GenerateRefused(code) ==
  /\ pc = "generate" /\ pc' = "refusal"
  /\ refusal' = code
  /\ NoEvents
  /\ UNCHANGED <<protocol, mode, inbound, readErr, buffered, sourceVars, sw>>

\* ... up to its end, an error or the limit.  No timer runs meanwhile.
RefusalRead == ready >= RefusalLimit \/ upstream # "open" \/ gone

AnswerRefusal ==
  /\ pc = "refusal" /\ RefusalRead
  /\ sw' = WriteError(sw, MapStatus(refusal), RetryAfter(refusal))
  /\ Return /\ NoEvents
  /\ UNCHANGED <<ready, upstream, timedOut, gone>>

\* newIdleReader starts the timer.
GenerateSucceeds ==
  /\ pc = "generate" /\ pc' = "scan"
  /\ timer' = "armed"
  /\ NoEvents
  /\ UNCHANGED <<requestVars, readErr, buffered, ready, upstream, timedOut, gone, sw>>

---------------------------------------------------------------------------
(* Reading: idleReader.Read under the scanner, which calls it when it has  *)
(* no whole line left.                                                     *)

\* Mutant: a read stops the timer and nothing starts it again.
RearmedNever == IF timer = "fired" THEN "fired" ELSE "off"

\* timer.Reset, at the start of a read; it does not call back a fired timer.
Rearmed == IF timer = "fired" THEN "fired" ELSE "armed"

ReadStart ==
  /\ pc = "scan" /\ buffered = 0
  /\ IF timedOut
     THEN pc' = "over" /\ readErr' = "idle" /\ UNCHANGED timer
     ELSE pc' = "reading" /\ timer' = Rearmed /\ UNCHANGED readErr
  /\ NoEvents
  /\ UNCHANGED <<requestVars, buffered, ready, upstream, timedOut, gone, sw>>

ReadLines ==
  /\ pc = "reading" /\ ready > 0 /\ ~timedOut /\ ~gone
  /\ buffered' = ready /\ ready' = 0
  /\ pc' = "scan"
  /\ NoEvents
  /\ UNCHANGED <<requestVars, readErr, upstream, timer, timedOut, gone, sw>>

\* Any error of a read, end of file included, is a timeout once the timer has
\* closed the body.
ReadErrorKind(kind) == IF timedOut THEN "idle" ELSE kind

\* The end of the body; or an error: the connection broke, the context was
\* cancelled, the timer closed the body, or a line exceeds scannerMaxLine.
ReadEnds(kind) ==
  /\ pc = "reading" /\ pc' = "over"
  /\ \/ kind = "eof" /\ ready = 0 /\ upstream = "ended"
     \/ kind = "failed" /\ (upstream = "broken" \/ gone \/ timedOut \/ ready > 0)
  /\ readErr' = ReadErrorKind(kind)
  /\ NoEvents
  /\ UNCHANGED <<requestVars, buffered, sourceVars, sw>>

\* The scanner yields a line: it is translated and encoded, and the header is
\* sent once there is content.  A panic of the translator is recovered by the
\* middleware, which answers 500 if nothing was written.
ScanLine ==
  /\ pc = "scan" /\ buffered > 0
  /\ Feed
  /\ IF panicked'
     THEN /\ Return
          /\ sw' = IF sw.status = 0 THEN WriteError(sw, 500, 0) ELSE sw
          /\ UNCHANGED <<codec, encoded>>
     ELSE /\ buffered' = buffered - 1
          /\ codec' = EncodeAll(codec, NewEvents)
          /\ encoded' = encoded \o codec'.frames
          /\ sw' = IF mode = "buffer" THEN sw
                   ELSE IF HasContent THEN Start(Add(sw, codec'.frames))
                   ELSE Add(sw, codec'.frames)
          /\ UNCHANGED <<requestVars, pc, readErr, timer>>
  /\ UNCHANGED <<ready, upstream, timedOut, gone>>

---------------------------------------------------------------------------
(* The end of the request. *)

\* The context is looked at first: nothing is written to a client who is gone.
EndDisconnected ==
  /\ pc = "over" /\ readErr # "eof" /\ gone
  /\ Return /\ NoEvents
  /\ UNCHANGED <<ready, upstream, timedOut, gone, sw>>

\* Mutant: a read error is written as JSON whether or not the header is out.
TellReadErrorAsJSON(w, fs, s, retry) == WriteError(w, s, retry)

TellReadError(w, fs, s, retry) == IF w.started THEN Add(w, fs) ELSE WriteError(w, s, retry)

\* A read error: an error event through the encoder in a stream that has
\* started, a JSON error otherwise.  Finish is not called.
EndReadError(kind, s, retry) ==
  /\ pc = "over" /\ readErr = kind /\ ~gone
  /\ Return
  /\ codec' = EncodeAll(codec, IF sw.started THEN <<ErrorEvent(kind)>> ELSE <<>>)
  /\ encoded' = encoded \o codec'.frames
  /\ sw' = TellReadError(sw, codec'.frames, s, retry)
  /\ UNCHANGED <<vars, ready, upstream, timedOut, gone>>

\* Mutant: a stream of a failed upstream is completed like any other.
EndOfStreamCompletes(w) == IF mode = "stream" THEN Start(w) ELSE WriteAnswer(w)

\* What is written after tr.Finish() and enc.Finish(): a JSON error for an
\* upstream error or for zero output while no header is out, otherwise the
\* header if it is still missing.
EndOfStream(w) ==
  CASE hasError /\ ~w.started ->
         WriteError(w, MapStatus(StatusPrefix[errMessage]), RetryAfter(StatusPrefix[errMessage]))
    [] ~hasError /\ OutputTokens = 0 /\ ~w.started -> WriteError(w, 429, 10)
    [] (hasError \/ OutputTokens = 0) /\ w.started -> w
    [] ~hasError /\ OutputTokens > 0 ->
         IF mode = "stream" THEN Start(w) ELSE WriteAnswer(w)

EndEOF ==
  /\ pc = "over" /\ readErr = "eof"
  /\ Finish
  /\ codec' = EncoderFinish(EncodeAll(codec, NewEvents))
  /\ encoded' = encoded \o codec'.frames
  /\ sw' = EndOfStream(IF mode = "stream" THEN Add(sw, codec'.frames) ELSE sw)
  /\ Return
  /\ UNCHANGED <<ready, upstream, timedOut, gone>>

---------------------------------------------------------------------------
(* The other parties. *)

handlerVars == <<vars, requestVars, readerVars, writerVars>>

UpstreamSends ==
  /\ pc \notin {"front", "sending", "generate", "done"} /\ upstream = "open"
  /\ Len(fed) + buffered + ready < MaxLines
  /\ ready' = ready + 1
  /\ UNCHANGED <<handlerVars, upstream, timer, timedOut, gone>>

UpstreamStops(how) ==
  /\ pc \notin {"front", "sending", "generate", "done"} /\ upstream = "open"
  /\ upstream' = how
  /\ UNCHANGED <<handlerVars, ready, timer, timedOut, gone>>

\* The idle time is over, whatever the handler is doing ...
TimerFires ==
  /\ timer = "armed"
  /\ timer' = "fired"
  /\ UNCHANGED <<handlerVars, ready, upstream, timedOut, gone>>

\* ... and its goroutine gets the mutex: the body is closed.
TimerCloses ==
  /\ timer = "fired"
  /\ timer' = "off" /\ timedOut' = TRUE
  /\ UNCHANGED <<handlerVars, ready, upstream, gone>>

ClientLeaves ==
  /\ ~gone /\ pc # "done"
  /\ gone' = TRUE
  /\ UNCHANGED <<handlerVars, ready, upstream, timer, timedOut>>

\* The handler waits for the client to send its request.
FrontEnd ==
  \/ \E n \in 1..inbound.left : ReadBody(n)
  \/ \E s \in {400, 401, 413} : FrontRefuses(s)
  \/ FrontAccepts

Handler ==
  \/ RequestSent \/ GenerateFails \/ GenerateSucceeds
  \/ (\E code \in Refusals : GenerateRefused(code)) \/ AnswerRefusal
  \/ ReadStart \/ ReadLines \/ \E kind \in {"eof", "failed"} : ReadEnds(kind)
  \/ ScanLine
  \/ EndDisconnected \/ EndReadError("idle", 429, 5) \/ EndReadError("failed", 502, 0)
  \/ EndEOF

Timer == TimerFires \/ TimerCloses

PipelineNext ==
  \/ FrontEnd \/ Handler \/ Timer \/ ClientLeaves
  \/ UpstreamSends \/ \E how \in {"ended", "broken"} : UpstreamStops(how)

\* The handler must go on: it is not blocked in writing the request, which
\* takes as long as the upstream likes, nor in a read that has nothing to give.
HandlerCanStep ==
  \/ pc \in {"generate", "scan", "over"}
  \/ pc = "sending" /\ gone
  \/ pc = "refusal" /\ RefusalRead
  \/ pc = "reading" /\ (ready > 0 \/ upstream # "open" \/ gone \/ timedOut)

\* Weak fairness of the handler (the wait for a header is limited, a write to
\* the client returns) and of the timer.  Nothing is asked of the upstream, nor
\* of the client: no time limit is set for the upload of a body.
Fairness ==
  /\ []<>(~HandlerCanStep) \/ []<><<Handler>>_pipelineVars
  /\ WF_pipelineVars(Timer)

PipelineSpec == PipelineInit /\ [][PipelineNext]_pipelineVars /\ Fairness

---------------------------------------------------------------------------
(* Properties. *)

\* What nothing in the code limits while the client waits: an upstream that does
\* not take the request, or that refuses it and does not end its refusal.
UpstreamStalls ==
  /\ ~gone
  /\ pc = "sending" \/ (pc = "refusal" /\ ~RefusalRead)

\* Every request that was accepted ends, unless the upstream stalls there for
\* ever.  Anywhere else either the upstream says something or the timer closes
\* the body and wakes the blocked read; and a client who goes away ends it all.
RequestEnds == <>[]UpstreamStalls \/ (pc = "sending" ~> pc = "done")

\* The response is one an HTTP client can make sense of: one status, a body
\* that only grows, one JSON object for an error or a whole answer, and never a
\* JSON object inside a stream, whenever and wherever the request fails.
Response == INSTANCE HttpResponse WITH
  status <- sw.status, body <- sw.body, closed <- (pc = "done")
ResponseContract == Response!ResponseSpec

\* A 200 is a promise of content: the header of a stream goes out with the
\* first content, or at the end of a stream that reports output tokens.  A
\* request that failed before that gets its error status.
NoEmptySuccess ==
  sw.status = 200 => contentStarted \/ (finished /\ ~hasError /\ OutputTokens > 0)

\* Nothing is lost or reordered by holding frames back: what a present
\* client has received of a stream is all the encoder has produced.
StreamComplete ==
  sw.started /\ ~gone => sw.body = encoded

\* The frame, or the body, that ends an answer of each endpoint.
IsEnd(f) == \/ f \in {MessageStop, DoneFrame, JSONAnswer}
            \/ "type" \in DOMAIN f /\ f.type \in {"completed", "incomplete"}

\* The frame that tells an error in a stream, of each endpoint.
IsError(f) == \/ "name" \in DOMAIN f /\ f.name = "error"
              \/ "frame" \in DOMAIN f /\ f.frame = "error"
              \/ "type" \in DOMAIN f /\ f.type = "failed"

Told(Is(_)) == \E i \in 1..Len(sw.body) : Is(sw.body[i])

\* An error is told by the response as a whole or, once a stream has started,
\* by one of its frames.
ErrorTold == \/ sw.status >= 400 /\ sw.body = <<JSONError(sw.status)>>
             \/ Told(IsError)

Refused == pc = "done" /\ inbound # NoInbound

\* The failure is one of the stream: the upstream had accepted the request.
InStream == ~Refused /\ upstream # "unreachable" /\ refusal = 0

\* The request itself, the call of the upstream, its answer, or the reading of
\* that failed, or there was no output.
Failed == Refused \/ upstream = "unreachable" \/ refusal # 0
            \/ hasError \/ panicked \/ readErr \in {"idle", "failed"}
            \/ (finished /\ OutputTokens = 0)

\* A request ends as it went.  One that failed, at whatever point, never looks
\* like a finished answer, and the client who stayed is told of every failure
\* but a panic, with an error status or with an error in the stream; one that
\* did not fail ends with its protocol's end and without an error.  A request
\* is refused as too large just if it is.  (The failures in streams on the Chat
\* endpoint are the subject of ChatFailureTold.)
OutcomeTold ==
  /\ Failed => ~Told(IsEnd)
  /\ pc = "done" /\ ~gone =>
       /\ Failed /\ ~panicked /\ (protocol = "chat" /\ mode = "stream" => ~InStream)
            => ErrorTold
       /\ finished /\ ~Failed => sw.body # <<>> /\ IsEnd(Last(sw.body)) /\ ~ErrorTold
       /\ Refused => (sw.status = 413 <=> inbound.size > MaxBody)

\* What errorFrames says of the Chat endpoint: an error is sent in the stream,
\* or left to the caller as a JSON error.
ChatFailureTold ==
  protocol = "chat" /\ pc = "done" /\ Failed /\ ~panicked /\ ~gone => ErrorTold

\* What the comment on idleReader says: the body is closed because no data
\* came, to wake a blocked read.  Then the time is never up while the handler
\* is still at work on lines it was given since the read began.
ClosedOnlyWhenIdle ==
  [][TimerFires => buffered = 0]_pipelineVars
=============================================================================
