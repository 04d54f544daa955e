--------------------------- MODULE PipelineProofs ---------------------------
(***************************************************************************)
(* What Pipeline.cfg checks on requests of a few lines, proved for streams *)
(* of every length, endpoint and form of answer.                           *)
(***************************************************************************)
EXTENDS Pipeline, StreamProofs, ResponsesCodecProofs

---------------------------------------------------------------------------
(* The encoder after the events es: encodeAll's loop. *)

IsFold(f, start, es) ==
  f[0] = start /\ \A n \in 1..Len(es) : f[n] = Encode(f[n - 1], es[n])

LEMMA EncodeAllIs ==
  ASSUME NEW c, NEW es, IsSequence(es), mode = "stream"
  PROVE  \E f : IsFold(f, [c EXCEPT !.frames = <<>>], es) /\ EncodeAll(c, es) = f[Len(es)]
<1> DEFINE start == [c EXCEPT !.frames = <<>>]
           F(f, m) == f = [n \in 0..m |-> IF n = 0 THEN start ELSE Encode(f[n - 1], es[n])]
           S == {m \in Nat : \E f : F(f, m)}
<1>1. 0 \in S
  <2> DEFINE f == [n \in 0..0 |-> start]
  <2>1. F(f, 0)
    OBVIOUS
  <2> QED
    BY <2>1
<1>2. ASSUME NEW m \in Nat, m \in S PROVE m + 1 \in S
  <2>1. PICK f : F(f, m)
    BY <1>2
  <2> DEFINE g == [n \in 0..(m + 1) |-> IF n = m + 1 THEN Encode(f[m], es[m + 1]) ELSE f[n]]
  <2>2. \A n \in 0..m : f[n] = IF n = 0 THEN start ELSE Encode(f[n - 1], es[n])
    BY <2>1
  <2> HIDE DEF start
  <2>3. \A n \in 0..(m + 1) : g[n] = IF n = 0 THEN start ELSE Encode(g[n - 1], es[n])
    BY <2>2
  <2>4. g = [n \in 0..(m + 1) |-> g[n]]
    OBVIOUS
  <2> HIDE DEF g
  <2>5. F(g, m + 1)
    BY <2>3, <2>4
  <2> QED
    BY <2>5
<1>3. Len(es) \in Nat /\ Len(es) \in S
  <2>1. Len(es) \in Nat
    BY SequenceLen
  <2> HIDE DEF S
  <2> QED
    BY <1>1, <1>2, <2>1, Induction
<1> DEFINE f == CHOOSE f : F(f, Len(es))
<1>4. F(f, Len(es))
  BY <1>3
<1>5. EncodeAll(c, es) = f[Len(es)]
  BY DEF EncodeAll
<1> HIDE DEF start, f
<1>6. /\ f[0] = start
      /\ \A n \in 1..Len(es) : f[n] = Encode(f[n - 1], es[n])
  BY <1>3, <1>4
<1> QED
  BY <1>5, <1>6 DEF start, IsFold

---------------------------------------------------------------------------
(* What the encoder of the endpoint makes of an event. *)

IsEncoder(c) ==
  /\ protocol \in {"messages", "chat"} => IsChatEncoder(c)
  /\ protocol = "responses" => IsResponsesOut(c) /\ (c.failed => c.terminated)

\* The end of the message, or an error, went through the encoder.  On the
\* Messages endpoint there is none that could know.
Completed(c) ==
  \/ protocol = "chat" /\ c.finished
  \/ protocol = "responses" /\ c.terminated /\ ~c.failed

Erred(c) ==
  \/ protocol = "chat" /\ c.hasError
  \/ protocol = "responses" /\ c.terminated /\ c.failed

SameFate(c, d) == (Completed(d) <=> Completed(c)) /\ (Erred(d) <=> Erred(c))

\* The frames g say nothing of how the answer ends; or some do.
HasEnd(g)   == \E i \in 1..Len(g) : IsEnd(g[i])
HasError(g) == \E i \in 1..Len(g) : IsError(g[i])

\* The pieces of a stream: frames, none of them a JSON object.
HasJSON(g) == \E i \in 1..Len(g) : "json" \in DOMAIN g[i]
Framed(g)  == IsSequence(g) /\ ~HasJSON(g)

\* Encoder d is c with the frames g added.
Gives(c, d, g) == IsEncoder(d) /\ Framed(g) /\ d.frames = c.frames \o g

\* Encoder d is c after an event of the kind: neither end nor error; the end
\* of the message; an error.
GoesOn(c, d) ==
  SameFate(c, d) /\ \E g : Gives(c, d, g) /\ ~HasEnd(g) /\ ~HasError(g)

ComesToEnd(c, d) ==
  /\ protocol # "messages" => Completed(d)
  /\ \E g : Gives(c, d, g) /\ Len(g) > 0 /\ IsEnd(Last(g)) /\ ~HasError(g)

ComesToError(c, d) ==
  /\ ~Completed(d) /\ (protocol # "messages" => Erred(d))
  /\ \E g : /\ Gives(c, d, g) /\ ~HasEnd(g)
            /\ ~Erred(c) /\ protocol # "chat" => HasError(g)

EventFields == {"name", "index", "kind", "payload", "delta", "stop_reason", "usage", "message"}

LEMMA EncoderFrames ==
  ASSUME NEW c, IsEncoder(c), protocol \in {"messages", "chat", "responses"}
  PROVE  IsSequence(c.frames)
BY DEF IsEncoder, IsChatEncoder, IsResponsesOut

\* An encoder whose frames are taken away, as at the start of encodeAll.
LEMMA FramesTaken ==
  ASSUME NEW c, IsEncoder(c), protocol \in {"messages", "chat", "responses"}
  PROVE  LET d == [c EXCEPT !.frames = <<>>]
         IN IsEncoder(d) /\ SameFate(c, d) /\ d.frames = <<>>
<1> DEFINE d == [c EXCEPT !.frames = <<>>]
<1>1. CASE protocol \in {"messages", "chat"}
  <2>1. /\ IsChatEncoder(d) /\ d.frames = <<>>
        /\ d.finished = c.finished /\ d.hasError = c.hasError
    BY <1>1, ShortSequences DEF IsEncoder, IsChatEncoder, ChatFields
  <2> HIDE DEF d
  <2> QED
    BY <1>1, <2>1 DEF IsEncoder, SameFate, Completed, Erred, d
<1>2. CASE protocol = "responses"
  <2>1. /\ IsResponsesOut(d) /\ d.frames = <<>>
        /\ d.terminated = c.terminated /\ d.failed = c.failed
    BY <1>2, ShortSequences DEF IsEncoder, IsResponsesOut, ResponsesFields
  <2> HIDE DEF d
  <2> QED
    BY <1>2, <2>1 DEF IsEncoder, SameFate, Completed, Erred, d
<1> QED
  BY <1>1, <1>2

\* The encoder knows by itself that it is done.
LEMMA EncodeSilent ==
  ASSUME NEW c, Completed(c) \/ Erred(c), NEW e
  PROVE  Encode(c, e) = c
<1>1. CASE protocol = "chat" /\ Silenced(c)
  BY <1>1, SilentForGood DEF Encode
<1>2. CASE protocol = "responses" /\ c.terminated
  BY <1>2, FeedTerminated DEF Encode
<1> QED
  BY <1>1, <1>2 DEF Completed, Erred, Silenced

LEMMA FinishSilent ==
  ASSUME NEW c, protocol # "messages" => Completed(c) \/ Erred(c),
         protocol \in {"messages", "chat", "responses"}, mode \in {"stream", "buffer"}
  PROVE  EncoderFinish(c) = c
<1>1. CASE protocol = "chat" /\ Silenced(c)
  BY <1>1, SilentForGood DEF EncoderFinish
<1>2. CASE protocol = "responses" /\ c.terminated
  BY <1>2, FeedTerminated DEF EncoderFinish
<1> QED
  BY <1>1, <1>2 DEF Completed, Erred, Silenced, EncoderFinish

\* The frames of an event that neither ends the message nor is an error.
LEMMA ContentIsPlain ==
  ASSUME NEW g, IsContent(g) PROVE Framed(g) /\ ~HasEnd(g) /\ ~HasError(g)
<1>1. ASSUME NEW f, IsContentFrame(f) PROVE ~IsEnd(f) /\ ~IsError(f) /\ "json" \notin DOMAIN f
  BY <1>1 DEF IsContentFrame, ContentKinds, IsEnd, IsError, MessageStop, DoneFrame, JSONAnswer
<1> QED
  BY <1>1 DEF IsContent, HasEnd, HasError, Framed, HasJSON

LEMMA RegularIsPlain ==
  ASSUME NEW n, NEW g, Regular(g, n) PROVE Framed(g) /\ ~HasEnd(g) /\ ~HasError(g)
<1>1. ASSUME NEW f, DOMAIN f = FrameFields, f.type \notin TerminalTypes
      PROVE  ~IsEnd(f) /\ ~IsError(f) /\ "json" \notin DOMAIN f
  BY <1>1 DEF FrameFields, TerminalTypes, IsEnd, IsError, MessageStop, DoneFrame, JSONAnswer
<1> QED
  BY <1>1 DEF Regular, HasEnd, HasError, Framed, HasJSON

LEMMA EventIsPlain ==
  ASSUME NEW e \in MiddleEvents PROVE ~IsEnd(e) /\ ~IsError(e) /\ "json" \notin DOMAIN e
<1>1. DOMAIN e \subseteq EventFields
  BY DEF MiddleEvents, Event, EventFields
<1>2. e.name \notin {"message_stop", "error"}
  BY DEF MiddleEvents
<1>3. "name" \in DOMAIN e
  BY DEF MiddleEvents, Encodable
<1> QED
  BY <1>1, <1>2, <1>3 DEF EventFields, IsEnd, IsError, MessageStop, DoneFrame, JSONAnswer

LEMMA SpelledIsFeedable ==
  ASSUME NEW e \in MiddleEvents
  PROVE  LET s == Spelled(e)
         IN Feedable(s) /\ s.name \notin {"message_stop", "error"}
<1> DEFINE s == Spelled(e)
<1>1. /\ e.name \in {"message_start", "content_block_start", "content_block_delta",
                     "content_block_stop", "message_delta"}
      /\ IsStart(e) => e.kind \in Kinds /\ DOMAIN e = {"name", "index", "kind"}
      /\ IsDelta(e) => /\ e.payload \in Seq(Texts \cup JSONTexts)
                       /\ DOMAIN e = {"name", "index", "delta", "payload"}
                       /\ e = [f \in {"name", "index", "delta", "payload"} |-> e[f]]
      /\ IsDelta(e) /\ e.delta = "input_json_delta" => e.payload[1] \in JSONTexts
  BY DEF MiddleEvents, Event, Encodable, IsStart, IsDelta
<1>2. CASE IsDelta(e) /\ e.delta = "input_json_delta"
  <2>1. s = [e EXCEPT !.payload = Runes(e.payload[1])]
    BY <1>2 DEF Spelled
  <2>2. IsSequence(Runes(e.payload[1]))
    BY <1>1, <1>2, RunesType
  <2>3. s.name = e.name /\ s.payload = Runes(e.payload[1])
    BY <1>1, <1>2, <2>1
  <2> HIDE DEF s
  <2>4. s.name = "content_block_delta"
    BY <1>2, <2>3 DEF IsDelta
  <2> QED
    BY <2>2, <2>3, <2>4 DEF Feedable, IsStart, IsDelta, s
<1>3. CASE ~(IsDelta(e) /\ e.delta = "input_json_delta")
  <2>1. s = e
    BY <1>3 DEF Spelled
  <2>2. IsDelta(e) => IsSequence(e.payload)
    BY <1>1 DEF IsSequence
  <2>3. IsStart(e) => ToolKind(e) = "function_call"
    BY <1>1 DEF ToolKind
  <2>4. Feedable(e)
    BY <1>1, <2>2, <2>3 DEF Feedable, Kinds, None
  <2> QED
    BY <1>1, <2>1, <2>4
<1> QED
  BY <1>2, <1>3

LEMMA EncodeMiddle ==
  ASSUME NEW c, IsEncoder(c), protocol \in {"messages", "chat", "responses"},
         NEW e \in MiddleEvents
  PROVE  GoesOn(c, Encode(c, e))
<1> DEFINE d == Encode(c, e)
<1>1. CASE Completed(c) \/ Erred(c)
  <2>1. d = c
    BY <1>1, EncodeSilent
  <2>2. c.frames = c.frames \o <<>> /\ IsSequence(<<>>) /\ Len(<<>>) = 0
    BY EncoderFrames, EmptyConcatenation, ShortSequences
  <2> DEFINE g == <<>>
  <2>3. IsSequence(g) /\ Len(g) = 0 /\ c.frames = c.frames \o g
    BY <2>2
  <2> HIDE DEF g, d
  <2>4. Gives(c, d, g) /\ ~HasEnd(g) /\ ~HasError(g)
    BY <2>1, <2>3 DEF Gives, HasEnd, HasError, Framed, HasJSON
  <2> QED
    BY <2>1, <2>4 DEF GoesOn, SameFate, d
<1>2. CASE protocol = "messages"
  <2>1. d = [c EXCEPT !.frames = Append(c.frames, e)]
    BY <1>2 DEF Encode
  <2>2. IsSequence(c.frames)
    BY EncoderFrames
  <2> DEFINE h == c.frames
  <2>3. d.frames = Append(h, e) /\ d = [f \in ChatFields |-> d[f]]
        /\ d.finished = c.finished /\ d.hasError = c.hasError /\ d.started = c.started
    BY <1>2, <2>1 DEF IsEncoder, IsChatEncoder, ChatFields
  <2> HIDE DEF d, h
  <2>4. d.frames = h \o <<e>> /\ IsSequence(d.frames)
    BY <2>2, <2>3, Appended, AppendIs DEF h
  <2>5. IsEncoder(d)
    BY <1>2, <2>3, <2>4 DEF IsEncoder, IsChatEncoder
  <2>6. ~HasEnd(<<e>>) /\ ~HasError(<<e>>) /\ Framed(<<e>>)
    BY EventIsPlain, ShortSequences DEF HasEnd, HasError, Framed, HasJSON
  <2>7. SameFate(c, d)
    BY <1>2 DEF SameFate, Completed, Erred
  <2> QED
    BY <2>4, <2>5, <2>6, <2>7 DEF GoesOn, Gives, h, d
<1>3. CASE protocol = "chat" /\ ~Completed(c) /\ ~Erred(c)
  <2>1. Carries(c, d)
    <3>1. d = ChatEncode(c, e)
      BY <1>3 DEF Encode
    <3>2. IsChatEncoder(c) /\ ~Silenced(c)
      BY <1>3 DEF IsEncoder, Completed, Erred, Silenced
    <3>3. Encodable(e) /\ e.name \notin {"message_stop", "error"}
      BY DEF MiddleEvents
    <3> QED
      BY <3>1, <3>2, <3>3, EncodeCarries
  <2> HIDE DEF d
  <2>2. PICK g : IsContent(g) /\ d.frames = c.frames \o g
    BY <2>1 DEF Carries
  <2>3. IsEncoder(d) /\ SameFate(c, d)
    BY <1>3, <2>1 DEF Carries, IsEncoder, SameFate, Completed, Erred
  <2> QED
    BY <2>2, <2>3, ContentIsPlain DEF GoesOn, Gives, d
<1>4. CASE protocol = "responses" /\ ~Completed(c) /\ ~Erred(c)
  <2>1. Follows(c, d)
    <3>1. d = ResponsesFeed(c, Spelled(e))
      BY <1>4 DEF Encode
    <3>2. IsResponsesOut(c) /\ ~c.terminated
      BY <1>4 DEF IsEncoder, Completed, Erred
    <3> QED
      BY <3>1, <3>2, SpelledIsFeedable, FeedFollows
  <2> HIDE DEF d
  <2>2. PICK g : Regular(g, c.seq) /\ d.frames = c.frames \o g
    BY <2>1 DEF Follows
  <2>3. IsEncoder(d) /\ SameFate(c, d)
    BY <1>4, <2>1 DEF Follows, IsEncoder, SameFate, Completed, Erred
  <2> QED
    BY <2>2, <2>3, RegularIsPlain DEF GoesOn, Gives, d
<1> QED
  BY <1>1, <1>2, <1>3, <1>4

LEMMA StopIsEnd ==
  ASSUME NEW g, IsSequence(g), Len(g) > 0, IsEnd(g[Len(g)]),
         \A i \in 1..Len(g) : ~IsError(g[i]) /\ "json" \notin DOMAIN g[i]
  PROVE  Framed(g) /\ Len(g) > 0 /\ IsEnd(Last(g)) /\ ~HasError(g)
BY DEF Last, HasError, Framed, HasJSON

\* The end of the message, once: the last frame is the end of the protocol.
LEMMA EncodeEnd ==
  ASSUME NEW c, IsEncoder(c), protocol \in {"messages", "chat", "responses"},
         ~Completed(c), ~Erred(c)
  PROVE  ComesToEnd(c, Encode(c, MessageStop))
<1> DEFINE d == Encode(c, MessageStop)
<1>0. MessageStop.name = "message_stop"
  BY DEF MessageStop
<1>1. CASE protocol = "messages"
  <2>1. d = [c EXCEPT !.frames = Append(c.frames, MessageStop)]
    BY <1>1 DEF Encode
  <2>2. IsSequence(c.frames)
    BY EncoderFrames
  <2> DEFINE h == c.frames
             g == <<MessageStop>>
  <2>3. d.frames = Append(h, MessageStop) /\ d = [f \in ChatFields |-> d[f]]
        /\ d.finished = c.finished /\ d.hasError = c.hasError /\ d.started = c.started
    BY <1>1, <2>1 DEF IsEncoder, IsChatEncoder, ChatFields
  <2> HIDE DEF d, h
  <2>4. d.frames = h \o g /\ IsSequence(d.frames)
    BY <2>2, <2>3, Appended, AppendIs DEF h
  <2>5. IsEncoder(d)
    BY <1>1, <2>3, <2>4 DEF IsEncoder, IsChatEncoder
  <2>6. IsSequence(g) /\ Len(g) = 1 /\ g[1] = MessageStop
    BY ShortSequences
  <2>7. IsEnd(MessageStop) /\ ~IsError(MessageStop) /\ "json" \notin DOMAIN MessageStop
    BY DEF IsEnd, IsError, MessageStop
  <2> HIDE DEF g
  <2>8. Framed(g) /\ Len(g) > 0 /\ IsEnd(Last(g)) /\ ~HasError(g)
    BY <2>6, <2>7 DEF Last, HasError, Framed, HasJSON
  <2> QED
    BY <1>1, <2>4, <2>5, <2>6, <2>8 DEF ComesToEnd, Gives, h, d
<1>2. CASE protocol = "chat"
  <2>1. d = ChatEncode(c, MessageStop)
    BY <1>2 DEF Encode
  <2>2. IsChatEncoder(c) /\ ~Silenced(c)
    BY <1>2 DEF IsEncoder, Completed, Erred, Silenced
  <2> HIDE DEF d
  <2>3. Concludes(c, d)
    BY <1>0, <2>1, <2>2, EncodeStops
  <2>4. PICK r, u, g : /\ g \in {FinalFrames(r, u), <<RoleFrame>> \o FinalFrames(r, u)}
                       /\ IsSequence(g) /\ d.frames = c.frames \o g
    BY <2>3 DEF Concludes
  <2> DEFINE a == FinishFrame(r)
             b == UsageFrame(u)
  <2>5. g = <<a, b, DoneFrame>> \/ g = <<RoleFrame, a, b, DoneFrame>>
    BY <2>4 DEF FinalFrames
  <2>6. /\ ~IsError(RoleFrame) /\ ~IsError(a) /\ ~IsError(b) /\ ~IsError(DoneFrame)
        /\ IsEnd(DoneFrame)
        /\ \A f \in {RoleFrame, a, b, DoneFrame} : "json" \notin DOMAIN f
    BY DEF RoleFrame, FinishFrame, UsageFrame, DoneFrame, IsEnd, IsError
  <2> HIDE DEF a, b
  <2>7. /\ Len(g) > 0 /\ IsEnd(g[Len(g)])
        /\ \A i \in 1..Len(g) : ~IsError(g[i]) /\ "json" \notin DOMAIN g[i]
    <3>1. CASE g = <<a, b, DoneFrame>>
      BY <2>6, <3>1
    <3>2. CASE g = <<RoleFrame, a, b, DoneFrame>>
      BY <2>6, <3>2
    <3> QED
      BY <2>5, <3>1, <3>2
  <2>8. IsEncoder(d) /\ Completed(d)
    BY <1>2, <2>3 DEF IsEncoder, Completed, Concludes
  <2> QED
    BY <2>4, <2>7, <2>8, StopIsEnd DEF ComesToEnd, Gives, d
<1>3. CASE protocol = "responses"
  <2>1. d = ResponsesFeed(c, MessageStop)
    BY <1>3 DEF Encode, Spelled, IsDelta, MessageStop
  <2>2. IsResponsesOut(c) /\ ~c.terminated /\ ~c.failed
    BY <1>3 DEF IsEncoder, Completed, Erred, IsResponsesOut
  <2>3. Terminates(c, d) /\ d.failed = c.failed
    BY <1>0, <2>1, <2>2, FeedTerminates
  <2> HIDE DEF d
  <2>4. PICK g, f : /\ Regular(g, c.seq) /\ d.frames = (c.frames \o g) \o <<f>>
                    /\ DOMAIN f = FrameFields
                    /\ f.type \in TerminalTypes /\ (f.type = "failed" <=> d.failed)
    BY <2>3 DEF Terminates
  <2> DEFINE k == g \o <<f>>
             h == c.frames
  <2>5. IsSequence(h) /\ IsSequence(g) /\ IsSequence(<<f>>) /\ Len(<<f>>) = 1 /\ <<f>>[1] = f
    BY <2>4, EncoderFrames, ShortSequences DEF Regular
  <2>6. /\ IsSequence(k) /\ Len(k) = Len(g) + 1 /\ k[Len(g) + 1] = f
        /\ \A i \in 1..Len(g) : k[i] = g[i]
    BY <2>5, OneAdded
  <2>7. d.frames = h \o k
    <3> DEFINE l == <<f>>
    <3>1. IsSequence(l) /\ d.frames = (h \o g) \o l
      BY <2>4, <2>5
    <3> HIDE DEF l, h
    <3>2. (h \o g) \o l = h \o (g \o l)
      BY <2>5, <3>1, ConcatenationAssociates
    <3> QED
      BY <3>1, <3>2 DEF l
  <2>8. /\ f.type \in {"completed", "incomplete"} /\ IsEnd(f) /\ ~IsError(f)
        /\ "json" \notin DOMAIN f
    BY <2>2, <2>3, <2>4 DEF FrameFields, TerminalTypes, IsEnd, IsError
  <2> HIDE DEF k, h
  <2>9. ~HasError(g) /\ ~HasJSON(g) /\ Len(g) \in Nat
    BY <2>4, <2>5, RegularIsPlain, SequenceLen DEF Framed
  <2>10. /\ Len(k) > 0 /\ IsEnd(k[Len(k)])
         /\ \A i \in 1..Len(k) : ~IsError(k[i]) /\ "json" \notin DOMAIN k[i]
    <3>1. ASSUME NEW i \in 1..Len(k) PROVE ~IsError(k[i]) /\ "json" \notin DOMAIN k[i]
      <4>1. i \in 1..Len(g) \/ i = Len(g) + 1
        BY <2>6, <2>9
      <4> QED
        BY <2>6, <2>8, <2>9, <4>1 DEF HasError, HasJSON
    <3> QED
      BY <2>6, <2>8, <2>9, <3>1
  <2>11. IsEncoder(d) /\ Completed(d)
    BY <1>3, <2>2, <2>3 DEF IsEncoder, Completed, Terminates
  <2> QED
    BY <2>6, <2>7, <2>10, <2>11, StopIsEnd DEF ComesToEnd, Gives, d, h
<1> QED
  BY <1>1, <1>2, <1>3

\* An error: the last there is to say, and said on the endpoints that can.
LEMMA EncodeError ==
  ASSUME NEW c, IsEncoder(c), protocol \in {"messages", "chat", "responses"},
         ~Completed(c), NEW m
  PROVE  ComesToError(c, Encode(c, ErrorEvent(m)))
<1> DEFINE e == ErrorEvent(m)
           d == Encode(c, e)
<1>0. e.name = "error"
  BY DEF ErrorEvent
<1>1. CASE protocol = "messages"
  <2>1. d = [c EXCEPT !.frames = Append(c.frames, e)]
    BY <1>1 DEF Encode
  <2>2. IsSequence(c.frames)
    BY EncoderFrames
  <2>7. ~IsEnd(e) /\ IsError(e) /\ "json" \notin DOMAIN e
    BY DEF IsEnd, IsError, MessageStop, ErrorEvent, DoneFrame, JSONAnswer
  <2> DEFINE h == c.frames
             g == <<e>>
  <2> HIDE DEF e
  <2>3. d.frames = Append(h, e) /\ d = [f \in ChatFields |-> d[f]]
        /\ d.finished = c.finished /\ d.hasError = c.hasError /\ d.started = c.started
    BY <1>1, <2>1 DEF IsEncoder, IsChatEncoder, ChatFields
  <2> HIDE DEF d, h
  <2>4. d.frames = h \o g /\ IsSequence(d.frames)
    BY <2>2, <2>3, Appended, AppendIs DEF h
  <2>5. IsEncoder(d)
    BY <1>1, <2>3, <2>4 DEF IsEncoder, IsChatEncoder
  <2>6. IsSequence(g) /\ Len(g) = 1 /\ g[1] = e
    BY ShortSequences
  <2> HIDE DEF g
  <2>8. Framed(g) /\ ~HasEnd(g) /\ HasError(g)
    BY <2>6, <2>7 DEF HasEnd, HasError, Framed, HasJSON
  <2>9. ~Completed(d)
    BY <1>1 DEF Completed
  <2> QED
    BY <1>1, <2>4, <2>5, <2>6, <2>8, <2>9 DEF ComesToError, Gives, h, d, e
<1>2. CASE protocol # "messages" /\ Erred(c)
  <2>1. d = c
    BY <1>2, EncodeSilent
  <2>2. c.frames = c.frames \o <<>> /\ IsSequence(<<>>) /\ Len(<<>>) = 0
    BY EncoderFrames, EmptyConcatenation, ShortSequences
  <2> DEFINE g == <<>>
  <2>3. IsSequence(g) /\ Len(g) = 0 /\ c.frames = c.frames \o g
    BY <2>2
  <2> HIDE DEF g, d
  <2>4. Gives(c, d, g) /\ ~HasEnd(g)
    BY <2>1, <2>3 DEF Gives, HasEnd, Framed, HasJSON
  <2> QED
    BY <1>2, <2>1, <2>4 DEF ComesToError, d
<1>3. CASE protocol = "chat" /\ ~Erred(c)
  <2>1. d = ChatEncode(c, e)
    BY <1>3 DEF Encode
  <2>2. IsChatEncoder(c) /\ ~Silenced(c)
    BY <1>3 DEF IsEncoder, Completed, Erred, Silenced
  <2> DEFINE f == ErrorFrame(e.message)
             g == IF c.started THEN <<f>> ELSE <<>>
  <2>3. IsChatEncoder(d) /\ d.hasError /\ ~d.finished /\ d.frames = c.frames \o g
    <3> DEFINE x == ChatEncode(c, e)
    <3> HIDE DEF e
    <3>1. IsChatEncoder(x) /\ x.hasError /\ ~x.finished /\ x.frames = c.frames \o g
      BY <1>0, <2>2, EncodeFails
    <3> HIDE DEF d, x, g
    <3>2. d = x
      BY <2>1 DEF x
    <3> QED
      BY <3>1, <3>2
  <2>4. ~IsEnd(f) /\ "json" \notin DOMAIN f
    BY DEF IsEnd, ErrorFrame, MessageStop, DoneFrame, JSONAnswer
  <2> HIDE DEF d, f
  <2>5. Framed(g) /\ ~HasEnd(g)
    BY <2>4, ShortSequences DEF HasEnd, Framed, HasJSON
  <2>6. IsEncoder(d) /\ ~Completed(d) /\ Erred(d)
    BY <1>3, <2>3 DEF IsEncoder, Completed, Erred
  <2> HIDE DEF g
  <2> QED
    BY <1>3, <2>3, <2>5, <2>6 DEF ComesToError, Gives, d, e
<1>4. CASE protocol = "responses" /\ ~Erred(c)
  <2>1. d = ResponsesFeed(c, e)
    BY <1>4 DEF Encode, Spelled, IsDelta, ErrorEvent
  <2>2. IsResponsesOut(c) /\ ~c.terminated
    BY <1>4 DEF IsEncoder, Completed, Erred, IsResponsesOut
  <2> HIDE DEF d, e
  <2>3. Terminates(c, d) /\ d.failed
    BY <1>0, <2>1, <2>2, FeedTerminates
  <2>4. PICK g, f : /\ Regular(g, c.seq) /\ d.frames = (c.frames \o g) \o <<f>>
                    /\ DOMAIN f = FrameFields
                    /\ f.type \in TerminalTypes /\ (f.type = "failed" <=> d.failed)
    BY <2>3 DEF Terminates
  <2> DEFINE k == g \o <<f>>
             h == c.frames
  <2>5. IsSequence(h) /\ IsSequence(g) /\ IsSequence(<<f>>)
    BY <2>4, EncoderFrames, ShortSequences DEF Regular
  <2>6. /\ IsSequence(k) /\ Len(k) = Len(g) + 1 /\ k[Len(g) + 1] = f
        /\ \A i \in 1..Len(g) : k[i] = g[i]
    BY <2>5, OneAdded
  <2>7. d.frames = h \o k
    <3> DEFINE l == <<f>>
    <3>1. IsSequence(l) /\ d.frames = (h \o g) \o l
      BY <2>4, <2>5
    <3> HIDE DEF l, h
    <3>2. (h \o g) \o l = h \o (g \o l)
      BY <2>5, <3>1, ConcatenationAssociates
    <3> QED
      BY <3>1, <3>2 DEF l
  <2>8. IsError(f) /\ ~IsEnd(f) /\ "json" \notin DOMAIN f
    <3>1. DOMAIN f = FrameFields /\ f.type = "failed"
      BY <2>3, <2>4
    <3> QED
      BY <3>1 DEF FrameFields, IsEnd, IsError, MessageStop, DoneFrame, JSONAnswer
  <2> HIDE DEF k, h
  <2>9. ~HasEnd(g) /\ ~HasJSON(g) /\ Len(g) \in Nat
    BY <2>4, <2>5, RegularIsPlain, SequenceLen DEF Framed
  <2>10. Framed(k) /\ ~HasEnd(k) /\ HasError(k)
    <3>1. ASSUME NEW i \in 1..Len(k) PROVE ~IsEnd(k[i]) /\ "json" \notin DOMAIN k[i]
      <4>1. i \in 1..Len(g) \/ i = Len(g) + 1
        BY <2>6, <2>9
      <4> QED
        BY <2>6, <2>8, <2>9, <4>1 DEF HasEnd, HasJSON
    <3>2. Len(g) + 1 \in 1..Len(k)
      BY <2>6, <2>9
    <3> QED
      BY <2>6, <2>8, <3>1, <3>2 DEF HasEnd, HasError, Framed, HasJSON
  <2>11. IsEncoder(d) /\ ~Completed(d) /\ Erred(d)
    BY <1>4, <2>3 DEF IsEncoder, Completed, Erred, Terminates
  <2> QED
    BY <2>6, <2>7, <2>10, <2>11 DEF ComesToError, Gives, d, h, e
<1> QED
  BY <1>1, <1>2, <1>3, <1>4

---------------------------------------------------------------------------
(* The encoder after a call of encodeAll. *)

LEMMA HasInConcatenation ==
  ASSUME NEW g, NEW h, IsSequence(g), IsSequence(h)
  PROVE  /\ IsSequence(g \o h) /\ Len(g \o h) = Len(g) + Len(h)
         /\ HasEnd(g \o h) <=> HasEnd(g) \/ HasEnd(h)
         /\ HasError(g \o h) <=> HasError(g) \/ HasError(h)
         /\ HasJSON(g \o h) <=> HasJSON(g) \/ HasJSON(h)
         /\ Len(h) > 0 => Last(g \o h) = Last(h)
<1> DEFINE k == g \o h
<1>2. /\ IsSequence(k) /\ Len(k) = Len(g) + Len(h)
      /\ \A i \in 1..Len(g) : k[i] = g[i]
      /\ \A i \in 1..Len(h) : k[Len(g) + i] = h[i]
      /\ Len(g) \in Nat /\ Len(h) \in Nat
  BY Concatenation, SequenceLen
<1> HIDE DEF k
<1>4. \A i \in 1..Len(k) : i \in 1..Len(g) \/ (i - Len(g) \in 1..Len(h) /\ i = Len(g) + (i - Len(g)))
  BY <1>2
<1>5. \A i \in 1..Len(g) : i \in 1..Len(k)
  BY <1>2
<1>6. \A i \in 1..Len(h) : Len(g) + i \in 1..Len(k)
  BY <1>2
<1>7. HasEnd(k) <=> HasEnd(g) \/ HasEnd(h)
  BY <1>2, <1>4, <1>5, <1>6 DEF HasEnd
<1>8. HasError(k) <=> HasError(g) \/ HasError(h)
  BY <1>2, <1>4, <1>5, <1>6 DEF HasError
<1>9. Len(h) > 0 => Last(k) = Last(h)
  BY <1>2 DEF Last
<1>10. HasJSON(k) <=> HasJSON(g) \/ HasJSON(h)
  BY <1>2, <1>4, <1>5, <1>6 DEF HasJSON
<1> QED
  BY <1>2, <1>7, <1>8, <1>9, <1>10 DEF k

LEMMA GivesGives ==
  ASSUME NEW c, NEW x, NEW d, NEW g, NEW h, protocol \in {"messages", "chat", "responses"},
         IsEncoder(c), Gives(c, x, g), Gives(x, d, h)
  PROVE  /\ Gives(c, d, g \o h) /\ Len(g \o h) = Len(g) + Len(h)
         /\ HasEnd(g \o h) <=> HasEnd(g) \/ HasEnd(h)
         /\ HasError(g \o h) <=> HasError(g) \/ HasError(h)
         /\ Len(h) > 0 => Last(g \o h) = Last(h)
<1> DEFINE f == c.frames
<1>1. IsSequence(f) /\ IsSequence(g) /\ IsSequence(h) /\ d.frames = (f \o g) \o h
  BY EncoderFrames DEF Gives, Framed
<1> HIDE DEF f
<1>2. d.frames = f \o (g \o h)
  BY <1>1, ConcatenationAssociates
<1> QED
  BY <1>1, <1>2, HasInConcatenation DEF Gives, Framed, f

LEMMA GoesOnSelf ==
  ASSUME NEW c, protocol \in {"messages", "chat", "responses"}, IsEncoder(c)
  PROVE  GoesOn(c, c)
<1> DEFINE g == <<>>
<1>1. IsSequence(g) /\ Len(g) = 0 /\ c.frames = c.frames \o g
  BY EncoderFrames, EmptyConcatenation, ShortSequences
<1> HIDE DEF g
<1>2. Gives(c, c, g) /\ ~HasEnd(g) /\ ~HasError(g)
  BY <1>1 DEF Gives, HasEnd, HasError, Framed, HasJSON
<1> QED
  BY <1>2 DEF GoesOn, SameFate

LEMMA GoesOnGoesOn ==
  ASSUME NEW c, NEW x, NEW d, protocol \in {"messages", "chat", "responses"}, IsEncoder(c),
         GoesOn(c, x), GoesOn(x, d)
  PROVE  GoesOn(c, d)
<1>1. PICK g : Gives(c, x, g) /\ ~HasEnd(g) /\ ~HasError(g)
  BY DEF GoesOn
<1>2. PICK h : Gives(x, d, h) /\ ~HasEnd(h) /\ ~HasError(h)
  BY DEF GoesOn
<1>3. Gives(c, d, g \o h) /\ ~HasEnd(g \o h) /\ ~HasError(g \o h)
  BY <1>1, <1>2, GivesGives
<1> QED
  BY <1>3 DEF GoesOn, SameFate

LEMMA GoesOnEncoder ==
  ASSUME NEW c, NEW d, GoesOn(c, d) PROVE IsEncoder(d) /\ SameFate(c, d)
BY DEF GoesOn, Gives

\* encodeAll up to event m, if the events up to it are neither end nor error.
MiddleFold(f, start, es, m) ==
  /\ f[0] = start
  /\ \A n \in 1..m : f[n] = Encode(f[n - 1], es[n]) /\ es[n] \in MiddleEvents

LEMMA GoesOnFold ==
  ASSUME NEW c, protocol \in {"messages", "chat", "responses"}, IsEncoder(c),
         NEW es, NEW f, NEW m \in Nat, MiddleFold(f, c, es, m)
  PROVE  GoesOn(c, f[m])
<1> DEFINE S == {n \in Nat : n <= m => GoesOn(c, f[n])}
<1>1. 0 \in S
  BY GoesOnSelf DEF MiddleFold
<1>2. ASSUME NEW n \in Nat, n \in S PROVE n + 1 \in S
  <2> SUFFICES ASSUME n + 1 <= m PROVE GoesOn(c, f[n + 1])
    OBVIOUS
  <2>1. GoesOn(c, f[n])
    BY <1>2
  <2> DEFINE x == f[n]
             e == es[n + 1]
  <2>2. n + 1 \in 1..m /\ (n + 1) - 1 = n
    OBVIOUS
  <2>3. f[n + 1] = Encode(x, e) /\ e \in MiddleEvents
    BY <2>2 DEF MiddleFold
  <2>4. GoesOn(c, x)
    BY <2>1
  <2> HIDE DEF x, e
  <2>5. GoesOn(x, Encode(x, e))
    BY <2>3, <2>4, GoesOnEncoder, EncodeMiddle
  <2> QED
    BY <2>3, <2>4, <2>5, GoesOnGoesOn
<1> HIDE DEF S
<1>3. m \in S
  BY <1>1, <1>2, Induction
<1> QED
  BY <1>3 DEF S

\* What is returned when the frames were taken away before.
LEMMA GivenAfterTaken ==
  ASSUME NEW c, NEW d, NEW g, c.frames = <<>>, Gives(c, d, g)
  PROVE  d.frames = g /\ Framed(g) /\ IsEncoder(d)
BY EmptyConcatenation DEF Gives, Framed

LEMMA EncodeAllMiddle ==
  ASSUME NEW c, protocol \in {"messages", "chat", "responses"}, mode = "stream", IsEncoder(c),
         NEW es \in Seq(MiddleEvents)
  PROVE  LET d == EncodeAll(c, es)
         IN /\ IsEncoder(d) /\ SameFate(c, d) /\ Framed(d.frames)
            /\ ~HasEnd(d.frames) /\ ~HasError(d.frames)
<1> DEFINE d == EncodeAll(c, es)
           s == [c EXCEPT !.frames = <<>>]
<1>1. IsEncoder(s) /\ SameFate(c, s) /\ s.frames = <<>>
  BY FramesTaken
<1>2. IsSequence(es) /\ Len(es) \in Nat /\ \A n \in 1..Len(es) : es[n] \in MiddleEvents
  BY DEF IsSequence
<1>3. PICK f : IsFold(f, s, es) /\ d = f[Len(es)]
  BY <1>2, EncodeAllIs
<1> HIDE DEF d, s
<1>8. MiddleFold(f, s, es, Len(es))
  BY <1>2, <1>3 DEF IsFold, MiddleFold
<1>4. GoesOn(s, d)
  BY <1>1, <1>2, <1>3, <1>8, GoesOnFold
<1>5. PICK g : Gives(s, d, g) /\ ~HasEnd(g) /\ ~HasError(g)
  BY <1>4 DEF GoesOn
<1>6. d.frames = g /\ Framed(g) /\ IsEncoder(d)
  BY <1>1, <1>5, GivenAfterTaken
<1>7. SameFate(c, d)
  BY <1>1, <1>4 DEF GoesOn, SameFate
<1> QED
  BY <1>5, <1>6, <1>7 DEF d

\* The same, with one more event at the end.
LEMMA EncodeAllLast ==
  ASSUME NEW c, protocol \in {"messages", "chat", "responses"}, mode = "stream", IsEncoder(c),
         NEW es \in Seq(MiddleEvents), NEW e
  PROVE  \E x, g : /\ IsEncoder(x) /\ SameFate(c, x)
                  /\ EncodeAll(c, Append(es, e)) = Encode(x, e)
                  /\ x.frames = g /\ Framed(g) /\ ~HasEnd(g) /\ ~HasError(g)
<1> DEFINE t == Append(es, e)
           d == EncodeAll(c, t)
           s == [c EXCEPT !.frames = <<>>]
<1>1. IsEncoder(s) /\ SameFate(c, s) /\ s.frames = <<>>
  BY FramesTaken
<1>2. IsSequence(es) /\ Len(es) \in Nat /\ \A n \in 1..Len(es) : es[n] \in MiddleEvents
  BY DEF IsSequence
<1>3. /\ IsSequence(t) /\ Len(t) = Len(es) + 1 /\ t[Len(es) + 1] = e
      /\ \A n \in 1..Len(es) : t[n] = es[n]
  BY <1>2, Appended
<1> HIDE DEF t
<1>4. PICK f : IsFold(f, s, t) /\ d = f[Len(t)]
  BY <1>3, EncodeAllIs
<1> HIDE DEF d, s
<1> DEFINE x == f[Len(es)]
<1>5. MiddleFold(f, s, es, Len(es))
  <2>1. \A n \in 1..Len(es) : n \in 1..Len(t)
    BY <1>2, <1>3
  <2> QED
    BY <1>2, <1>3, <1>4, <2>1 DEF IsFold, MiddleFold
<1>6. GoesOn(s, x)
  BY <1>1, <1>2, <1>5, GoesOnFold
<1>7. d = Encode(x, e)
  <2>1. Len(t) \in 1..Len(t) /\ Len(t) - 1 = Len(es)
    BY <1>2, <1>3
  <2> QED
    BY <1>3, <1>4, <2>1 DEF IsFold
<1> HIDE DEF x
<1>8. PICK g : Gives(s, x, g) /\ ~HasEnd(g) /\ ~HasError(g)
  BY <1>6 DEF GoesOn
<1>9. x.frames = g /\ Framed(g) /\ IsEncoder(x)
  BY <1>1, <1>8, GivenAfterTaken
<1>10. SameFate(c, x)
  BY <1>1, <1>6 DEF GoesOn, SameFate
<1> QED
  BY <1>7, <1>8, <1>9, <1>10 DEF d, t

LEMMA EncodeAllEnd ==
  ASSUME NEW c, protocol \in {"messages", "chat", "responses"}, mode = "stream", IsEncoder(c),
         ~Completed(c), ~Erred(c), NEW es \in Seq(MiddleEvents)
  PROVE  LET d == EncodeAll(c, Append(es, MessageStop))
         IN /\ IsEncoder(d) /\ Framed(d.frames) /\ (protocol # "messages" => Completed(d))
            /\ Len(d.frames) > 0 /\ IsEnd(Last(d.frames)) /\ ~HasError(d.frames)
<1> DEFINE e == MessageStop
           d == EncodeAll(c, Append(es, e))
<1>1. PICK x, g : /\ IsEncoder(x) /\ SameFate(c, x) /\ d = Encode(x, e)
                  /\ x.frames = g /\ Framed(g) /\ ~HasEnd(g) /\ ~HasError(g)
  BY EncodeAllLast
<1>2. ComesToEnd(x, d)
  BY <1>1, EncodeEnd DEF SameFate
<1> HIDE DEF d, e
<1>3. PICK h : Gives(x, d, h) /\ Len(h) > 0 /\ IsEnd(Last(h)) /\ ~HasError(h)
  BY <1>2 DEF ComesToEnd
<1> DEFINE k == g \o h
           s == [x EXCEPT !.frames = <<>>]
<1>4. IsEncoder(s) /\ s.frames = <<>>
  BY <1>1, FramesTaken
<1> HIDE DEF s
<1>5. Gives(s, x, g)
  BY <1>1, <1>4, EmptyConcatenation DEF Gives, Framed
<1>6. Gives(s, d, k) /\ Len(k) = Len(g) + Len(h) /\ ~HasError(k) /\ Last(k) = Last(h)
  BY <1>1, <1>3, <1>4, <1>5, GivesGives
<1> HIDE DEF k
<1>7. d.frames = k /\ Framed(k) /\ IsEncoder(d)
  BY <1>4, <1>6, GivenAfterTaken
<1>8. Len(k) > 0
  BY <1>1, <1>3, <1>6, SequenceLen DEF Gives, Framed
<1> QED
  BY <1>2, <1>3, <1>6, <1>7, <1>8 DEF d, e, ComesToEnd

LEMMA EncodeAllError ==
  ASSUME NEW c, protocol \in {"messages", "chat", "responses"}, mode = "stream", IsEncoder(c),
         ~Completed(c), NEW es \in Seq(MiddleEvents), NEW m
  PROVE  LET d == EncodeAll(c, Append(es, ErrorEvent(m)))
         IN /\ IsEncoder(d) /\ Framed(d.frames)
            /\ ~Completed(d) /\ (protocol # "messages" => Erred(d))
            /\ ~HasEnd(d.frames)
            /\ ~Erred(c) /\ protocol # "chat" => HasError(d.frames)
<1> DEFINE e == ErrorEvent(m)
           d == EncodeAll(c, Append(es, e))
<1>1. PICK x, g : /\ IsEncoder(x) /\ SameFate(c, x) /\ d = Encode(x, e)
                  /\ x.frames = g /\ Framed(g) /\ ~HasEnd(g) /\ ~HasError(g)
  BY EncodeAllLast
<1>2. ComesToError(x, d)
  BY <1>1, EncodeError DEF SameFate
<1> HIDE DEF d, e
<1>3. PICK h : /\ Gives(x, d, h) /\ ~HasEnd(h)
               /\ ~Erred(x) /\ protocol # "chat" => HasError(h)
  BY <1>2 DEF ComesToError
<1> DEFINE k == g \o h
           s == [x EXCEPT !.frames = <<>>]
<1>4. IsEncoder(s) /\ s.frames = <<>>
  BY <1>1, FramesTaken
<1> HIDE DEF s
<1>5. Gives(s, x, g)
  BY <1>1, <1>4, EmptyConcatenation DEF Gives, Framed
<1>6. Gives(s, d, k) /\ ~HasEnd(k) /\ (HasError(h) => HasError(k))
  BY <1>1, <1>3, <1>4, <1>5, GivesGives
<1> HIDE DEF k
<1>7. d.frames = k /\ Framed(k) /\ IsEncoder(d)
  BY <1>4, <1>6, GivenAfterTaken
<1> QED
  BY <1>1, <1>2, <1>3, <1>6, <1>7 DEF d, e, ComesToError, SameFate

---------------------------------------------------------------------------
(* The encoder and the frames it has returned, while a request goes on.    *)

\* Encoder c returned the frames g; he says whether an error is on record.
\* No end was told, and the error was, on the endpoints that tell it.
Encoding(c, g, he) ==
  /\ IsEncoder(c) /\ IsSequence(g)
  /\ mode = "stream" =>
       /\ ~Completed(c) /\ (protocol # "messages" => (Erred(c) <=> he))
       /\ ~HasJSON(g) /\ ~HasEnd(g) /\ (HasError(g) => he) /\ (he /\ protocol # "chat" => HasError(g))

\* The frames g of an answer that failed, or of one that did not.
Failing(g)    == ~HasEnd(g) /\ (protocol # "chat" => HasError(g))
Succeeding(g) == g # <<>> /\ IsEnd(Last(g)) /\ ~HasError(g)

Request == protocol \in {"messages", "chat", "responses"} /\ mode \in {"stream", "buffer"}

LEMMA BufferKeeps ==
  ASSUME Request, mode # "stream", NEW c, IsEncoder(c), NEW es
  PROVE  EncodeAll(c, es) = c /\ EncoderFinish(c) = c /\ IsSequence(c.frames)
BY EncoderFrames DEF Request, EncodeAll, EncoderFinish

LEMMA FramesJoin ==
  ASSUME NEW c, NEW g, NEW he, Encoding(c, g, he), NEW h, IsSequence(h)
  PROVE  /\ IsSequence(g \o h)
         /\ HasEnd(g \o h) <=> HasEnd(g) \/ HasEnd(h)
         /\ HasError(g \o h) <=> HasError(g) \/ HasError(h)
         /\ HasJSON(g \o h) <=> HasJSON(g) \/ HasJSON(h)
BY HasInConcatenation DEF Encoding

\* Events that are neither end nor error change nothing of that.
LEMMA EncodingMiddle ==
  ASSUME Request, NEW c, NEW g, NEW he, Encoding(c, g, he), NEW es \in Seq(MiddleEvents)
  PROVE  LET d == EncodeAll(c, es)
         IN IsSequence(d.frames) /\ Encoding(d, g \o d.frames, he)
<1> DEFINE d == EncodeAll(c, es)
           h == d.frames
<1>1. CASE mode = "stream"
  <2>1. /\ IsEncoder(d) /\ SameFate(c, d) /\ IsSequence(h)
        /\ ~HasEnd(h) /\ ~HasError(h) /\ ~HasJSON(h)
    BY <1>1, EncodeAllMiddle DEF Request, Encoding, Framed
  <2> HIDE DEF h, d
  <2>2. /\ IsSequence(g \o h)
        /\ HasEnd(g \o h) <=> HasEnd(g) \/ HasEnd(h)
        /\ HasError(g \o h) <=> HasError(g) \/ HasError(h)
        /\ HasJSON(g \o h) <=> HasJSON(g) \/ HasJSON(h)
    BY <2>1, FramesJoin
  <2>3. Encoding(d, g \o h, he)
    BY <2>1, <2>2 DEF Encoding, SameFate
  <2> QED
    BY <2>1, <2>3 DEF h, d
<1>2. CASE mode # "stream"
  <2>1. d = c /\ IsSequence(h)
    BY <1>2, BufferKeeps DEF Encoding
  <2> HIDE DEF h, d
  <2>2. IsSequence(g \o h)
    BY <2>1, FramesJoin
  <2> QED
    BY <1>2, <2>1, <2>2 DEF Encoding, h, d
<1> QED
  BY <1>1, <1>2

\* After an error it is on record; and told, whether it is or not.
LEMMA EncodingError ==
  ASSUME Request, NEW c, NEW g, NEW he, Encoding(c, g, he),
         NEW es \in Seq(MiddleEvents), NEW m
  PROVE  LET d == EncodeAll(c, Append(es, ErrorEvent(m)))
         IN /\ IsSequence(d.frames) /\ Encoding(d, g \o d.frames, TRUE)
            /\ mode = "stream" => Failing(g \o d.frames) /\ EncoderFinish(d) = d
<1> DEFINE d == EncodeAll(c, Append(es, ErrorEvent(m)))
           h == d.frames
<1>1. CASE mode = "stream"
  <2>1. /\ IsEncoder(d) /\ IsSequence(h) /\ ~HasJSON(h)
        /\ ~Completed(d) /\ (protocol # "messages" => Erred(d))
        /\ ~HasEnd(h) /\ (~Erred(c) /\ protocol # "chat" => HasError(h))
    BY <1>1, EncodeAllError DEF Request, Encoding, Framed
  <2>2. EncoderFinish(d) = d
    BY <2>1, FinishSilent DEF Request
  <2> HIDE DEF h, d
  <2>3. /\ IsSequence(g \o h)
        /\ HasEnd(g \o h) <=> HasEnd(g) \/ HasEnd(h)
        /\ HasError(g \o h) <=> HasError(g) \/ HasError(h)
        /\ HasJSON(g \o h) <=> HasJSON(g) \/ HasJSON(h)
    BY <2>1, FramesJoin
  <2>4. Erred(c) /\ protocol # "chat" => HasError(g)
    BY <1>1 DEF Encoding, Erred
  <2>5. Encoding(d, g \o h, TRUE) /\ Failing(g \o h)
    BY <1>1, <2>1, <2>3, <2>4 DEF Encoding, Failing
  <2> QED
    BY <2>1, <2>2, <2>5 DEF h, d
<1>2. CASE mode # "stream"
  <2>1. d = c /\ IsSequence(h)
    BY <1>2, BufferKeeps DEF Encoding
  <2> HIDE DEF h, d
  <2>2. IsSequence(g \o h)
    BY <2>1, FramesJoin
  <2> QED
    BY <1>2, <2>1, <2>2 DEF Encoding, h, d
<1> QED
  BY <1>1, <1>2

LEMMA EncodingOneError ==
  ASSUME Request, NEW c, NEW g, NEW he, Encoding(c, g, he), NEW m
  PROVE  LET d == EncodeAll(c, <<ErrorEvent(m)>>)
         IN /\ IsSequence(d.frames) /\ Encoding(d, g \o d.frames, TRUE)
            /\ mode = "stream" => Failing(g \o d.frames) /\ EncoderFinish(d) = d
<1> DEFINE n == <<>>
           es == <<ErrorEvent(m)>>
           d == EncodeAll(c, es)
<1>1. n \in Seq(MiddleEvents) /\ es = Append(n, ErrorEvent(m))
  OBVIOUS
<1> HIDE DEF n, es
<1>2. d = EncodeAll(c, Append(n, ErrorEvent(m)))
  BY <1>1
<1> HIDE DEF d
<1>3. /\ IsSequence(d.frames) /\ Encoding(d, g \o d.frames, TRUE)
      /\ mode = "stream" => Failing(g \o d.frames) /\ EncoderFinish(d) = d
  BY <1>1, <1>2, EncodingError
<1> QED
  BY <1>3 DEF d, es

LEMMA EncodingEnd ==
  ASSUME Request, NEW c, NEW g, Encoding(c, g, FALSE), NEW es \in Seq(MiddleEvents)
  PROVE  LET d == EncodeAll(c, Append(es, MessageStop))
         IN /\ IsSequence(d.frames)
            /\ mode = "stream" => Succeeding(g \o d.frames) /\ ~HasJSON(g \o d.frames)
            /\ EncoderFinish(d) = d
<1> DEFINE d == EncodeAll(c, Append(es, MessageStop))
           h == d.frames
<1>1. CASE mode = "stream"
  <2>1. ~Completed(c) /\ ~Erred(c)
    BY <1>1 DEF Encoding, Erred
  <2>2. /\ IsEncoder(d) /\ IsSequence(h) /\ (protocol # "messages" => Completed(d))
        /\ Len(h) > 0 /\ IsEnd(Last(h)) /\ ~HasError(h) /\ ~HasJSON(h)
    BY <1>1, <2>1, EncodeAllEnd DEF Request, Encoding, Framed
  <2>3. EncoderFinish(d) = d
    BY <2>2, FinishSilent DEF Request
  <2> HIDE DEF h, d
  <2>4. /\ Len(g \o h) = Len(g) + Len(h) /\ Last(g \o h) = Last(h)
        /\ HasError(g \o h) <=> HasError(g) \/ HasError(h)
        /\ HasJSON(g \o h) <=> HasJSON(g) \/ HasJSON(h)
    BY <2>2, HasInConcatenation DEF Encoding
  <2>5. Len(g) \in Nat /\ Len(h) \in Nat /\ ~HasError(g) /\ ~HasJSON(g)
    BY <1>1, <2>2, SequenceLen DEF Encoding
  <2>6. Len(g \o h) # 0
    BY <2>2, <2>4, <2>5
  <2>7. Succeeding(g \o h) /\ ~HasJSON(g \o h)
    BY <2>2, <2>4, <2>5, <2>6, ShortSequences DEF Succeeding
  <2> QED
    BY <2>2, <2>3, <2>7 DEF h, d
<1>2. CASE mode # "stream"
  <2>1. d = c /\ EncoderFinish(c) = c /\ IsSequence(h)
    BY <1>2, BufferKeeps DEF Encoding
  <2> QED
    BY <1>2, <2>1
<1> QED
  BY <1>1, <1>2

---------------------------------------------------------------------------
(* The sseWriter. *)

WriterFields == {"started", "pending", "status", "body", "retry"}

IsWriter(w) ==
  /\ w = [f \in WriterFields |-> w[f]]
  /\ w.started \in BOOLEAN /\ IsSequence(w.pending)
  /\ w.status \in Nat /\ IsSequence(w.body)

\* A client who is gone gets nothing more.
Sent(b, g) == IF gone THEN b ELSE b \o g

LEMMA WroteIs ==
  ASSUME NEW w, IsWriter(w), NEW g, IsSequence(g)
  PROVE  LET v == Wrote(w, g)
         IN /\ IsWriter(v) /\ v.body = Sent(w.body, g)
            /\ v.started = w.started /\ v.status = w.status /\ v.pending = w.pending
<1> DEFINE b == w.body
           c == b \o g
           v == [w EXCEPT !.body = c]
<1>1. IsSequence(b)
  BY DEF IsWriter
<1>2. IsSequence(c)
  BY <1>1, Concatenation
<1>3. Wrote(w, g) = IF gone THEN w ELSE v
  BY DEF Wrote
<1> HIDE DEF c
<1>4. /\ IsWriter(v) /\ v.body = c
      /\ v.started = w.started /\ v.status = w.status /\ v.pending = w.pending
  BY <1>2 DEF IsWriter, WriterFields
<1> HIDE DEF v
<1>5. CASE gone
  BY <1>3, <1>5 DEF Sent
<1>6. CASE ~gone
  BY <1>3, <1>4, <1>6 DEF Sent, c
<1> QED
  BY <1>5, <1>6

LEMMA AddIs ==
  ASSUME NEW w, IsWriter(w), NEW g, IsSequence(g)
  PROVE  LET v == Add(w, g)
         IN /\ IsWriter(v) /\ v.started = w.started /\ v.status = w.status
            /\ w.started => v.body = Sent(w.body, g)
            /\ ~w.started => v.body = w.body /\ v.pending = w.pending \o g
<1>1. CASE w.started
  BY <1>1, WroteIs DEF Add
<1>2. CASE ~w.started
  <2> DEFINE p == w.pending
             q == p \o g
             v == [w EXCEPT !.pending = q]
  <2>1. IsSequence(p)
    BY DEF IsWriter
  <2>2. IsSequence(q)
    BY <2>1, Concatenation
  <2>3. Add(w, g) = v
    BY <1>2 DEF Add
  <2> HIDE DEF q
  <2>4. /\ IsWriter(v) /\ v.pending = q
        /\ v.started = w.started /\ v.status = w.status /\ v.body = w.body
    BY <2>2 DEF IsWriter, WriterFields
  <2> HIDE DEF v
  <2> QED
    BY <1>2, <2>3, <2>4 DEF q
<1> QED
  BY <1>1, <1>2

LEMMA StartIs ==
  ASSUME NEW w, IsWriter(w)
  PROVE  LET v == Start(w)
         IN /\ IsWriter(v) /\ v.started
            /\ w.started => v = w
            /\ ~w.started => v.status = 200 /\ v.body = Sent(w.body, w.pending)
<1>1. CASE w.started
  BY <1>1 DEF Start
<1>2. CASE ~w.started
  <2> DEFINE p == w.pending
             e == <<>>
             u == [w EXCEPT !.started = TRUE, !.status = 200, !.pending = e]
             v == Wrote(u, p)
  <2>1. IsSequence(p) /\ IsSequence(e)
    BY ShortSequences DEF IsWriter
  <2>3. Start(w) = v
    BY <1>2 DEF Start
  <2> HIDE DEF e
  <2>5. u.started = TRUE /\ u.status = 200 /\ u.body = w.body /\ u.pending = e
    BY DEF IsWriter, WriterFields
  <2>9. u = [f \in WriterFields |-> u[f]]
    BY DEF IsWriter, WriterFields
  <2> HIDE DEF u, p
  <2>6. IsSequence(w.body)
    BY DEF IsWriter
  <2>7. u.started \in BOOLEAN /\ u.status \in Nat
    <3> HIDE DEF e
    <3>1. u.started \in BOOLEAN
      BY <2>5, Zenon
    <3>2. 200 \in Nat
      OBVIOUS
    <3> QED
      BY <2>5, <3>1, <3>2, Zenon
  <2>8. IsSequence(u.pending) /\ IsSequence(u.body)
    BY <2>1, <2>5, <2>6, Zenon
  <2>2. IsWriter(u)
    BY <2>7, <2>8, <2>9, Zenon DEF IsWriter
  <2>4. /\ IsWriter(v) /\ v.body = Sent(u.body, p)
        /\ v.started = u.started /\ v.status = u.status
    BY <2>1, <2>2, WroteIs, Zenon
  <2> HIDE DEF v
  <2> QED
    BY <1>2, <2>3, <2>4, <2>5 DEF p
<1> QED
  BY <1>1, <1>2

LEMMA WriteErrorIs ==
  ASSUME NEW w, IsWriter(w), NEW s \in Nat, NEW retry
  PROVE  LET v == WriteError(w, s, retry)
         IN /\ IsWriter(v) /\ v.started = w.started
            /\ v.status = (IF w.status = 0 THEN s ELSE w.status)
            /\ v.body = Sent(w.body, <<JSONError(s)>>)
<1> DEFINE g == <<JSONError(s)>>
           u == Wrote(w, g)
           v == [u EXCEPT !.status = IF @ = 0 THEN s ELSE @, !.retry = retry]
<1>1. WriteError(w, s, retry) = v
  BY DEF WriteError
<1>2. IsSequence(g)
  BY ShortSequences
<1> HIDE DEF g
<1>3. IsWriter(u) /\ u.body = Sent(w.body, g) /\ u.started = w.started /\ u.status = w.status
  BY <1>2, WroteIs
<1> HIDE DEF u
<1>4. /\ IsWriter(v) /\ v.started = u.started /\ v.body = u.body
      /\ v.status = IF u.status = 0 THEN s ELSE u.status
  BY <1>3 DEF IsWriter, WriterFields
<1> HIDE DEF v
<1> QED
  BY <1>1, <1>3, <1>4 DEF g

LEMMA WriteAnswerIs ==
  ASSUME NEW w, IsWriter(w)
  PROVE  LET v == WriteAnswer(w)
         IN /\ IsWriter(v) /\ v.started = w.started /\ v.status = 200
            /\ v.body = Sent(w.body, <<JSONAnswer>>)
<1> DEFINE g == <<JSONAnswer>>
           u == Wrote(w, g)
           v == [u EXCEPT !.status = 200]
<1>1. WriteAnswer(w) = v
  BY DEF WriteAnswer
<1>2. IsSequence(g)
  BY ShortSequences
<1> HIDE DEF g
<1>3. IsWriter(u) /\ u.body = Sent(w.body, g) /\ u.started = w.started
  BY <1>2, WroteIs
<1> HIDE DEF u
<1>4. IsWriter(v) /\ v.started = u.started /\ v.body = u.body /\ v.status = 200
  BY <1>3 DEF IsWriter, WriterFields
<1> HIDE DEF v
<1> QED
  BY <1>1, <1>3, <1>4 DEF g

---------------------------------------------------------------------------
(* The invariant.  The first part is about the request body and the end of *)
(* the scan.                                                               *)

InboundType == [size : Nat, left : Nat, remaining : Int, form : Forms, key : BOOLEAN]

\* The handler has no answer of the upstream to pass on.
Early == {"front", "sending", "generate", "refusal"}

FrontInv ==
  /\ pc \in Early \cup {"scan", "reading", "over", "done"}
  /\ pc \in Early \cup {"scan", "reading"} => readErr = None
  /\ pc # "done" => upstream # "unreachable"
  /\ pc \notin {"refusal", "done"} => refusal = 0
  /\ pc = "over" => readErr \in {"eof", "idle", "failed"}
  /\ pc = "front" => /\ inbound \in InboundType
                     /\ inbound.size - inbound.left = MaxBody - inbound.remaining
  /\ pc \notin {"front", "done"} => inbound = NoInbound

LEMMA FrontInit == PipelineInit => FrontInv
<1> SUFFICES ASSUME PipelineInit PROVE FrontInv
  OBVIOUS
<1>1. PICK n \in BodySizes, f \in Forms, k \in BOOLEAN :
        inbound = [size |-> n, left |-> n, remaining |-> MaxBody, form |-> f, key |-> k]
  BY DEF PipelineInit, Inbounds
<1>2. /\ inbound \in InboundType
      /\ inbound.size - inbound.left = MaxBody - inbound.remaining
  BY <1>1, BodyAssumption DEF InboundType
<1> QED
  BY <1>2 DEF PipelineInit, FrontInv, Early

LEMMA FrontNext ==
  ASSUME FrontInv, [PipelineNext]_pipelineVars PROVE FrontInv'
<1>1. CASE pc = "front" /\ pc' = "front"
  <2>1. CASE \E n \in 1..inbound.left : ReadBody(n)
    <3>1. PICK n \in 1..inbound.left : ReadBody(n)
      BY <2>1
    <3>2. /\ inbound' = [inbound EXCEPT !.left = @ - n, !.remaining = @ - n]
          /\ UNCHANGED <<readErr, refusal, upstream>> /\ n \in Nat /\ n <= inbound.left
      BY <3>1, <1>1 DEF ReadBody, FrontInv, InboundType, sourceVars
    <3>4. inbound.size \in Nat /\ inbound.left \in Nat /\ inbound.remaining \in Int
      BY <1>1 DEF FrontInv, InboundType
    <3> DEFINE l == inbound.left - n
               r == inbound.remaining - n
    <3>6. l \in Nat /\ r \in Int
      BY <3>2, <3>4
    <3>7. inbound' = [inbound EXCEPT !.left = l, !.remaining = r]
      BY <3>2
    <3> HIDE DEF l, r
    <3>8. inbound' \in InboundType /\ inbound'.size = inbound.size
          /\ inbound'.left = l /\ inbound'.remaining = r
      BY <1>1, <3>6, <3>7 DEF FrontInv, InboundType
    <3>3. inbound' \in InboundType /\ inbound'.size = inbound.size
          /\ inbound'.left = inbound.left - n /\ inbound'.remaining = inbound.remaining - n
      BY <3>8 DEF l, r
    <3>5. inbound'.size - inbound'.left = MaxBody - inbound'.remaining
      BY <1>1, <3>2, <3>3, <3>4, BodyAssumption DEF FrontInv
    <3> QED
      BY <1>1, <3>2, <3>3, <3>5 DEF FrontInv, Early
  <2>2. CASE ~\E n \in 1..inbound.left : ReadBody(n)
    <3>1. UNCHANGED <<inbound, readErr, refusal, upstream>>
      BY <1>1, <2>2, Zenon DEF PipelineNext, FrontEnd, FrontRefuses, FrontAccepts, Handler, Timer,
             RequestSent, GenerateFails, GenerateRefused, AnswerRefusal, GenerateSucceeds,
             ReadStart, ReadLines, ReadEnds, ScanLine, EndDisconnected, EndReadError, EndEOF,
             UpstreamSends, UpstreamStops, TimerFires, TimerCloses, ClientLeaves, Return,
             handlerVars, requestVars, readerVars, sourceVars, pipelineVars
    <3> QED
      BY <1>1, <3>1 DEF FrontInv, Early
  <2> QED
    BY <2>1, <2>2
<1>2. CASE pc = "front" /\ pc' # "front"
  <2> DEFINE Leaves == \/ pc' = "done"
                       \/ /\ pc' = "sending" /\ inbound' = NoInbound
                          /\ UNCHANGED <<readErr, refusal, upstream>>
  <2>2. /\ ~RequestSent /\ ~GenerateFails /\ ~GenerateSucceeds /\ ~AnswerRefusal
        /\ ~\E code \in Refusals : GenerateRefused(code)
    BY <1>2 DEF RequestSent, GenerateFails, GenerateRefused, AnswerRefusal, GenerateSucceeds
  <2>3. ~ReadStart /\ ~ReadLines /\ ~\E kind \in {"eof", "failed"} : ReadEnds(kind)
    BY <1>2 DEF ReadStart, ReadLines, ReadEnds
  <2>4. ~ScanLine
    BY <1>2 DEF ScanLine
  <2>5. ~EndDisconnected /\ ~EndReadError("idle", 429, 5) /\ ~EndReadError("failed", 502, 0)
        /\ ~EndEOF
    BY <1>2 DEF EndDisconnected, EndReadError, EndEOF
  <2>6. ~Handler
    BY <2>2, <2>3, <2>4, <2>5 DEF Handler
  <2>7. ~Timer /\ ~ClientLeaves /\ ~UNCHANGED pipelineVars
    BY <1>2 DEF Timer, TimerFires, TimerCloses, ClientLeaves, handlerVars, readerVars,
       pipelineVars
  <2>8. ~UpstreamSends /\ ~\E how \in {"ended", "broken"} : UpstreamStops(how)
    BY <1>2 DEF UpstreamSends, UpstreamStops, handlerVars
  <2>9. ~\E n \in 1..inbound.left : ReadBody(n)
    BY <1>2 DEF ReadBody
  <2>10. FrontAccepts => Leaves
    BY DEF FrontAccepts, sourceVars
  <2>11. ASSUME NEW t, FrontRefuses(t) PROVE Leaves
    BY <2>11 DEF FrontRefuses, Return
  <2>1. Leaves
    BY <2>6, <2>7, <2>8, <2>9, <2>10, <2>11 DEF PipelineNext, FrontEnd
  <2> QED
    BY <1>2, <2>1 DEF FrontInv, Early
<1>3. CASE pc # "front"
  <2>1. inbound' = inbound
    BY <1>3 DEF PipelineNext, FrontEnd, ReadBody, FrontRefuses, FrontAccepts, Handler, Timer,
       RequestSent, GenerateFails, GenerateRefused, AnswerRefusal, GenerateSucceeds,
       ReadStart, ReadLines, ReadEnds, ScanLine, EndDisconnected, EndReadError, EndEOF,
       UpstreamSends, UpstreamStops, TimerFires, TimerCloses, ClientLeaves, Return,
       handlerVars, requestVars, readerVars, pipelineVars
  <2> DEFINE Stays == UNCHANGED <<readErr, refusal>> /\ upstream' \in {upstream, "ended", "broken"}
             Moves == \/ pc' = pc /\ Stays
                      \/ pc' = "generate" /\ pc = "sending" /\ Stays
                      \/ /\ pc' = "refusal" /\ pc = "generate"
                         /\ readErr' = readErr /\ upstream' = upstream
                      \/ /\ pc' \in {"scan", "reading"} /\ Stays
                         /\ pc \in {"generate", "scan", "reading"}
                      \/ /\ pc' = "over" /\ readErr' \in {"eof", "idle", "failed"}
                         /\ pc \in {"scan", "reading"} /\ UNCHANGED <<refusal, upstream>>
                      \/ pc' = "done"
  <2>3. RequestSent \/ GenerateFails \/ GenerateSucceeds \/ AnswerRefusal
        \/ (\E code \in Refusals : GenerateRefused(code)) => Moves
    BY <1>3 DEF RequestSent, GenerateFails, GenerateRefused, AnswerRefusal, GenerateSucceeds,
       Return, requestVars, sourceVars
  <2>4. ReadStart \/ ReadLines \/ (\E kind \in {"eof", "failed"} : ReadEnds(kind)) => Moves
    BY <1>3 DEF ReadStart, ReadLines, ReadEnds, ReadErrorKind, requestVars, sourceVars
  <2>5. ScanLine \/ EndDisconnected \/ EndReadError("idle", 429, 5)
        \/ EndReadError("failed", 502, 0) \/ EndEOF => Moves
    BY <1>3, Zenon DEF ScanLine, EndDisconnected, EndReadError, EndEOF, Return, requestVars
  <2>6. Timer \/ ClientLeaves \/ UpstreamSends
        \/ (\E how \in {"ended", "broken"} : UpstreamStops(how)) \/ UNCHANGED pipelineVars => Moves
    BY DEF Timer, UpstreamSends, UpstreamStops, TimerFires, TimerCloses, ClientLeaves,
       handlerVars, requestVars, readerVars, sourceVars, pipelineVars
  <2>7. ~FrontEnd
    BY <1>3 DEF FrontEnd, ReadBody, FrontRefuses, FrontAccepts
  <2>2. Moves
    BY <2>3, <2>4, <2>5, <2>6, <2>7 DEF PipelineNext, Handler
  <2> QED
    BY <1>3, <2>1, <2>2 DEF FrontInv, Early
<1> QED
  BY <1>1, <1>2, <1>3

---------------------------------------------------------------------------
(* The second part relates the translator, the encoder and the writer: as  *)
(* long as the handler is at work, what the encoder has returned tells no  *)
(* end, and it is held back as a whole or has been sent as a whole.        *)

WorkInv ==
  /\ TypeOK /\ Request /\ IsWriter(sw) /\ IsSequence(encoded)
  /\ pc # "done" =>
       /\ ~finished /\ ~panicked /\ Encoding(codec, encoded, hasError)
       /\ ~HasEnd(sw.body)
       /\ ~sw.started => /\ sw.status = 0 /\ sw.body = <<>>
                         /\ mode = "stream" => sw.pending = encoded
  /\ sw.started => sw.status = 200 /\ mode = "stream" /\ pc \notin Early
  /\ StreamComplete /\ NoEmptySuccess /\ OutcomeTold

\* What a step does to the response: it writes one object, an error or an
\* answer; it goes on with a stream; it leaves it alone.
WritesWhole ==
  /\ pc # "done" /\ pc' = "done"
  /\ sw.status = 0 /\ sw'.status \in (400..599) \cup {200}
  /\ sw'.body \in {<<>>, <<JSONError(sw'.status)>>}

Grows(b, c) == \E h : Framed(h) /\ c = b \o h

Streams ==
  /\ pc # "done" /\ sw.status \in {0, 200} /\ sw'.status = 200
  /\ Grows(sw.body, sw'.body)

Leaves ==
  /\ pc = "done" => pc' = "done"
  /\ sw'.status = sw.status /\ sw'.body = sw.body

ResponseStep == WritesWhole \/ Streams \/ Leaves

\* Response s with body b tells an error.
TellsError(s, b) == (s >= 400 /\ b = <<JSONError(s)>>) \/ HasError(b)

LEMMA OutcomeIs ==
  ASSUME Failed' => ~HasEnd(sw'.body),
         pc' = "done" /\ ~gone' =>
           /\ Failed' /\ ~panicked' /\ (protocol' = "chat" /\ mode' = "stream" => ~InStream')
                => TellsError(sw'.status, sw'.body)
           /\ finished' /\ ~Failed' => Succeeding(sw'.body) /\ sw'.status = 200
           /\ Refused' => (sw'.status = 413 <=> inbound'.size > MaxBody)
  PROVE  OutcomeTold'
<1>1. ErrorTold' <=> TellsError(sw'.status, sw'.body)
  BY DEF ErrorTold, Told, HasError, TellsError
<1>2. sw'.status = 200 => (ErrorTold' <=> HasError(sw'.body))
  BY <1>1 DEF TellsError
<1> QED
  BY <1>1, <1>2 DEF OutcomeTold, Told, HasEnd, Succeeding

\* What a client who stays receives of an error, and one who left.
LEMMA JSONErrorTold ==
  ASSUME NEW s \in 400..599
  PROVE  LET g == Sent(<<>>, <<JSONError(s)>>)
         IN g \in {<<>>, <<JSONError(s)>>} /\ ~HasEnd(g) /\ (~gone => TellsError(s, g))
<1> DEFINE f == JSONError(s)
           e == <<>>
           h == <<f>>
           g == Sent(e, h)
<1>1. ~IsEnd(f)
  BY DEF IsEnd, JSONError, MessageStop, DoneFrame, JSONAnswer
<1> HIDE DEF f
<1>2. /\ IsSequence(e) /\ Len(e) = 0
      /\ IsSequence(h) /\ Len(h) = 1 /\ h[1] = f
  BY ShortSequences
<1>3. e \o h = h
  BY <1>2, EmptyConcatenation
<1>9. TellsError(s, h)
  BY DEF TellsError, f
<1> HIDE DEF e, h
<1>4. g = e \/ g = h
  BY <1>3 DEF Sent
<1>5. ~gone => g = h
  BY <1>3 DEF Sent
<1>6. ~HasEnd(e) /\ ~HasEnd(h)
  BY <1>1, <1>2 DEF HasEnd
<1> HIDE DEF g
<1>8. g \in {e, h} /\ ~HasEnd(g) /\ (~gone => TellsError(s, g))
  BY <1>4, <1>5, <1>6, <1>9, Zenon
<1> QED
  BY <1>8 DEF g, e, h, f

\* A request that ends with an error status.
LEMMA EndsRefused ==
  ASSUME WorkInv, pc # "done", NEW w, IsWriter(w), ~w.started, w.status = 0, w.body = <<>>,
         ~sw.started, NEW s \in 400..599, NEW retry, sw' = WriteError(w, s, retry),
         pc' = "done", UNCHANGED <<protocol, mode, gone, inbound>>,
         TypeOK', IsSequence(encoded'),
         finished' => Failed', Refused' /\ ~gone => (s = 413 <=> inbound.size > MaxBody)
  PROVE  WorkInv' /\ ResponseStep
<1> DEFINE b == Sent(<<>>, <<JSONError(s)>>)
<1>1. IsWriter(sw') /\ ~sw'.started /\ sw'.status = s /\ sw'.body = b
  BY WriteErrorIs
<1>2. b \in {<<>>, <<JSONError(s)>>} /\ ~HasEnd(b) /\ (~gone => TellsError(s, b))
  BY JSONErrorTold
<1> HIDE DEF b
<1>3. ~HasEnd(sw'.body) /\ (~gone => TellsError(sw'.status, sw'.body))
  BY <1>1, <1>2
<1>4. OutcomeTold'
  BY <1>1, <1>3, OutcomeIs
<1>5. StreamComplete' /\ NoEmptySuccess'
  BY <1>1 DEF StreamComplete, NoEmptySuccess
<1>6. Request'
  BY DEF WorkInv, Request
<1>7. WorkInv'
  BY <1>1, <1>4, <1>5, <1>6 DEF WorkInv
<1>8. sw.status = 0
  BY DEF WorkInv
<1>9. WritesWhole
  BY <1>1, <1>2, <1>8 DEF WritesWhole
<1> QED
  BY <1>7, <1>9 DEF ResponseStep

\* Steps that touch neither translator, encoder nor writer.
LEMMA QuietStep ==
  ASSUME WorkInv, UNCHANGED <<vars, protocol, mode, codec, encoded, sw>>,
         gone => gone', pc # "done", pc' # "done",
         pc' \in Early => pc \in Early
  PROVE  WorkInv' /\ ResponseStep
<1>1. /\ finished' = finished /\ panicked' = panicked /\ hasError' = hasError
      /\ contentStarted' = contentStarted /\ usage' = usage /\ hasUsage' = hasUsage
      /\ outEstimate' = outEstimate
  BY DEF vars, blockVars, finishVars, errorVars
<1>2. TypeOK'
  BY NextType DEF WorkInv
<1>3. Request'
  BY DEF WorkInv, Request
<1>4. Encoding(codec, encoded, hasError)'
  BY <1>1 DEF WorkInv, Encoding, IsEncoder, Completed, Erred
<1>5. OutcomeTold'
  BY OutcomeIs DEF WorkInv
<1>6. StreamComplete'
  BY DEF WorkInv, StreamComplete
<1>7. NoEmptySuccess'
  BY <1>1 DEF WorkInv, NoEmptySuccess, OutputTokens
<1>8. WorkInv'
  BY <1>1, <1>2, <1>3, <1>4, <1>5, <1>6, <1>7 DEF WorkInv
<1> QED
  BY <1>8 DEF ResponseStep, Leaves

\* After the end nothing moves but the timer.
LEMMA DoneStep ==
  ASSUME WorkInv,
         UNCHANGED <<vars, protocol, mode, inbound, refusal, pc, readErr, upstream, codec,
                     encoded, sw, gone>>
  PROVE  WorkInv' /\ ResponseStep
<1>1. /\ finished' = finished /\ panicked' = panicked /\ hasError' = hasError
      /\ contentStarted' = contentStarted /\ usage' = usage /\ hasUsage' = hasUsage
      /\ outEstimate' = outEstimate
  BY DEF vars, blockVars, finishVars, errorVars
<1>2. TypeOK'
  BY NextType DEF WorkInv
<1>3. Request'
  BY DEF WorkInv, Request
<1>4. pc # "done" => Encoding(codec, encoded, hasError)'
  BY <1>1 DEF WorkInv, Encoding, IsEncoder, Completed, Erred
<1>5. OutcomeTold'
  <2>1. OutputTokens' = OutputTokens
    BY <1>1 DEF OutputTokens
  <2>2. Refused' = Refused /\ InStream' = InStream
    BY DEF Refused, InStream
  <2>3. Failed' = Failed
    BY <1>1, <2>1, <2>2 DEF Failed
  <2> QED
    BY <1>1, <2>2, <2>3 DEF WorkInv, OutcomeTold, Told, ErrorTold
<1>6. StreamComplete'
  BY DEF WorkInv, StreamComplete
<1>7. NoEmptySuccess'
  BY <1>1 DEF WorkInv, NoEmptySuccess, OutputTokens
<1>8. WorkInv'
  BY <1>1, <1>2, <1>3, <1>4, <1>5, <1>6, <1>7 DEF WorkInv
<1> QED
  BY <1>8 DEF ResponseStep, Leaves

---------------------------------------------------------------------------
(* The actions, one by one. *)

\* Facts about a request that has not ended.
LEMMA NotRefused == ASSUME FrontInv, pc # "front", pc # "done", inbound' = inbound PROVE ~Refused'
BY DEF FrontInv, Refused

\* The upstream answered, and with a stream.
LEMMA Answered ==
  ASSUME FrontInv, pc \notin Early, pc # "done", UNCHANGED <<inbound, refusal, upstream>>
  PROVE  InStream' /\ ~Refused' /\ refusal' = 0 /\ upstream' # "unreachable"
BY NotRefused DEF FrontInv, Early, InStream

LEMMA UpstreamStatus == \A code : MapStatus(code) \in 400..599
BY DEF MapStatus

LEMMA FrontRefusesStep ==
  ASSUME FrontInv, WorkInv, NEW s \in {400, 401, 413}, FrontRefuses(s)
  PROVE  WorkInv' /\ ResponseStep
<1>1. /\ pc = "front" /\ pc' = "done" /\ sw' = WriteError(sw, s, 0)
      /\ UNCHANGED <<vars, protocol, mode, inbound, encoded, gone>>
  BY DEF FrontRefuses, Return, NoEvents, requestVars
<1>2. /\ IsWriter(sw) /\ ~sw.started /\ sw.status = 0 /\ sw.body = <<>>
      /\ IsSequence(encoded') /\ ~finished /\ s \in 400..599
  BY <1>1 DEF WorkInv, Early
<1>3. TypeOK'
  BY <1>1, NextType DEF WorkInv
<1>4. /\ inbound.size \in Nat /\ inbound.left \in Nat /\ inbound.remaining \in Int
      /\ inbound.size - inbound.left = MaxBody - inbound.remaining
  BY <1>1 DEF FrontInv, InboundType
<1>5. ~finished'
  BY <1>1, <1>2 DEF vars
<1>7. CASE TooLarge
  <2>1. s = 413 /\ inbound.size > MaxBody
    BY <1>4, <1>7, BodyAssumption DEF FrontRefuses, TooLarge
  <2> QED
    BY <1>1, <1>2, <1>3, <1>5, <2>1, EndsRefused
<1>8. CASE ~TooLarge /\ inbound.left = 0
  <2>1. s # 413 /\ ~(inbound.size > MaxBody)
    BY <1>4, <1>8, BodyAssumption DEF FrontRefuses, TooLarge
  <2> QED
    BY <1>1, <1>2, <1>3, <1>5, <2>1, EndsRefused
<1>9. CASE ~TooLarge /\ inbound.left # 0
  <2>1. s = 400 /\ gone
    BY <1>4, <1>9 DEF FrontRefuses
  <2> QED
    BY <1>1, <1>2, <1>3, <1>5, <2>1, EndsRefused
<1> QED
  BY <1>7, <1>8, <1>9

LEMMA GenerateStep ==
  ASSUME FrontInv, WorkInv, GenerateFails \/ AnswerRefusal
  PROVE  WorkInv' /\ ResponseStep
<1>1. /\ pc \in Early /\ pc # "front" /\ pc # "done" /\ pc' = "done"
      /\ UNCHANGED <<vars, protocol, mode, inbound, encoded, gone>>
  BY DEF GenerateFails, AnswerRefusal, Return, NoEvents, requestVars, Early
<1>2. /\ IsWriter(sw) /\ ~sw.started /\ sw.status = 0 /\ sw.body = <<>>
      /\ IsSequence(encoded') /\ ~finished /\ ~HasEnd(sw.body)
  BY <1>1 DEF WorkInv
<1>3. TypeOK'
  BY <1>1, NextType DEF WorkInv
<1>4. ~finished' /\ ~panicked'
  BY <1>1 DEF vars, errorVars, WorkInv
<1>5. ~Refused'
  BY <1>1, NotRefused
<1>6. CASE \E s, retry : s \in 400..599 /\ sw' = WriteError(sw, s, retry)
  BY <1>1, <1>2, <1>3, <1>4, <1>5, <1>6, EndsRefused
<1>7. CASE sw' = sw /\ gone
  <2>1. OutcomeTold'
    BY <1>1, <1>2, <1>7, OutcomeIs
  <2>2. StreamComplete' /\ NoEmptySuccess'
    BY <1>1, <1>2, <1>7 DEF StreamComplete, NoEmptySuccess
  <2>3. Request'
    BY <1>1 DEF WorkInv, Request
  <2>4. WorkInv'
    BY <1>1, <1>2, <1>3, <1>7, <2>1, <2>2, <2>3 DEF WorkInv
  <2> QED
    BY <1>1, <1>7, <2>4 DEF ResponseStep, Leaves
<1>8. \/ \E s, retry : s \in 400..599 /\ sw' = WriteError(sw, s, retry)
      \/ sw' = sw /\ gone
  <2>1. 502 \in 400..599
    OBVIOUS
  <2> QED
    BY <2>1, UpstreamStatus DEF GenerateFails, AnswerRefusal
<1> QED
  BY <1>6, <1>7, <1>8

\* A call of Feed keeps what the second part says of translator and encoder.
LEMMA EncodingFeed ==
  ASSUME WorkInv, pc # "done", Feed, ~panicked', codec' = EncodeAll(codec, NewEvents),
         encoded' = encoded \o codec'.frames
  PROVE  /\ IsSequence(codec'.frames)
         /\ Encoding(codec', encoded', hasError')
<1>1. PICK t : /\ out' = out \o t
               /\ \/ t \in Seq(MiddleEvents) /\ hasError' = hasError
                  \/ hasError' /\ \E m : t = <<ErrorEvent(m)>>
  BY FeedAdds DEF WorkInv
<1>2. Request /\ Encoding(codec, encoded, hasError) /\ TypeOK
  BY DEF WorkInv
<1>3. CASE t \in Seq(MiddleEvents) /\ hasError' = hasError
  <2>1. IsSequence(t)
    BY <1>3 DEF IsSequence
  <2>2. codec' = EncodeAll(codec, t)
    BY <1>1, <1>2, <2>1, NewEventsAdded
  <2> QED
    BY <1>2, <1>3, <2>2, EncodingMiddle
<1>4. ASSUME NEW m, t = <<ErrorEvent(m)>>, hasError'
      PROVE  IsSequence(codec'.frames) /\ Encoding(codec', encoded', hasError')
  <2>1. IsSequence(t)
    BY <1>4, ShortSequences
  <2>2. codec' = EncodeAll(codec, <<ErrorEvent(m)>>)
    BY <1>1, <1>2, <1>4, <2>1, NewEventsAdded
  <2>3. IsSequence(codec'.frames) /\ Encoding(codec', encoded', TRUE)
    BY <1>2, <2>2, EncodingOneError
  <2>4. hasError' = TRUE
    <3>1. TypeOK'
      BY <1>2, NextType DEF Next
    <3> QED
      BY <1>4, <3>1 DEF TypeOK
  <2> QED
    BY <2>3, <2>4
<1> QED
  BY <1>1, <1>3, <1>4

\* Frames added to a stream: held back with the others, or sent after them.
LEMMA GrowsBySent ==
  ASSUME NEW b, IsSequence(b), NEW g, Framed(g)
  PROVE  Grows(b, Sent(b, g))
<1> DEFINE e == <<>>
<1>1. Framed(e) /\ b = b \o e
  BY ShortSequences, EmptyConcatenation DEF Framed, HasJSON
<1> HIDE DEF e
<1>2. CASE gone
  BY <1>1, <1>2 DEF Grows, Sent
<1>3. CASE ~gone
  BY <1>3 DEF Grows, Sent
<1> QED
  BY <1>2, <1>3

LEMMA FramesAdded ==
  ASSUME WorkInv, pc # "done", mode = "stream", NEW h, Framed(h)
  PROVE  LET w == Add(sw, h)
         IN /\ IsWriter(w) /\ w.started = sw.started /\ w.status = sw.status
            /\ sw.started => (~gone => w.body = encoded \o h) /\ (gone => w.body = sw.body)
            /\ ~sw.started => w.body = <<>> /\ w.pending = encoded \o h
            /\ Grows(sw.body, w.body)
<1> DEFINE w == Add(sw, h)
<1>1. IsWriter(sw) /\ IsSequence(sw.body) /\ IsSequence(encoded) /\ IsSequence(h)
  BY DEF WorkInv, IsWriter, Framed
<1>2. /\ IsWriter(w) /\ w.started = sw.started /\ w.status = sw.status
      /\ sw.started => w.body = Sent(sw.body, h)
      /\ ~sw.started => w.body = sw.body /\ w.pending = sw.pending \o h
  BY <1>1, AddIs
<1> HIDE DEF w
<1>3. CASE sw.started
  <2>1. Grows(sw.body, w.body)
    BY <1>1, <1>2, <1>3, GrowsBySent
  <2>2. ~gone => w.body = encoded \o h
    BY <1>2, <1>3 DEF WorkInv, StreamComplete, Sent
  <2>3. gone => w.body = sw.body
    BY <1>2, <1>3 DEF Sent
  <2> QED
    BY <1>2, <1>3, <2>1, <2>2, <2>3 DEF w
<1>4. CASE ~sw.started
  <2>1. sw.body = <<>> /\ sw.pending = encoded
    BY <1>4 DEF WorkInv
  <2> DEFINE e == <<>>
  <2>2. Framed(e) /\ sw.body = sw.body \o e
    BY <1>1, EmptyConcatenation, ShortSequences DEF Framed, HasJSON
  <2> HIDE DEF e
  <2>3. Grows(sw.body, w.body)
    BY <1>2, <1>4, <2>2 DEF Grows
  <2> QED
    BY <1>2, <1>4, <2>1, <2>3 DEF w
<1> QED
  BY <1>3, <1>4

\* ... and the header goes out, if it has not.
LEMMA FramesSent ==
  ASSUME WorkInv, pc # "done", mode = "stream", NEW h, Framed(h)
  PROVE  LET v == Start(Add(sw, h))
         IN /\ IsWriter(v) /\ v.started /\ v.status = 200 /\ Grows(sw.body, v.body)
            /\ ~gone => v.body = encoded \o h
            /\ gone => v.body = sw.body
<1> DEFINE w == Add(sw, h)
           v == Start(w)
           k == encoded \o h
<1>1. /\ IsWriter(w) /\ w.started = sw.started /\ w.status = sw.status
      /\ sw.started => (~gone => w.body = k) /\ (gone => w.body = sw.body)
      /\ ~sw.started => w.body = <<>> /\ w.pending = k
      /\ Grows(sw.body, w.body)
  BY FramesAdded
<1>2. Framed(k) /\ <<>> \o k = k
  <2>1. IsSequence(encoded) /\ ~HasJSON(encoded) /\ IsSequence(h) /\ ~HasJSON(h)
    BY DEF WorkInv, Encoding, Framed
  <2>2. Framed(k)
    BY <2>1, HasInConcatenation DEF Framed
  <2> QED
    BY <2>2, EmptyConcatenation DEF Framed
<1> HIDE DEF w, k
<1>3. /\ IsWriter(v) /\ v.started
      /\ w.started => v = w
      /\ ~w.started => v.status = 200 /\ v.body = Sent(w.body, w.pending)
  BY <1>1, StartIs
<1> HIDE DEF v
<1>4. CASE sw.started
  <2>1. sw.status = 200
    BY <1>4 DEF WorkInv
  <2> QED
    BY <1>1, <1>3, <1>4, <2>1 DEF v, w, k
<1>5. CASE ~sw.started
  <2>1. sw.body = <<>>
    BY <1>5 DEF WorkInv
  <2>2. v.body = Sent(sw.body, k) /\ v.status = 200
    BY <1>1, <1>3, <1>5, <2>1
  <2>3. Grows(sw.body, v.body)
    BY <1>2, <2>1, <2>2, ShortSequences, GrowsBySent
  <2>4. ~gone => v.body = k
    BY <1>2, <2>1, <2>2 DEF Sent
  <2>5. gone => v.body = sw.body
    BY <2>2 DEF Sent
  <2> QED
    BY <1>3, <2>2, <2>3, <2>4, <2>5 DEF v, w, k
<1> QED
  BY <1>4, <1>5

LEMMA ScanLineGoesOn ==
  ASSUME FrontInv, WorkInv, ScanLine, ~panicked' PROVE WorkInv' /\ ResponseStep
<1> DEFINE h == codec'.frames
<1>1. /\ pc = "scan" /\ Feed /\ codec' = EncodeAll(codec, NewEvents) /\ encoded' = encoded \o h
      /\ sw' = IF mode = "buffer" THEN sw
               ELSE IF contentStarted' THEN Start(Add(sw, h)) ELSE Add(sw, h)
      /\ UNCHANGED <<protocol, mode, inbound, pc, readErr, gone>>
  BY DEF ScanLine, HasContent, requestVars
<1>2. IsSequence(h) /\ Encoding(codec', encoded', hasError')
  BY <1>1, EncodingFeed
<1>9. mode = "stream" => Framed(h)
  <2>1. IsSequence(encoded) /\ IsSequence(h) /\ encoded' = encoded \o h
    BY <1>1, <1>2 DEF WorkInv
  <2>2. mode = "stream" => ~HasJSON(encoded')
    BY <1>2 DEF Encoding
  <2> HIDE DEF h
  <2> QED
    BY <2>1, <2>2, HasInConcatenation DEF Framed
<1>3. TypeOK'
  BY <1>1, NextType DEF WorkInv, Next
<1>4. ~finished' /\ (contentStarted => contentStarted')
  BY <1>1, FeedAdds DEF WorkInv
<1>5. IsSequence(encoded') /\ Encoding(codec, encoded, hasError)' /\ Request'
  BY <1>1, <1>2 DEF Encoding, IsEncoder, Completed, Erred, WorkInv, Request
<1> HIDE DEF h
<1>6. CASE mode # "stream"
  <2>1. sw' = sw /\ ~sw.started
    BY <1>1, <1>6 DEF WorkInv, Request
  <2>2. OutcomeTold'
    BY <1>1, <2>1, OutcomeIs DEF WorkInv
  <2>3. StreamComplete' /\ NoEmptySuccess'
    BY <1>1, <2>1 DEF WorkInv, StreamComplete, NoEmptySuccess
  <2>4. WorkInv'
    BY <1>1, <1>3, <1>4, <1>5, <1>6, <2>1, <2>2, <2>3 DEF WorkInv
  <2> QED
    BY <1>1, <2>1, <2>4 DEF ResponseStep, Leaves
<1>7. CASE mode = "stream" /\ contentStarted'
  <2>1. sw' = Start(Add(sw, h))
    BY <1>1, <1>7
  <2>2. /\ IsWriter(sw') /\ sw'.started /\ sw'.status = 200 /\ Grows(sw.body, sw'.body)
        /\ ~gone => sw'.body = encoded \o h
        /\ gone => sw'.body = sw.body
    BY <1>1, <1>7, <1>9, <2>1, FramesSent
  <2>3. ~HasEnd(sw'.body)
    <3>1. ~HasEnd(encoded') /\ ~HasEnd(sw.body)
      BY <1>1, <1>2, <1>7 DEF WorkInv, Encoding
    <3> QED
      BY <1>1, <2>2, <3>1
  <2>4. OutcomeTold'
    BY <1>1, <2>3, OutcomeIs
  <2>5. StreamComplete' /\ NoEmptySuccess'
    BY <1>1, <1>7, <2>2 DEF StreamComplete, NoEmptySuccess
  <2>6. WorkInv'
    BY <1>1, <1>3, <1>4, <1>5, <1>7, <2>2, <2>3, <2>4, <2>5 DEF WorkInv, Early
  <2>7. sw.status \in {0, 200}
    BY <1>1 DEF WorkInv
  <2> QED
    BY <1>1, <2>2, <2>6, <2>7 DEF ResponseStep, Streams
<1>8. CASE mode = "stream" /\ ~contentStarted'
  <2>1. sw' = Add(sw, h)
    BY <1>1, <1>8
  <2>2. /\ IsWriter(sw') /\ sw'.started = sw.started /\ sw'.status = sw.status
        /\ sw.started => (~gone => sw'.body = encoded \o h) /\ (gone => sw'.body = sw.body)
        /\ ~sw.started => sw'.body = <<>> /\ sw'.pending = encoded \o h
        /\ Grows(sw.body, sw'.body)
    BY <1>1, <1>8, <1>9, <2>1, FramesAdded
  <2>3. ~HasEnd(sw'.body)
    <3>1. ~HasEnd(encoded') /\ ~HasEnd(sw.body)
      BY <1>1, <1>2, <1>8 DEF WorkInv, Encoding
    <3> QED
      BY <1>1, <2>2, <3>1, ShortSequences DEF HasEnd
  <2>4. OutcomeTold'
    BY <1>1, <2>3, OutcomeIs
  \* A stream starts with the content, which does not go away.
  <2>5. ~sw.started
    BY <1>1, <1>4, <1>8 DEF WorkInv, NoEmptySuccess
  <2>6. StreamComplete' /\ NoEmptySuccess'
    BY <1>1, <2>2, <2>5 DEF WorkInv, StreamComplete, NoEmptySuccess
  <2>7. WorkInv'
    BY <1>1, <1>3, <1>4, <1>5, <1>8, <2>2, <2>3, <2>4, <2>5, <2>6 DEF WorkInv
  <2>8. sw'.status = sw.status /\ sw'.body = sw.body
    BY <1>1, <2>2, <2>5 DEF WorkInv
  <2> QED
    BY <1>1, <2>7, <2>8 DEF ResponseStep, Leaves
<1> QED
  BY <1>6, <1>7, <1>8

\* A panic: an error status, or a stream that breaks off.
LEMMA EndsSilently ==
  ASSUME WorkInv, pc # "done", pc' = "done", sw' = sw, TypeOK', IsSequence(encoded'),
         UNCHANGED <<protocol, mode, gone, contentStarted>>,
         gone \/ panicked', ~finished', ~Refused', encoded' = encoded,
         pc \notin Early
  PROVE  WorkInv' /\ ResponseStep
<1>1. OutcomeTold'
  BY OutcomeIs DEF WorkInv
<1>2. StreamComplete' /\ NoEmptySuccess'
  BY DEF WorkInv, StreamComplete, NoEmptySuccess
<1>3. Request'
  BY DEF WorkInv, Request
<1>4. WorkInv'
  BY <1>1, <1>2, <1>3 DEF WorkInv, Early
<1> QED
  BY <1>4 DEF ResponseStep, Leaves

LEMMA ScanLinePanics ==
  ASSUME FrontInv, WorkInv, ScanLine, panicked' PROVE WorkInv' /\ ResponseStep
<1>1. /\ pc = "scan" /\ Feed /\ pc' = "done" /\ encoded' = encoded
      /\ sw' = IF sw.status = 0 THEN WriteError(sw, 500, 0) ELSE sw
      /\ UNCHANGED <<protocol, mode, inbound, gone>>
  BY DEF ScanLine, Return, requestVars
<1>2. ~finished /\ ~panicked /\ TypeOK
  BY <1>1 DEF WorkInv
<1>3. TypeOK'
  BY <1>1, <1>2, NextType DEF Next
<1>4. ~finished' /\ contentStarted' = contentStarted
  <2>1. FeedErrorWithoutDetail
    BY <1>1, <1>2, panicked', Zenon DEF Feed, FeedDelta, FeedToolCall, FeedError, FeedIgnored,
       FeedFinishStep, FeedFinish, errorVars
  <2> QED
    BY <1>2, <2>1 DEF FeedErrorWithoutDetail, blockVars
<1>5. ~Refused'
  BY <1>1, NotRefused
<1>6. CASE sw.status = 0
  <2>1. /\ IsWriter(sw) /\ ~sw.started /\ sw.body = <<>> /\ IsSequence(encoded')
    BY <1>1, <1>6 DEF WorkInv
  <2>2. sw' = WriteError(sw, 500, 0)
    BY <1>1, <1>6
  <2> QED
    BY <1>1, <1>3, <1>4, <1>5, <1>6, <2>1, <2>2, EndsRefused
<1>7. CASE sw.status # 0
  <2>1. IsSequence(encoded')
    BY <1>1 DEF WorkInv
  <2> QED
    BY <1>1, <1>3, <1>4, <1>5, <1>7, <2>1, EndsSilently DEF Early
<1> QED
  BY <1>6, <1>7

LEMMA EndDisconnectedStep ==
  ASSUME FrontInv, WorkInv, EndDisconnected PROVE WorkInv' /\ ResponseStep
<1>1. /\ pc = "over" /\ gone /\ pc' = "done"
      /\ UNCHANGED <<vars, protocol, mode, inbound, encoded, gone, sw>>
  BY DEF EndDisconnected, Return, NoEvents, requestVars
<1>4. pc \notin Early
  BY <1>1 DEF Early
<1>2. /\ TypeOK' /\ IsSequence(encoded') /\ ~finished'
      /\ contentStarted' = contentStarted
  BY <1>1, NextType DEF WorkInv, vars, blockVars
<1>3. ~Refused'
  BY <1>1, NotRefused
<1> QED
  BY <1>1, <1>2, <1>3, <1>4, EndsSilently

\* A failure in a stream that has started: the frames that tell it are sent.
LEMMA EndsFailing ==
  ASSUME WorkInv, pc \notin Early, pc # "done", pc' = "done", mode = "stream",
         sw.started, NEW h, Framed(h), sw' = Add(sw, h), encoded' = encoded \o h,
         Failing(encoded'), TypeOK', UNCHANGED <<protocol, mode, gone, contentStarted>>,
         InStream', finished' => Failed'
  PROVE  WorkInv' /\ ResponseStep
<1>1. sw.status = 200 /\ contentStarted
  BY DEF WorkInv, NoEmptySuccess
<1>2. /\ IsWriter(sw') /\ sw'.started = sw.started /\ sw'.status = sw.status
      /\ ~gone => sw'.body = encoded'
      /\ gone => sw'.body = sw.body
      /\ Grows(sw.body, sw'.body)
  BY FramesAdded
<1>3. ~HasEnd(sw'.body) /\ ~Refused'
  BY <1>2 DEF WorkInv, Failing, InStream
<1>4. OutcomeTold'
  BY <1>2, <1>3, OutcomeIs DEF Failing, TellsError
<1>5. StreamComplete' /\ NoEmptySuccess'
  BY <1>1, <1>2 DEF StreamComplete, NoEmptySuccess
<1>6. Request' /\ IsSequence(encoded')
  BY Concatenation DEF WorkInv, Request, Framed
<1>7. WorkInv'
  BY <1>1, <1>2, <1>4, <1>5, <1>6 DEF WorkInv, Early
<1> QED
  BY <1>1, <1>2, <1>7 DEF ResponseStep, Streams

LEMMA FailureEncoded ==
  ASSUME WorkInv, pc # "done", mode = "stream", NEW m,
         codec' = EncodeAll(codec, <<ErrorEvent(m)>>), encoded' = encoded \o codec'.frames
  PROVE  Framed(codec'.frames) /\ Failing(encoded')
<1> DEFINE h == codec'.frames
<1>1. Request /\ Encoding(codec, encoded, hasError) /\ IsSequence(encoded)
  BY DEF WorkInv
<1>2. IsSequence(h) /\ Encoding(codec', encoded', TRUE) /\ Failing(encoded')
  BY <1>1, EncodingOneError
<1>3. ~HasJSON(encoded') /\ encoded' = encoded \o h
  BY <1>2 DEF Encoding
<1> HIDE DEF h
<1>4. Framed(h)
  BY <1>1, <1>2, <1>3, HasInConcatenation DEF Framed
<1> QED
  BY <1>2, <1>4 DEF h

LEMMA EndReadErrorStep ==
  ASSUME FrontInv, WorkInv, NEW kind \in {"idle", "failed"},
         NEW s, s = 429 \/ s = 502, NEW retry, EndReadError(kind, s, retry)
  PROVE  WorkInv' /\ ResponseStep
<1> DEFINE h == codec'.frames
<1>1. /\ pc = "over" /\ pc' = "done" /\ readErr' = kind /\ encoded' = encoded \o h
      /\ codec' = EncodeAll(codec, IF sw.started THEN <<ErrorEvent(kind)>> ELSE <<>>)
      /\ sw' = IF sw.started THEN Add(sw, h) ELSE WriteError(sw, s, retry)
      /\ UNCHANGED <<vars, protocol, mode, inbound, refusal, upstream, gone>>
  BY DEF EndReadError, TellReadError, Return, requestVars
<1>2. TypeOK' /\ ~finished' /\ contentStarted' = contentStarted
  BY <1>1, NextType DEF WorkInv, vars, blockVars
<1>3. ~Refused' /\ InStream' /\ pc \notin Early
  BY <1>1, Answered DEF Early
<1>4. Request /\ Encoding(codec, encoded, hasError) /\ IsSequence(encoded)
  BY <1>1 DEF WorkInv
<1>6. CASE sw.started
  <2>1. mode = "stream"
    BY <1>6 DEF WorkInv
  <2>3. codec' = EncodeAll(codec, <<ErrorEvent(kind)>>) /\ sw' = Add(sw, h)
    BY <1>1, <1>6
  <2>4. Framed(h) /\ Failing(encoded')
    BY <1>1, <2>1, <2>3, FailureEncoded
  <2> HIDE DEF h
  <2> QED
    BY <1>1, <1>2, <1>3, <1>6, <2>1, <2>3, <2>4, EndsFailing
<1>7. CASE ~sw.started
  <2> DEFINE e == <<>>
  <2>1. codec' = EncodeAll(codec, e) /\ sw' = WriteError(sw, s, retry) /\ e \in Seq(MiddleEvents)
    BY <1>1, <1>7
  <2> HIDE DEF e
  <2>2. IsSequence(h)
    BY <1>4, <2>1, EncodingMiddle
  <2>3. IsSequence(encoded')
    BY <1>1, <1>4, <2>2, Concatenation
  <2>4. sw.status = 0 /\ sw.body = <<>> /\ IsWriter(sw)
    BY <1>1, <1>7 DEF WorkInv
  <2>5. s \in 400..599
    OBVIOUS
  <2> QED
    BY <1>1, <1>2, <1>3, <1>7, <2>1, <2>3, <2>4, <2>5, EndsRefused
<1> QED
  BY <1>6, <1>7

\* What the encoder has returned after Finish.
LEMMA EncodingFinish ==
  ASSUME WorkInv, pc # "done", Finish, codec' = EncoderFinish(EncodeAll(codec, NewEvents)),
         encoded' = encoded \o codec'.frames
  PROVE  /\ IsSequence(codec'.frames)
         /\ mode = "stream" =>
              /\ ~HasJSON(encoded')
              /\ hasError \/ OutputTokens = 0 => Failing(encoded')
              /\ ~hasError /\ OutputTokens # 0 => Succeeding(encoded')
<1>1. Request /\ Encoding(codec, encoded, hasError) /\ TypeOK
  BY DEF WorkInv
<1>2. PICK t, e : /\ t \in Seq(MiddleEvents)
                  /\ \/ hasError /\ out' = out
                     \/ /\ ~hasError /\ out' = out \o Append(t, e)
                        /\ \/ OutputTokens = 0 /\ e = ErrorEvent(ZeroOutput)
                           \/ OutputTokens # 0 /\ e = MessageStop
  BY <1>1, FinishAdds
<1>3. CASE hasError
  <2> DEFINE n == <<>>
             d == EncodeAll(codec, n)
  <2>1. n \in Seq(MiddleEvents) /\ IsSequence(n) /\ out' = out \o n
    <3>1. out \in Seq(Event)
      BY <1>1 DEF TypeOK
    <3> QED
      BY <1>2, <1>3, <3>1 DEF IsSequence
  <2> HIDE DEF n
  <2>2. NewEvents = n
    BY <1>1, <2>1, NewEventsAdded
  <2>3. IsSequence(d.frames) /\ Encoding(d, encoded \o d.frames, hasError)
    BY <1>1, <2>1, EncodingMiddle
  <2>4. EncoderFinish(d) = d
    <3>1. CASE mode = "stream"
      <4>1. protocol # "messages" => Erred(d)
        BY <1>3, <2>3, <3>1 DEF Encoding
      <4> QED
        BY <1>1, <4>1, FinishSilent DEF Request
    <3>2. CASE mode # "stream"
      BY <1>1, <2>3, <3>2, BufferKeeps DEF Encoding
    <3> QED
      BY <3>1, <3>2
  <2>5. codec' = d
    BY <2>2, <2>4
  <2> HIDE DEF d
  <2>6. mode = "stream" => Failing(encoded') /\ ~HasJSON(encoded')
    BY <1>3, <2>3, <2>5 DEF Encoding, Failing
  <2> QED
    BY <1>3, <2>3, <2>5, <2>6
<1>4. CASE ~hasError
  <2> DEFINE u == Append(t, e)
             d == EncodeAll(codec, u)
  <2>1. IsSequence(u)
    <3>1. IsSequence(t)
      BY <1>2 DEF IsSequence
    <3> QED
      BY <3>1, Appended
  <2>2. NewEvents = u
    BY <1>1, <1>2, <1>4, <2>1, NewEventsAdded
  <2>3. codec' = EncoderFinish(d)
    BY <2>2
  <2>4. CASE OutputTokens = 0
    <3>1. e = ErrorEvent(ZeroOutput)
      BY <1>2, <1>4, <2>4
    <3>2. /\ IsSequence(d.frames) /\ Encoding(d, encoded \o d.frames, TRUE)
          /\ mode = "stream" => Failing(encoded \o d.frames) /\ EncoderFinish(d) = d
      BY <1>1, <1>2, <3>1, EncodingError
    <3>3. EncoderFinish(d) = d
      <4>1. CASE mode = "stream"
        BY <3>2, <4>1
      <4>2. CASE mode # "stream"
        BY <1>1, <3>2, <4>2, BufferKeeps DEF Encoding
      <4> QED
        BY <4>1, <4>2
    <3> HIDE DEF d
    <3>4. mode = "stream" => ~HasJSON(encoded \o d.frames)
      BY <3>2 DEF Encoding
    <3> QED
      BY <2>3, <2>4, <3>2, <3>3, <3>4
  <2>5. CASE OutputTokens # 0
    <3>1. e = MessageStop
      BY <1>2, <1>4, <2>5
    <3>2. Encoding(codec, encoded, FALSE)
      <4>1. hasError = FALSE
        BY <1>1, <1>4 DEF TypeOK
      <4> QED
        BY <1>1, <4>1
    <3>3. /\ IsSequence(d.frames)
          /\ mode = "stream" => Succeeding(encoded \o d.frames) /\ ~HasJSON(encoded \o d.frames)
          /\ EncoderFinish(d) = d
      BY <1>1, <1>2, <3>1, <3>2, EncodingEnd
    <3> HIDE DEF d
    <3> QED
      BY <1>4, <2>3, <2>5, <3>3
  <2> QED
    BY <2>4, <2>5
<1> QED
  BY <1>3, <1>4

LEMMA EndEOFStep ==
  ASSUME FrontInv, WorkInv, EndEOF PROVE WorkInv' /\ ResponseStep
<1> DEFINE h == codec'.frames
           w == IF mode = "stream" THEN Add(sw, h) ELSE sw
<1>1. /\ pc = "over" /\ pc' = "done" /\ readErr = "eof" /\ readErr' = readErr
      /\ Finish /\ encoded' = encoded \o h /\ codec' = EncoderFinish(EncodeAll(codec, NewEvents))
      /\ sw' = EndOfStream(w)
      /\ UNCHANGED <<protocol, mode, inbound, refusal, upstream, gone>>
  BY DEF EndEOF, Return, requestVars
<1>2. TypeOK' /\ TypeOK /\ Request
  BY <1>1, NextType DEF WorkInv, Next
<1>3. /\ finished' /\ ~panicked' /\ hasError' = hasError
      /\ contentStarted' = contentStarted /\ OutputTokens' = OutputTokens
  BY <1>1, <1>2, FinishAdds
<1>4. OutputTokens \in Nat /\ hasError \in BOOLEAN
  BY <1>2 DEF OutputTokens, TypeOK, UsageObject
<1>5. /\ IsSequence(h)
      /\ mode = "stream" =>
           /\ ~HasJSON(encoded')
           /\ hasError \/ OutputTokens = 0 => Failing(encoded')
           /\ ~hasError /\ OutputTokens # 0 => Succeeding(encoded')
  BY <1>1, EncodingFinish
<1>6. /\ ~Refused' /\ InStream' /\ refusal' = 0 /\ upstream' # "unreachable"
      /\ pc \notin Early
  BY <1>1, Answered DEF Early
<1>7. IsSequence(encoded')
  BY <1>1, <1>5, Concatenation DEF WorkInv
<1>14. mode = "stream" => Framed(h)
  <2>1. IsSequence(encoded) /\ IsSequence(h) /\ encoded' = encoded \o h
    BY <1>1, <1>5 DEF WorkInv
  <2>2. mode = "stream" => ~HasJSON(encoded')
    BY <1>5
  <2> HIDE DEF h
  <2> QED
    BY <2>1, <2>2, HasInConcatenation DEF Framed
<1> DEFINE bad == hasError \/ OutputTokens = 0
<1>8. Failed' <=> bad
  <2>1. readErr' \notin {"idle", "failed"}
    BY <1>1
  <2> QED
    BY <1>3, <1>6, <2>1 DEF Failed
<1>9. /\ ~sw.started => ~w.started /\ w.status = 0 /\ w.body = <<>>
      /\ sw.started => w.started
      /\ IsWriter(w)
  <2>1. IsWriter(sw) /\ (~sw.started => sw.status = 0 /\ sw.body = <<>>)
    BY <1>1 DEF WorkInv
  <2>2. CASE mode = "stream"
    <3>1. /\ IsWriter(w) /\ w.started = sw.started /\ w.status = sw.status
          /\ ~sw.started => w.body = <<>>
      BY <1>1, <1>14, <2>2, FramesAdded
    <3> QED
      BY <2>1, <3>1
  <2>3. CASE mode # "stream"
    BY <2>1, <2>3
  <2> QED
    BY <2>2, <2>3
<1>10. CASE bad /\ ~sw.started
  <2>1. \E s, retry : s \in 400..599 /\ sw' = WriteError(w, s, retry)
    <3>1. ~w.started
      BY <1>9, <1>10
    <3> HIDE DEF w
    <3>2. CASE hasError
      <4>1. sw' = WriteError(w, MapStatus(StatusPrefix[errMessage]),
                             RetryAfter(StatusPrefix[errMessage]))
        BY <1>1, <3>1, <3>2 DEF EndOfStream
      <4> QED
        BY <4>1, UpstreamStatus
    <3>3. CASE ~hasError
      <4>1. sw' = WriteError(w, 429, 10)
        BY <1>1, <1>10, <3>1, <3>3 DEF EndOfStream
      <4>2. 429 \in 400..599
        OBVIOUS
      <4> QED
        BY <4>1, <4>2
    <3> QED
      BY <3>2, <3>3
  <2> HIDE DEF w, h
  <2>2. PICK s, retry : s \in 400..599 /\ sw' = WriteError(w, s, retry)
    BY <2>1
  <2>3. ~w.started /\ w.status = 0 /\ w.body = <<>> /\ IsWriter(w)
    BY <1>9, <1>10
  <2>4. finished' => Failed'
    BY <1>8, <1>10
  <2> QED
    BY <1>1, <1>2, <1>6, <1>7, <1>10, <2>2, <2>3, <2>4, EndsRefused
<1>11. CASE bad /\ sw.started
  <2>1. mode = "stream"
    BY <1>11 DEF WorkInv
  <2>2. sw' = Add(sw, h)
    <3>1. w = Add(sw, h) /\ w.started
      BY <1>9, <1>11, <2>1
    <3> HIDE DEF w
    <3> QED
      BY <1>1, <1>4, <1>11, <3>1 DEF EndOfStream
  <2>3. Failing(encoded')
    BY <1>5, <1>11, <2>1
  <2> HIDE DEF h, w
  <2> QED
    BY <1>1, <1>2, <1>3, <1>6, <1>8, <1>11, <1>14, <2>1, <2>2, <2>3, EndsFailing
<1>12. CASE ~bad /\ mode = "stream"
  <2>1. sw' = Start(Add(sw, h))
    <3>1. w = Add(sw, h)
      BY <1>12
    <3> HIDE DEF w
    <3> QED
      BY <1>1, <1>4, <1>12, <3>1 DEF EndOfStream
  <2> HIDE DEF w, h
  <2>2. /\ IsWriter(sw') /\ sw'.started /\ sw'.status = 200 /\ Grows(sw.body, sw'.body)
        /\ ~gone => sw'.body = encoded'
    BY <1>1, <1>12, <1>14, <2>1, FramesSent
  <2>3. ~gone => Succeeding(sw'.body)
    BY <1>5, <1>12, <2>2
  <2>4. OutcomeTold'
    BY <1>1, <1>6, <1>8, <1>12, <2>2, <2>3, OutcomeIs
  <2>5. StreamComplete'
    BY <1>1, <2>2 DEF StreamComplete
  <2>6. NoEmptySuccess'
    BY <1>3, <1>4, <1>12 DEF NoEmptySuccess
  <2>7. WorkInv'
    BY <1>1, <1>2, <1>7, <1>12, <2>2, <2>4, <2>5, <2>6 DEF WorkInv, Request, Early
  <2>8. sw.status \in {0, 200}
    BY <1>1 DEF WorkInv
  <2> QED
    BY <1>1, <2>2, <2>7, <2>8 DEF ResponseStep, Streams
<1>13. CASE ~bad /\ mode # "stream"
  <2>1. /\ ~sw.started /\ sw.body = <<>> /\ sw.status = 0 /\ IsWriter(sw)
        /\ IsSequence(sw.body)
    BY <1>1, <1>13 DEF WorkInv, IsWriter
  <2>2. sw' = WriteAnswer(sw)
    <3>1. w = sw
      BY <1>13
    <3> HIDE DEF w
    <3> QED
      BY <1>1, <1>4, <1>13, <3>1 DEF EndOfStream
  <2> DEFINE g == <<JSONAnswer>>
  <2>3. /\ IsWriter(sw') /\ ~sw'.started /\ sw'.status = 200
        /\ sw'.body = Sent(sw.body, g)
    BY <2>1, <2>2, WriteAnswerIs
  <2>4. IsSequence(g) /\ Succeeding(g)
    <3>1. IsSequence(g) /\ Len(g) = 1 /\ g[1] = JSONAnswer
      BY ShortSequences
    <3>2. IsEnd(JSONAnswer) /\ ~IsError(JSONAnswer)
      BY DEF IsEnd, IsError, JSONAnswer
    <3> HIDE DEF g
    <3>3. g # <<>> /\ Last(g) = JSONAnswer /\ ~HasError(g)
      BY <3>1, <3>2, ShortSequences DEF Last, HasError
    <3> QED
      BY <3>1, <3>2, <3>3 DEF Succeeding
  <2> HIDE DEF g, h, w
  <2>5. ~gone => Succeeding(sw'.body)
    <3>1. <<>> \o g = g
      BY <2>4, EmptyConcatenation
    <3> QED
      BY <2>1, <2>3, <2>4, <3>1 DEF Sent
  <2>6. OutcomeTold'
    BY <1>1, <1>6, <1>8, <1>13, <2>3, <2>5, OutcomeIs
  <2>7. StreamComplete' /\ NoEmptySuccess'
    BY <1>3, <1>4, <1>13, <2>3 DEF StreamComplete, NoEmptySuccess
  <2>8. WorkInv'
    BY <1>1, <1>2, <1>7, <1>13, <2>3, <2>6, <2>7 DEF WorkInv, Request
  <2>9. sw'.body \in {<<>>, <<JSONError(sw'.status)>>}
    <3>1. g = <<JSONError(sw'.status)>>
      BY <2>3 DEF g, JSONAnswer, JSONError
    <3>2. <<>> \o g = g
      BY <2>4, EmptyConcatenation
    <3>3. sw'.body = <<>> \/ sw'.body = g
      BY <2>1, <2>3, <3>2 DEF Sent
    <3> QED
      BY <3>1, <3>3
  <2> QED
    BY <1>1, <2>1, <2>3, <2>8, <2>9 DEF ResponseStep, WritesWhole
<1> QED
  BY <1>10, <1>11, <1>12, <1>13

---------------------------------------------------------------------------
(* The steps of all parties. *)

LEMMA WorkNext ==
  ASSUME FrontInv, WorkInv, [PipelineNext]_pipelineVars PROVE WorkInv' /\ ResponseStep
<1>1. CASE pc = "done"
  <2>1. UNCHANGED <<vars, protocol, mode, inbound, refusal, pc, readErr, upstream, codec,
                    encoded, sw, gone>>
    BY <1>1 DEF PipelineNext, FrontEnd, ReadBody, FrontRefuses, FrontAccepts, Handler, Timer,
       RequestSent, GenerateFails, GenerateRefused, AnswerRefusal, GenerateSucceeds, ReadStart,
       ReadLines, ReadEnds, ScanLine, EndDisconnected, EndReadError, EndEOF, UpstreamSends, UpstreamStops,
       TimerFires, TimerCloses, ClientLeaves, handlerVars, requestVars, readerVars, writerVars,
       sourceVars, pipelineVars
  <2> QED
    BY <2>1, DoneStep
<1>2. CASE pc # "done"
  <2>1. CASE \E s \in {400, 401, 413} : FrontRefuses(s)
    BY <2>1, FrontRefusesStep
  <2>2. CASE GenerateFails \/ AnswerRefusal
    BY <2>2, GenerateStep
  <2>3. CASE ScanLine
    BY <2>3, ScanLineGoesOn, ScanLinePanics
  <2>4. CASE EndDisconnected
    BY <2>4, EndDisconnectedStep
  <2>5. CASE EndReadError("idle", 429, 5) \/ EndReadError("failed", 502, 0)
    BY <2>5, EndReadErrorStep
  <2>6. CASE EndEOF
    BY <2>6, EndEOFStep
  <2>7. CASE \/ \E n \in 1..inbound.left : ReadBody(n)
             \/ FrontAccepts \/ RequestSent \/ GenerateSucceeds
             \/ \E code \in Refusals : GenerateRefused(code)
             \/ ReadStart \/ ReadLines
             \/ \E kind \in {"eof", "failed"} : ReadEnds(kind)
             \/ Timer \/ ClientLeaves \/ UpstreamSends
             \/ \E how \in {"ended", "broken"} : UpstreamStops(how)
             \/ UNCHANGED pipelineVars
    <3>1. UNCHANGED <<vars, protocol, mode, codec, encoded, sw>>
      BY <2>7 DEF NoEvents, ReadBody, FrontAccepts, Timer, RequestSent, GenerateRefused,
         GenerateSucceeds, ReadStart,
         ReadLines, ReadEnds, UpstreamSends, UpstreamStops, TimerFires, TimerCloses, ClientLeaves,
         handlerVars, requestVars, writerVars, sourceVars, pipelineVars
    <3>3. gone => gone'
      BY <2>7 DEF ReadBody, FrontAccepts, Timer, RequestSent, GenerateRefused, GenerateSucceeds,
         ReadStart, ReadLines, ReadEnds,
         UpstreamSends, UpstreamStops, TimerFires, TimerCloses, ClientLeaves, sourceVars,
         pipelineVars
    <3>2. /\ pc' # "done"
          /\ pc' \in Early => pc \in Early
      BY <1>2, <2>7 DEF Early, ReadBody, FrontAccepts, Timer, RequestSent, GenerateRefused,
         GenerateSucceeds, ReadStart, ReadLines,
         ReadEnds, UpstreamSends, UpstreamStops, TimerFires, TimerCloses, ClientLeaves,
         handlerVars, readerVars, pipelineVars
    <3> QED
      BY <1>2, <3>1, <3>2, <3>3, QuietStep
  <2> QED
    BY <2>1, <2>2, <2>3, <2>4, <2>5, <2>6, <2>7 DEF PipelineNext, FrontEnd, Handler
<1> QED
  BY <1>1, <1>2

LEMMA NewEncoderType ==
  ASSUME Request
  PROVE  LET c == NewEncoder
         IN IsEncoder(c) /\ ~Completed(c) /\ ~Erred(c) /\ c.frames = <<>>
<1>1. CASE protocol = "responses"
  <2> DEFINE c == NewResponsesOut
  <2>1. IsResponsesOut(c) /\ ~c.terminated /\ ~c.failed /\ c.frames = <<>>
    BY NewResponsesOutType DEF NewResponsesOut
  <2> HIDE DEF c
  <2>2. IsEncoder(c) /\ ~Completed(c) /\ ~Erred(c) /\ c.frames = <<>>
    BY <1>1, <2>1 DEF IsEncoder, Completed, Erred
  <2> QED
    BY <1>1, <2>2 DEF NewEncoder, c
<1>2. CASE protocol # "responses"
  <2> DEFINE c == NewChatEncoder
  <2>1. IsChatEncoder(c) /\ ~c.finished /\ ~c.hasError /\ c.frames = <<>>
    BY NewChatEncoderType DEF NewChatEncoder
  <2> HIDE DEF c
  <2>2. IsEncoder(c) /\ ~Completed(c) /\ ~Erred(c) /\ c.frames = <<>>
    BY <1>2, <2>1 DEF IsEncoder, Completed, Erred
  <2> QED
    BY <1>2, <2>2 DEF NewEncoder, c
<1> QED
  BY <1>1, <1>2

LEMMA WorkInit == PipelineInit => WorkInv /\ sw.status = 0 /\ sw.body = <<>> /\ pc # "done"
<1> SUFFICES ASSUME PipelineInit PROVE WorkInv /\ sw.status = 0 /\ sw.body = <<>> /\ pc # "done"
  OBVIOUS
<1> DEFINE n == NewEncoder
           e == <<>>
           es == <<MessageStart>>
<1>1. Request
  BY ProtocolsAssumption, ModesAssumption DEF PipelineInit, Request
<1>2. IsEncoder(n) /\ ~Completed(n) /\ ~Erred(n) /\ n.frames = e
  BY <1>1, NewEncoderType
<1>3. IsSequence(e) /\ es \in Seq(MiddleEvents) /\ Len(e) = 0
  BY MiddleEventTypes, ShortSequences
<1>4. /\ Init /\ codec = EncodeAll(n, es) /\ encoded = codec.frames
      /\ pc = "front"
      /\ sw = [started |-> FALSE, pending |-> encoded, status |-> 0, body |-> e, retry |-> 0]
  BY DEF PipelineInit
<1> HIDE DEF n, e, es
<1>5. Encoding(n, e, FALSE)
  BY <1>2, <1>3 DEF Encoding, HasEnd, HasError, HasJSON
<1>6. IsSequence(encoded) /\ Encoding(codec, e \o encoded, FALSE) /\ e \o encoded = encoded
  <2>1. IsSequence(encoded) /\ Encoding(codec, e \o encoded, FALSE)
    BY <1>1, <1>3, <1>4, <1>5, EncodingMiddle
  <2> QED
    BY <2>1, EmptyConcatenation DEF e
<1>7. TypeOK /\ ~finished /\ ~panicked /\ hasError = FALSE
  BY <1>4, InitType DEF Init
<1>8. /\ sw.started = FALSE /\ sw.pending = encoded /\ sw.status = 0 /\ sw.body = e
      /\ sw = [f \in WriterFields |-> sw[f]]
  BY <1>4 DEF WriterFields
<1>9. IsWriter(sw)
  <2>1. FALSE \in BOOLEAN /\ 0 \in Nat
    OBVIOUS
  <2> QED
    BY <1>3, <1>6, <1>8, <2>1, Zenon DEF IsWriter
<1>10. ~HasEnd(sw.body)
  BY <1>3, <1>8 DEF HasEnd
<1>11. StreamComplete /\ NoEmptySuccess
  BY <1>8 DEF StreamComplete, NoEmptySuccess
<1>12. OutcomeTold
  BY <1>4, <1>10 DEF OutcomeTold, Told, HasEnd
<1>13. Encoding(codec, encoded, hasError)
  BY <1>6, <1>7
<1> QED
  BY <1>1, <1>4, <1>6, <1>7, <1>8, <1>9, <1>10, <1>11, <1>12, <1>13 DEF WorkInv, e

---------------------------------------------------------------------------
(* What holds of every request. *)

LEMMA RequestInvariant == PipelineSpec => [](FrontInv /\ WorkInv)
<1>1. PipelineInit => FrontInv /\ WorkInv
  BY FrontInit, WorkInit
<1>2. FrontInv /\ WorkInv /\ [PipelineNext]_pipelineVars => (FrontInv /\ WorkInv)'
  BY FrontNext, WorkNext
<1> QED
  BY <1>1, <1>2, PTL DEF PipelineSpec

\* Frames held back are not lost and not reordered: a client who stays has
\* received of a started stream all the encoder returned.
THEOREM StreamsComplete == PipelineSpec => []StreamComplete
<1>1. WorkInv => StreamComplete
  BY DEF WorkInv
<1> QED
  BY <1>1, RequestInvariant, PTL

\* The header 200 is sent for content only: with the first of it, or at the
\* end of an answer that reports output.
THEOREM NoSuccessIsEmpty == PipelineSpec => []NoEmptySuccess
<1>1. WorkInv => NoEmptySuccess
  BY DEF WorkInv
<1> QED
  BY <1>1, RequestInvariant, PTL

\* A request ends as it went, at whatever point it failed, on all three
\* endpoints and in both forms of the answer.
THEOREM OutcomesTold == PipelineSpec => []OutcomeTold
<1>1. WorkInv => OutcomeTold
  BY DEF WorkInv
<1> QED
  BY <1>1, RequestInvariant, PTL

\* What is written after a sequence leaves it as a prefix.
LEMMA ConcatenationHasPrefix ==
  ASSUME NEW s, NEW h, IsSequence(s), IsSequence(h) PROVE IsPrefix(s, s \o h)
<1> DEFINE t == s \o h
           u == SubSeq(t, 1, Len(s))
<1>1. /\ IsSequence(t) /\ Len(t) = Len(s) + Len(h) /\ Len(s) \in Nat /\ Len(h) \in Nat
      /\ \A i \in 1..Len(s) : t[i] = s[i]
  BY Concatenation, SequenceLen
<1> HIDE DEF t
<1>2. /\ IsSequence(u) /\ Len(u) = Len(s) /\ \A i \in 1..Len(s) : u[i] = t[i]
  BY <1>1, SubSequence
<1> HIDE DEF u
<1>3. PICK S, T : u \in Seq(S) /\ s \in Seq(T)
  BY <1>2 DEF IsSequence
<1>4. u \in Seq(S \cup T) /\ s \in Seq(S \cup T)
  BY <1>3
<1>5. u = s
  BY <1>1, <1>2, <1>4
<1>6. Len(s) <= Len(t) /\ SubSeq(s, 1, Len(s)) = s
  BY <1>1, <1>3
<1> QED
  BY <1>5, <1>6 DEF IsPrefix, t, u

\* The response of every request is one an HTTP client can make sense of: each
\* step of the handler is one of HttpResponse or leaves the response alone.
THEOREM ResponsesContract == PipelineSpec => ResponseContract
<1>1. PipelineInit => Response!ResponseInit
  BY WorkInit DEF PipelineInit, Response!ResponseInit
<1>2. ASSUME FrontInv, WorkInv, [PipelineNext]_pipelineVars
      PROVE  [Response!ResponseNext]_Response!responseVars
  <2>1. IsSequence(sw.body)
    BY <1>2 DEF WorkInv, IsWriter
  <2>2. CASE WritesWhole
    <3>1. Response!Whole(sw'.status)
      BY <2>2 DEF WritesWhole, Response!Whole, JSONError
    <3>2. Response!Refuse \/ Response!Answer
      BY <2>2, <3>1 DEF WritesWhole, Response!Refuse, Response!Answer
    <3> QED
      BY <3>2 DEF Response!ResponseNext
  <2>3. CASE Streams
    <3>1. PICK h : Framed(h) /\ sw'.body = sw.body \o h
      BY <2>3 DEF Streams, Grows
    <3>2. IsPrefix(sw.body, sw'.body)
      BY <2>1, <3>1, ConcatenationHasPrefix DEF Framed
    <3>4. Response!IsPrefix(sw.body, sw'.body)
      BY <3>2 DEF IsPrefix, Response!IsPrefix
    <3>5. (pc' = "done") \in BOOLEAN
      OBVIOUS
    <3>6. ASSUME NEW i \in (Len(sw.body) + 1)..Len(sw'.body)
          PROVE  ~Response!IsJSON(sw'.body[i])
      <4> DEFINE b == sw.body
                 k == i - Len(b)
      <4>1. IsSequence(b) /\ IsSequence(h) /\ sw'.body = b \o h
        BY <2>1, <3>1 DEF Framed
      <4> HIDE DEF b
      <4>2. /\ Len(b \o h) = Len(b) + Len(h) /\ Len(b) \in Nat /\ Len(h) \in Nat
            /\ \A l \in 1..Len(h) : (b \o h)[Len(b) + l] = h[l]
        BY <4>1, Concatenation, SequenceLen
      <4>3. i \in (Len(b) + 1)..(Len(b) + Len(h))
        BY <4>1, <4>2 DEF b
      <4>4. k \in 1..Len(h) /\ Len(b) + k = i
        BY <4>2, <4>3
      <4>5. sw'.body[i] = h[k]
        BY <4>1, <4>2, <4>4
      <4> QED
        BY <3>1, <4>4, <4>5 DEF Framed, HasJSON, Response!IsJSON
    <3>3. Response!Stream
      BY <2>3, <3>4, <3>5, <3>6, Zenon DEF Streams, Response!Stream
    <3> QED
      BY <3>3 DEF Response!ResponseNext
  <2>4. CASE Leaves
    <3>1. CASE pc' = "done" /\ pc # "done"
      <4>1. Response!Leave
        BY <2>4, <3>1 DEF Leaves, Response!Leave
      <4> QED
        BY <4>1 DEF Response!ResponseNext
    <3>2. CASE ~(pc' = "done" /\ pc # "done")
      <4>1. UNCHANGED Response!responseVars
        BY <2>4, <3>2 DEF Leaves, Response!responseVars
      <4> QED
        BY <4>1
    <3> QED
      BY <3>1, <3>2
  <2> QED
    BY <1>2, <2>2, <2>3, <2>4, WorkNext DEF ResponseStep
<1> QED
  BY <1>1, <1>2, RequestInvariant, PTL DEF PipelineSpec, ResponseContract, Response!ResponseSpec
=============================================================================
