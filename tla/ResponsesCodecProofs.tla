----------------------- MODULE ResponsesCodecProofs -----------------------
(***************************************************************************)
(* What the methods of a responsesOut do to it and to the events it sends, *)
(* in whatever state it is: only finish and fail send a terminal event,    *)
(* and the numbers of the events have no gap.                              *)
(***************************************************************************)
EXTENDS ResponsesCodec, SequenceLemmas

TerminalTypes == {"completed", "incomplete", "failed"}

\* The fields of the two records; data of no concern here are anything.
ResponsesFields ==
  {"seq", "outputIndex", "output", "open", "stopReason", "usage", "started", "terminated",
   "failed", "errMsg", "messageSeq", "frames"}

ItemFields ==
  {"kind", "index", "id", "contentIndex", "partOpen", "partText", "parts", "thinking",
   "signature", "arguments", "unwrapped", "inputEmitted"}

IsItem(item) ==
  /\ item = [f \in ItemFields |-> item[f]]
  /\ item.kind # None
  /\ IsSequence(item.arguments) /\ IsSequence(item.unwrapped) /\ item.inputEmitted \in Nat

IsResponsesOut(r) ==
  /\ r = [f \in ResponsesFields |-> r[f]]
  /\ r.seq \in Nat /\ IsSequence(r.frames)
  /\ r.open = NoItem \/ IsItem(r.open)
  /\ r.terminated \in BOOLEAN /\ r.failed \in BOOLEAN

FrameFields == {"sequence_number", "type", "index", "part", "data"}

\* The events g, numbered from n, none of them terminal.
Regular(g, n) ==
  /\ IsSequence(g)
  /\ \A i \in 1..Len(g) :
       /\ DOMAIN g[i] = FrameFields
       /\ g[i].sequence_number = n + i - 1
       /\ g[i].type \notin TerminalTypes

\* s is r after some events that are not terminal.
Follows(r, s) ==
  /\ IsResponsesOut(s)
  /\ s.terminated = r.terminated /\ s.failed = r.failed
  /\ \E g : Regular(g, r.seq) /\ s.frames = r.frames \o g /\ s.seq = r.seq + Len(g)

\* t is r after finish or fail: some more events, and the terminal one.
Terminates(r, t) ==
  /\ IsResponsesOut(t) /\ t.terminated
  /\ \E g, f :
       /\ Regular(g, r.seq) /\ t.frames = (r.frames \o g) \o <<f>>
       /\ DOMAIN f = FrameFields /\ f.sequence_number = r.seq + Len(g)
       /\ t.seq = r.seq + Len(g) + 1
       /\ f.type \in TerminalTypes /\ (f.type = "failed" <=> t.failed)

---------------------------------------------------------------------------
LEMMA NewResponsesOutType == IsResponsesOut(NewResponsesOut)
BY ShortSequences DEF IsResponsesOut, NewResponsesOut, ResponsesFields

LEMMA FollowsSelf == ASSUME NEW r, IsResponsesOut(r) PROVE Follows(r, r)
<1>1. Regular(<<>>, r.seq)
  BY ShortSequences DEF Regular
<1>2. r.frames = r.frames \o <<>> /\ r.seq = r.seq + Len(<<>>)
  BY EmptyConcatenation, ShortSequences DEF IsResponsesOut
<1> QED
  BY <1>1, <1>2 DEF Follows

LEMMA FollowsFollows ==
  ASSUME NEW r, NEW s, NEW t, IsResponsesOut(r), Follows(r, s), Follows(s, t)
  PROVE  Follows(r, t)
<1>1. PICK g : Regular(g, r.seq) /\ s.frames = r.frames \o g /\ s.seq = r.seq + Len(g)
  BY DEF Follows
<1>2. PICK h : Regular(h, s.seq) /\ t.frames = s.frames \o h /\ t.seq = s.seq + Len(h)
  BY DEF Follows
<1>3. /\ IsSequence(g) /\ IsSequence(h) /\ IsSequence(r.frames)
      /\ Len(g) \in Nat /\ Len(h) \in Nat /\ r.seq \in Nat
  BY <1>1, <1>2, SequenceLen DEF Regular, IsResponsesOut
<1>4. /\ IsSequence(g \o h) /\ Len(g \o h) = Len(g) + Len(h)
      /\ \A i \in 1..Len(g) : (g \o h)[i] = g[i]
      /\ \A i \in 1..Len(h) : (g \o h)[Len(g) + i] = h[i]
  BY <1>3, Concatenation
<1>5. Regular(g \o h, r.seq)
  <2> SUFFICES ASSUME NEW i \in 1..Len(g \o h)
               PROVE  /\ DOMAIN (g \o h)[i] = FrameFields
                      /\ (g \o h)[i].sequence_number = r.seq + i - 1
                      /\ (g \o h)[i].type \notin TerminalTypes
    BY <1>4 DEF Regular
  <2>1. CASE i <= Len(g)
    BY <2>1, <1>1, <1>3, <1>4 DEF Regular
  <2>2. CASE i > Len(g)
    <3> DEFINE j == i - Len(g)
    <3>1. j \in 1..Len(h) /\ i = Len(g) + j
      BY <2>2, <1>3, <1>4
    <3>2. (g \o h)[i] = h[j]
      BY <3>1, <1>4
    <3>3. /\ DOMAIN h[j] = FrameFields /\ h[j].type \notin TerminalTypes
          /\ h[j].sequence_number = s.seq + j - 1
      BY <3>1, <1>2 DEF Regular
    <3> QED
      BY <3>1, <3>2, <3>3, <1>1, <1>3
  <2> QED
    BY <2>1, <2>2, <1>3
<1>6. t.frames = r.frames \o (g \o h)
  <2> DEFINE f == r.frames
  <2>1. IsSequence(f)
    BY <1>3
  <2>2. t.frames = (f \o g) \o h
    BY <1>1, <1>2
  <2> HIDE DEF f
  <2>3. (f \o g) \o h = f \o (g \o h)
    BY <1>3, <2>1, ConcatenationAssociates
  <2> QED
    BY <2>2, <2>3 DEF f
<1>7. t.seq = r.seq + Len(g \o h)
  BY <1>1, <1>2, <1>3, <1>4
<1> QED
  BY <1>5, <1>6, <1>7 DEF Follows

\* A change of other fields sends nothing.
LEMMA FollowsQuietly ==
  ASSUME NEW r, NEW s, IsResponsesOut(r), IsResponsesOut(s),
         s.terminated = r.terminated, s.failed = r.failed, s.frames = r.frames, s.seq = r.seq
  PROVE  Follows(r, s)
BY FollowsSelf DEF Follows

LEMMA EmitFollows ==
  ASSUME NEW r, IsResponsesOut(r), NEW type, type \notin TerminalTypes, NEW part, NEW data
  PROVE  /\ Follows(r, Emit(r, type, part, data)) /\ Emit(r, type, part, data).open = r.open
         /\ IsResponsesOut(Emit(r, type, part, data))
<1> DEFINE s == Emit(r, type, part, data)
           f == [sequence_number |-> r.seq, type |-> type,
                 index |-> r.outputIndex, part |-> part, data |-> data]
<1>1. /\ s = [x \in ResponsesFields |-> s[x]]
      /\ s.seq = r.seq + 1 /\ s.frames = Append(r.frames, f)
      /\ s.open = r.open /\ s.terminated = r.terminated /\ s.failed = r.failed
  BY DEF IsResponsesOut, ResponsesFields, Emit
<1>2. IsSequence(s.frames) /\ s.frames = r.frames \o <<f>>
  <2> HIDE DEF f, s
  <2>1. IsSequence(r.frames)
    BY DEF IsResponsesOut
  <2>2. IsSequence(Append(r.frames, f)) /\ Append(r.frames, f) = r.frames \o <<f>>
    BY <2>1, Appended
  <2> QED
    BY <1>1, <2>2
<1>3. Regular(<<f>>, r.seq)
  BY ShortSequences DEF Regular, FrameFields, IsResponsesOut
<1> HIDE DEF s, f
<1>4. IsResponsesOut(s)
  BY <1>1, <1>2 DEF IsResponsesOut
<1>5. s.seq = r.seq + Len(<<f>>)
  BY <1>1, ShortSequences
<1> QED
  BY <1>1, <1>2, <1>3, <1>4, <1>5 DEF Follows, s

LEMMA RegularTypes ==
  \A type \in {"created", "in_progress", "output_item.added", "output_item.done",
       "content_part.added", "content_part.done", "output_text.delta", "output_text.done",
       "reasoning_summary_part.added", "reasoning_summary_part.done",
       "reasoning_summary_text.delta", "reasoning_summary_text.done",
       "function_call_arguments.delta", "function_call_arguments.done",
       "custom_tool_call_input.delta", "custom_tool_call_input.done"} :
    type \notin TerminalTypes
BY DEF TerminalTypes

---------------------------------------------------------------------------
(* Closing. *)

LEMMA CloseTextPartFollows ==
  ASSUME NEW r, IsResponsesOut(r)
  PROVE  Follows(r, CloseTextPart(r)) /\ CloseTextPart(r).open.kind = r.open.kind
<1>1. CASE r.open.kind # "message" \/ ~r.open.partOpen
  BY <1>1, FollowsSelf DEF CloseTextPart
<1>2. CASE ~(r.open.kind # "message" \/ ~r.open.partOpen)
  <2> DEFINE i == r.open.contentIndex
             t == r.open.partText
             a == Emit(r, "output_text.done", i, t)
             b == Emit(a, "content_part.done", i, t)
             c == CloseTextPart(r)
  <2>1. Follows(r, a) /\ a.open = r.open /\ IsResponsesOut(a)
    BY EmitFollows, RegularTypes, Zenon
  <2> HIDE DEF a
  <2>2. Follows(a, b) /\ b.open = a.open /\ IsResponsesOut(b)
    BY <2>1, EmitFollows, RegularTypes, Zenon
  <2>3. c = [b EXCEPT !.open.parts = Append(@, t), !.open.partText = <<>>,
                      !.open.partOpen = FALSE, !.open.contentIndex = i + 1]
    BY <1>2 DEF CloseTextPart, a
  <2> HIDE DEF b
  <2>4. IsItem(b.open) /\ b.open.kind = r.open.kind
    BY <1>2, <2>1, <2>2 DEF IsResponsesOut, NoItem, None
  <2>5. IsItem(c.open) /\ c.open.kind = r.open.kind
    <3> DEFINE d == b.open
    <3>1. c.open = [d EXCEPT !.parts = Append(@, t), !.partText = <<>>,
                             !.partOpen = FALSE, !.contentIndex = i + 1]
      BY <2>2, <2>3 DEF IsResponsesOut, ResponsesFields
    <3>2. IsItem(d) /\ d.kind = r.open.kind
      BY <2>4
    <3> HIDE DEF c, d, i, t
    <3> QED
      BY <3>1, <3>2 DEF IsItem, ItemFields
  <2>6. /\ c = [f \in ResponsesFields |-> c[f]]
        /\ c.seq = b.seq /\ c.frames = b.frames
        /\ c.terminated = b.terminated /\ c.failed = b.failed
    BY <2>2, <2>3 DEF IsResponsesOut, ResponsesFields
  <2> HIDE DEF c
  <2>7. IsResponsesOut(c)
    BY <2>2, <2>5, <2>6 DEF IsResponsesOut
  <2>8. Follows(b, c)
    BY <2>2, <2>6, <2>7, FollowsQuietly
  <2> QED
    BY <2>1, <2>2, <2>5, <2>8, FollowsFollows DEF c
<1> QED
  BY <1>1, <1>2

LEMMA ClosePartsFollows ==
  ASSUME NEW r, IsResponsesOut(r) PROVE Follows(r, CloseParts(r))
<1> DEFINE a == Emit(r, "reasoning_summary_text.done", 0, r.open.thinking)
<1>1. Follows(r, a) /\ IsResponsesOut(a)
  BY EmitFollows, RegularTypes, Zenon
<1>2. CASE r.open.kind = "reasoning"
  <2> DEFINE b == Emit(a, "reasoning_summary_part.done", 0, r.open.thinking)
  <2>1. CloseParts(r) = b
    BY <1>2 DEF CloseParts, CloseReasoningSummary
  <2>2. Follows(a, b)
    BY <1>1, EmitFollows, RegularTypes, Zenon
  <2> QED
    BY <1>1, <2>1, <2>2, FollowsFollows
<1>3. CASE r.open.kind = "message"
  BY <1>3, CloseTextPartFollows DEF CloseParts
<1>4. CASE r.open.kind \notin {"message", "reasoning"}
  BY <1>4, FollowsSelf DEF CloseParts
<1> QED
  BY <1>2, <1>3, <1>4

LEMMA CloseOpenFollows ==
  ASSUME NEW r, IsResponsesOut(r)
  PROVE  Follows(r, CloseOpen(r)) /\ CloseOpen(r).open = NoItem
<1>1. CASE r.open = NoItem
  BY <1>1, FollowsSelf DEF CloseOpen
<1>2. CASE r.open # NoItem
  <2> DEFINE a == CloseParts(r)
             b == Emit(a, "output_item.done", 0, DoneItem(a.open))
             c == CloseOpen(r)
  <2>1. Follows(r, a) /\ IsResponsesOut(a)
    BY ClosePartsFollows DEF Follows
  <2> HIDE DEF a
  <2>2. Follows(a, b) /\ IsResponsesOut(b)
    BY <2>1, EmitFollows, RegularTypes, Zenon
  <2>3. c = [b EXCEPT !.output = Append(@, DoneItem(a.open)),
                      !.outputIndex = @ + 1, !.open = NoItem]
    BY <1>2 DEF CloseOpen, a
  <2> HIDE DEF b
  <2>4. /\ c = [f \in ResponsesFields |-> c[f]]
        /\ c.seq = b.seq /\ c.frames = b.frames /\ c.open = NoItem
        /\ c.terminated = b.terminated /\ c.failed = b.failed
    BY <2>2, <2>3 DEF IsResponsesOut, ResponsesFields
  <2> HIDE DEF c
  <2>5. IsResponsesOut(c)
    BY <2>2, <2>4 DEF IsResponsesOut
  <2>6. Follows(b, c)
    BY <2>2, <2>4, <2>5, FollowsQuietly
  <2> QED
    BY <2>1, <2>2, <2>4, <2>6, FollowsFollows DEF c
<1> QED
  BY <1>1, <1>2

LEMMA FinishTerminates ==
  ASSUME NEW r, IsResponsesOut(r), ~r.terminated
  PROVE  Terminates(r, FinishResponse(r)) /\ FinishResponse(r).failed = r.failed
<1> DEFINE a == [r EXCEPT !.terminated = TRUE]
           c == CloseOpen(a)
           data == [output |-> c.output, usage |-> ResponsesUsageFromDelta(c.usage)]
           f == [sequence_number |-> c.seq, type |-> TerminalStatus(c),
                 index |-> c.outputIndex, part |-> 0, data |-> data]
           t == FinishResponse(r)
<1>1. /\ IsResponsesOut(a) /\ a.terminated
      /\ a.failed = r.failed /\ a.seq = r.seq /\ a.frames = r.frames
  BY DEF IsResponsesOut, ResponsesFields
<1> HIDE DEF a
<1>2. Follows(a, c)
  BY <1>1, CloseOpenFollows
<1>3. IsResponsesOut(c) /\ c.terminated /\ c.failed = r.failed
  BY <1>1, <1>2 DEF Follows
<1>4. t = [c EXCEPT !.seq = @ + 1, !.frames = Append(@, f)]
  BY DEF FinishResponse, Terminated, Emit, a
<1>5. /\ f.type \in TerminalTypes /\ (f.type = "failed" <=> c.failed)
      /\ DOMAIN f = FrameFields /\ f.sequence_number = c.seq
  <2>1. TerminalStatus(c) \in TerminalTypes /\ (TerminalStatus(c) = "failed" <=> c.failed)
    BY <1>3 DEF TerminalStatus, TerminalTypes
  <2> QED
    BY <2>1 DEF FrameFields
<1> HIDE DEF c, f
<1>6. /\ t = [x \in ResponsesFields |-> t[x]]
      /\ t.seq = c.seq + 1 /\ t.frames = Append(c.frames, f)
      /\ t.open = c.open /\ t.terminated = c.terminated /\ t.failed = c.failed
  BY <1>3, <1>4 DEF IsResponsesOut, ResponsesFields
<1>7. IsSequence(t.frames) /\ t.frames = c.frames \o <<f>>
  <2> DEFINE h == c.frames
  <2>1. IsSequence(h) /\ t.frames = Append(h, f)
    BY <1>3, <1>6 DEF IsResponsesOut
  <2> HIDE DEF h, t
  <2>2. IsSequence(t.frames) /\ t.frames = h \o <<f>>
    BY <2>1, Appended
  <2> QED
    BY <2>2 DEF h
<1> HIDE DEF t
<1>8. IsResponsesOut(t)
  <2>1. t.seq \in Nat /\ (t.open = NoItem \/ IsItem(t.open))
    BY <1>3, <1>6 DEF IsResponsesOut
  <2> QED
    BY <1>3, <1>6, <1>7, <2>1 DEF IsResponsesOut
<1>9. PICK g : Regular(g, r.seq) /\ c.frames = r.frames \o g /\ c.seq = r.seq + Len(g)
  BY <1>1, <1>2 DEF Follows
<1>10. t.frames = (r.frames \o g) \o <<f>>
  BY <1>7, <1>9
<1>11. Terminates(r, t)
  BY <1>3, <1>5, <1>6, <1>8, <1>9, <1>10 DEF Terminates
<1> QED
  BY <1>3, <1>6, <1>11 DEF t

LEMMA FailTerminates ==
  ASSUME NEW r, IsResponsesOut(r), ~r.terminated, NEW m
  PROVE  Terminates(r, Fail(r, m)) /\ Fail(r, m).failed
<1> DEFINE a == [r EXCEPT !.failed = TRUE, !.errMsg = m]
<1>1. /\ IsResponsesOut(a) /\ a.failed /\ ~a.terminated
      /\ a.seq = r.seq /\ a.frames = r.frames
  BY DEF IsResponsesOut, ResponsesFields
<1>2. Fail(r, m) = FinishResponse(a)
  BY DEF Fail, Terminated
<1> HIDE DEF a
<1>3. Terminates(a, FinishResponse(a)) /\ FinishResponse(a).failed
  BY <1>1, FinishTerminates
<1> QED
  BY <1>1, <1>2, <1>3 DEF Terminates

---------------------------------------------------------------------------
(* Opening. *)

\* The item being written may change, its kind and its input excepted.
LEMMA ItemChanges ==
  ASSUME NEW item, IsItem(item),
         NEW f \in ItemFields \ {"kind", "arguments", "unwrapped", "inputEmitted"}, NEW v
  PROVE  IsItem([item EXCEPT ![f] = v]) /\ [item EXCEPT ![f] = v].kind = item.kind
<1> DEFINE c == [item EXCEPT ![f] = v]
<1>1. /\ c.kind = item.kind /\ c.arguments = item.arguments
      /\ c.unwrapped = item.unwrapped /\ c.inputEmitted = item.inputEmitted
      /\ c = [x \in ItemFields |-> c[x]]
  BY DEF IsItem, ItemFields
<1> HIDE DEF c
<1>2. IsItem(c)
  BY <1>1 DEF IsItem
<1> QED
  BY <1>1, <1>2 DEF c

LEMMA NewItemType ==
  ASSUME NEW kind, kind # None, NEW index, NEW id
  PROVE  IsItem(NewItem(kind, index, id)) /\ NewItem(kind, index, id).kind = kind
BY ShortSequences DEF IsItem, NewItem, ItemFields

LEMMA OpenChanges ==
  ASSUME NEW r, IsResponsesOut(r), NEW item, IsItem(item)
  PROVE  /\ IsResponsesOut([r EXCEPT !.open = item])
         /\ Follows(r, [r EXCEPT !.open = item]) /\ [r EXCEPT !.open = item].open = item
<1> DEFINE c == [r EXCEPT !.open = item]
<1>1. /\ c.open = item /\ c.seq = r.seq /\ c.frames = r.frames
      /\ c.terminated = r.terminated /\ c.failed = r.failed
      /\ c = [x \in ResponsesFields |-> c[x]]
  BY DEF IsResponsesOut, ResponsesFields
<1> HIDE DEF c
<1>2. IsResponsesOut(c)
  BY <1>1 DEF IsResponsesOut
<1>3. Follows(r, c)
  BY <1>1, <1>2, FollowsQuietly
<1> QED
  BY <1>1, <1>2, <1>3 DEF c

LEMMA AddedFollows ==
  ASSUME NEW r, IsResponsesOut(r), NEW item, IsItem(item)
  PROVE  Follows(r, Added(r, item)) /\ Added(r, item).open = item /\ IsResponsesOut(Added(r, item))
<1> DEFINE c == [r EXCEPT !.open = item]
           d == Emit(c, "output_item.added", 0, item.id)
<1>1. IsResponsesOut(c) /\ Follows(r, c) /\ c.open = item
  BY OpenChanges
<1>2. d = Added(r, item)
  BY DEF Added
<1> HIDE DEF c
<1>3. Follows(c, d) /\ d.open = c.open /\ IsResponsesOut(d)
  BY <1>1, EmitFollows, RegularTypes, Zenon
<1> HIDE DEF d
<1> QED
  BY <1>1, <1>2, <1>3, FollowsFollows

LEMMA StartResponseFollows ==
  ASSUME NEW r, IsResponsesOut(r) PROVE Follows(r, StartResponse(r))
<1> DEFINE a == [r EXCEPT !.started = TRUE]
           b == Emit(a, "created", 0, None)
           c == Emit(b, "in_progress", 0, None)
<1>1. StartResponse(r) = r \/ StartResponse(r) = c
  BY DEF StartResponse
<1>2. IsResponsesOut(a) /\ Follows(r, a)
  <2>1. /\ a.open = r.open /\ a.seq = r.seq /\ a.frames = r.frames
        /\ a.terminated = r.terminated /\ a.failed = r.failed
        /\ a = [x \in ResponsesFields |-> a[x]]
    BY DEF IsResponsesOut, ResponsesFields
  <2> HIDE DEF a
  <2>2. IsResponsesOut(a)
    BY <2>1 DEF IsResponsesOut
  <2> QED
    BY <2>1, <2>2, FollowsQuietly
<1> HIDE DEF a
<1>3. Follows(a, b) /\ IsResponsesOut(b)
  BY <1>2, EmitFollows, RegularTypes, Zenon
<1> HIDE DEF b
<1>4. Follows(b, c)
  BY <1>3, EmitFollows, RegularTypes, Zenon
<1> HIDE DEF c
<1> QED
  BY <1>1, <1>2, <1>3, <1>4, FollowsSelf, FollowsFollows

LEMMA StartTextPartFollows ==
  ASSUME NEW r, IsResponsesOut(r) PROVE Follows(r, StartTextPart(r))
<1> DEFINE d == CloseOpen(r)
           n == [d EXCEPT !.messageSeq = @ + 1]
           item == NewItem("message", d.outputIndex, <<"msg", d.messageSeq>>)
           c == IF r.open.kind # "message" THEN Added(n, item) ELSE CloseTextPart(r)
           i == [c.open EXCEPT !.partOpen = TRUE]
           o == [c EXCEPT !.open = i]
           p == Emit(o, "content_part.added", c.open.contentIndex, None)
<1>1. p = StartTextPart(r)
  BY DEF StartTextPart, BeforeStart
<1>2. Follows(r, c) /\ IsResponsesOut(c) /\ IsItem(c.open)
  <2>1. CASE r.open.kind # "message"
    <3>1. Follows(r, d) /\ IsResponsesOut(d)
      BY CloseOpenFollows DEF Follows
    <3>2. IsItem(item)
      BY NewItemType DEF None
    <3> HIDE DEF d
    <3>3. /\ n.open = d.open /\ n.seq = d.seq /\ n.frames = d.frames
          /\ n.terminated = d.terminated /\ n.failed = d.failed
          /\ n = [x \in ResponsesFields |-> n[x]]
      BY <3>1 DEF IsResponsesOut, ResponsesFields
    <3>4. c = Added(n, item)
      BY <2>1
    <3> HIDE DEF n, item, c
    <3>5. IsResponsesOut(n)
      BY <3>1, <3>3 DEF IsResponsesOut
    <3>6. Follows(d, n)
      BY <3>1, <3>3, <3>5, FollowsQuietly
    <3>7. Follows(n, c) /\ c.open = item /\ IsResponsesOut(c)
      BY <3>2, <3>4, <3>5, AddedFollows
    <3> QED
      BY <3>1, <3>2, <3>5, <3>6, <3>7, FollowsFollows
  <2>2. CASE r.open.kind = "message"
    <3>1. c = CloseTextPart(r)
      BY <2>2
    <3> HIDE DEF c
    <3>2. Follows(r, c) /\ c.open.kind = "message" /\ IsResponsesOut(c)
      BY <2>2, <3>1, CloseTextPartFollows DEF Follows
    <3> QED
      BY <3>2 DEF IsResponsesOut, NoItem, None
  <2> QED
    BY <2>1, <2>2
<1> HIDE DEF c
<1>3. IsItem(i)
  BY <1>2, ItemChanges DEF ItemFields
<1>4. Follows(c, o) /\ IsResponsesOut(o)
  <2> HIDE DEF i
  <2> QED
    BY <1>2, <1>3, OpenChanges
<1> HIDE DEF o
<1>5. Follows(o, p)
  BY <1>4, EmitFollows, RegularTypes, Zenon
<1> HIDE DEF p
<1> QED
  BY <1>1, <1>2, <1>4, <1>5, FollowsFollows

LEMMA StartReasoningFollows ==
  ASSUME NEW r, IsResponsesOut(r) PROVE Follows(r, StartReasoning(r))
<1> DEFINE c == CloseOpen(r)
           item == NewItem("reasoning", c.outputIndex, <<"reasoning">>)
           d == Added(c, item)
           p == Emit(d, "reasoning_summary_part.added", 0, None)
<1>1. p = StartReasoning(r)
  BY DEF StartReasoning, BeforeStart
<1>2. Follows(r, c) /\ IsResponsesOut(c)
  BY CloseOpenFollows DEF Follows
<1>3. IsItem(item)
  BY NewItemType DEF None
<1> HIDE DEF c, item
<1>4. Follows(c, d) /\ IsResponsesOut(d)
  BY <1>2, <1>3, AddedFollows
<1> HIDE DEF d
<1>5. Follows(d, p)
  BY <1>4, EmitFollows, RegularTypes, Zenon
<1> HIDE DEF p
<1> QED
  BY <1>1, <1>2, <1>4, <1>5, FollowsFollows

LEMMA StartToolCallFollows ==
  ASSUME NEW r, IsResponsesOut(r), NEW kind, kind # None, NEW call
  PROVE  Follows(r, StartToolCall(r, kind, call))
<1> DEFINE c == CloseOpen(r)
           item == NewItem(kind, c.outputIndex, <<kind, call>>)
           d == Added(c, item)
<1>1. d = StartToolCall(r, kind, call)
  BY DEF StartToolCall, BeforeStart
<1>2. Follows(r, c) /\ IsResponsesOut(c)
  BY CloseOpenFollows DEF Follows
<1>3. IsItem(item)
  BY NewItemType
<1> HIDE DEF c, item
<1>4. Follows(c, d) /\ IsResponsesOut(d)
  BY <1>2, <1>3, AddedFollows
<1> HIDE DEF d
<1> QED
  BY <1>1, <1>2, <1>4, FollowsFollows

---------------------------------------------------------------------------
(* Deltas. *)

LEMMA EmitEachFollows ==
  ASSUME NEW r, IsResponsesOut(r), NEW type, type \notin TerminalTypes,
         NEW datas, IsSequence(datas)
  PROVE  /\ Follows(r, EmitEach(r, type, datas)) /\ EmitEach(r, type, datas).open = r.open
         /\ IsResponsesOut(EmitEach(r, type, datas))
<1> DEFINE s == EmitEach(r, type, datas)
           n == Len(datas)
           g == [k \in DOMAIN datas |->
                   [sequence_number |-> r.seq + k - 1, type |-> type,
                    index |-> r.outputIndex, part |-> 0, data |-> datas[k]]]
           h == r.frames
<1>1. n \in Nat /\ DOMAIN datas = 1..n
  BY SequenceLen DEF IsSequence
<1>2. /\ s = [x \in ResponsesFields |-> s[x]]
      /\ s.seq = r.seq + n /\ s.frames = h \o g
      /\ s.open = r.open /\ s.terminated = r.terminated /\ s.failed = r.failed
  BY DEF IsResponsesOut, ResponsesFields, EmitEach
<1>3. /\ DOMAIN g = 1..n /\ g = [i \in DOMAIN g |-> g[i]]
      /\ \A i \in 1..n : /\ DOMAIN g[i] = FrameFields /\ g[i].type = type
                         /\ g[i].sequence_number = r.seq + i - 1
  BY <1>1 DEF FrameFields
<1> HIDE DEF s, n, g
<1>4. IsSequence(g) /\ Len(g) = n
  BY <1>1, <1>3, TableIsSequence
<1>5. Regular(g, r.seq)
  BY <1>3, <1>4 DEF Regular
<1>6. IsSequence(s.frames)
  <2>1. IsSequence(h)
    BY DEF IsResponsesOut
  <2> HIDE DEF h
  <2>2. IsSequence(h \o g)
    BY <1>4, <2>1, Concatenation
  <2> QED
    BY <1>2, <2>2
<1>7. IsResponsesOut(s)
  <2>1. s.seq \in Nat
    BY <1>1, <1>2 DEF IsResponsesOut
  <2> QED
    BY <1>2, <1>6, <2>1 DEF IsResponsesOut
<1>8. Follows(r, s)
  BY <1>2, <1>4, <1>5, <1>7 DEF Follows
<1> QED
  BY <1>2, <1>7, <1>8 DEF s

LEMMA EmitToolDeltasFollows ==
  ASSUME NEW r, IsResponsesOut(r), NEW runes, IsSequence(runes)
  PROVE  /\ Follows(r, EmitToolDeltas(r, runes)) /\ EmitToolDeltas(r, runes).open = r.open
         /\ IsResponsesOut(EmitToolDeltas(r, runes))
<1> DEFINE d == ChatSplitRunes(runes, ArgChunkSize)
<1>1. IsSequence(d)
  BY SplitIsSequence, ChunkAssumption
<1> HIDE DEF d
<1>2. ASSUME NEW type \in {"function_call_arguments.delta", "custom_tool_call_input.delta"}
      PROVE  /\ Follows(r, EmitEach(r, type, d)) /\ EmitEach(r, type, d).open = r.open
             /\ IsResponsesOut(EmitEach(r, type, d))
  <2>1. type \notin TerminalTypes
    BY RegularTypes
  <2> QED
    BY <1>1, <2>1, EmitEachFollows
<1>3. \/ EmitToolDeltas(r, runes) = EmitEach(r, "function_call_arguments.delta", d)
      \/ EmitToolDeltas(r, runes) = EmitEach(r, "custom_tool_call_input.delta", d)
      \/ EmitToolDeltas(r, runes) = r
  BY DEF EmitToolDeltas, d
<1>4. Follows(r, r)
  BY FollowsSelf
<1> QED
  BY <1>2, <1>3, <1>4

\* The texts that tool inputs are made into are sequences.
LEMMA InputTexts ==
  ASSUME NEW item, IsItem(item), NEW text, IsSequence(text)
  PROVE  /\ IsSequence(CustomInput(text)) /\ IsSequence(FinalInput(text))
         /\ IsSequence(Unsent(item, text))
<1>1. Len(text) \in Nat /\ Len(text) - 1 \in Int /\ item.inputEmitted + 1 \in Int
  BY SequenceLen DEF IsItem
<1>2. IsSequence(CustomInput(text))
  BY <1>1, ShortSequences, SubSequence DEF CustomInput
<1>3. IsSequence(SubSeq(text, item.inputEmitted + 1, Len(text)))
  <2> DEFINE m == item.inputEmitted + 1
             n == Len(text)
  <2>1. m \in Int /\ n \in Int
    BY <1>1
  <2> HIDE DEF m, n
  <2>2. IsSequence(SubSeq(text, m, n))
    BY <2>1, SubSequence
  <2> QED
    BY <2>2 DEF m, n
<1> QED
  BY <1>2, <1>3 DEF FinalInput, Unsent

LEMMA InputChanges ==
  ASSUME NEW item, IsItem(item), NEW text, IsSequence(text)
  PROVE  /\ IsItem([item EXCEPT !.arguments = text]) /\ IsItem([item EXCEPT !.unwrapped = text])
         /\ IsItem([item EXCEPT !.unwrapped = text, !.inputEmitted = Len(text)])
         /\ [item EXCEPT !.arguments = text].arguments = text
<1>1. Len(text) \in Nat
  BY SequenceLen
<1> DEFINE a == [item EXCEPT !.arguments = text]
           u == [item EXCEPT !.unwrapped = text]
           w == [item EXCEPT !.unwrapped = text, !.inputEmitted = Len(text)]
<1>2. IsItem(a) /\ a.arguments = text
  BY DEF IsItem, ItemFields
<1>3. IsItem(u)
  BY DEF IsItem, ItemFields
<1>4. IsItem(w)
  BY <1>1 DEF IsItem, ItemFields
<1> QED
  BY <1>2, <1>3, <1>4

LEMMA AppendCustomInputFollows ==
  ASSUME NEW r, IsResponsesOut(r), IsItem(r.open)
  PROVE  Follows(r, AppendCustomInput(r)) /\ IsResponsesOut(AppendCustomInput(r))
<1> DEFINE item == r.open
           text == CustomInput(item.arguments)
           rest == Unsent(item, text)
           new  == [item EXCEPT !.unwrapped = text, !.inputEmitted = Len(text)]
           c    == [r EXCEPT !.open = new]
           d    == EmitToolDeltas(c, rest)
<1>1. AppendCustomInput(r) = r \/ AppendCustomInput(r) = d
  BY DEF AppendCustomInput, IsResponsesOut, ResponsesFields, IsItem, ItemFields
<1>2. IsItem(item) /\ IsSequence(item.arguments)
  BY DEF IsItem
<1> HIDE DEF item
<1>3. IsSequence(text)
  BY <1>2, InputTexts
<1> HIDE DEF text
<1>4. IsSequence(rest) /\ IsItem(new)
  BY <1>2, <1>3, InputTexts, InputChanges
<1> HIDE DEF rest, new
<1>5. Follows(r, c) /\ IsResponsesOut(c)
  BY <1>4, OpenChanges
<1> HIDE DEF c
<1>6. Follows(c, d) /\ IsResponsesOut(d)
  BY <1>4, <1>5, EmitToolDeltasFollows
<1> HIDE DEF d
<1>7. Follows(r, d) /\ Follows(r, r)
  BY <1>5, <1>6, FollowsSelf, FollowsFollows
<1> QED
  BY <1>1, <1>6, <1>7

LEMMA AppendToolArgumentsFollows ==
  ASSUME NEW r, IsResponsesOut(r), IsItem(r.open), NEW runes, IsSequence(runes)
  PROVE  Follows(r, AppendToolArguments(r, runes))
<1> DEFINE item == r.open
           text == item.arguments \o runes
           new  == [item EXCEPT !.arguments = text]
           c    == [r EXCEPT !.open = new]
<1>1. \/ AppendToolArguments(r, runes) \in {r, c}
      \/ AppendToolArguments(r, runes) = EmitToolDeltas(c, runes)
      \/ AppendToolArguments(r, runes) = AppendCustomInput(c)
  BY DEF AppendToolArguments
<1>2. IsItem(item)
  OBVIOUS
<1>3. IsSequence(text)
  <2> DEFINE arguments == item.arguments
  <2>1. IsSequence(arguments)
    BY DEF IsItem
  <2> HIDE DEF arguments
  <2>2. IsSequence(arguments \o runes)
    BY <2>1, Concatenation
  <2> QED
    BY <2>2 DEF arguments
<1> HIDE DEF item, text
<1>4. IsItem(new)
  BY <1>2, <1>3, InputChanges
<1> HIDE DEF new
<1>5. Follows(r, c) /\ IsResponsesOut(c) /\ IsItem(c.open)
  BY <1>4, OpenChanges
<1> HIDE DEF c
<1>6. Follows(c, EmitToolDeltas(c, runes)) /\ Follows(c, AppendCustomInput(c)) /\ Follows(r, r)
  BY <1>5, EmitToolDeltasFollows, AppendCustomInputFollows, FollowsSelf
<1>7. Follows(r, EmitToolDeltas(c, runes)) /\ Follows(r, AppendCustomInput(c))
  BY <1>5, <1>6, FollowsFollows
<1> QED
  BY <1>1, <1>5, <1>6, <1>7

LEMMA TakeDeltaFollows ==
  ASSUME NEW r, IsResponsesOut(r), NEW e, IsSequence(e.payload)
  PROVE  Follows(r, TakeDelta(r, e))
<1> DEFINE item == r.open
           text(f, v) == [r EXCEPT !.open = [item EXCEPT ![f] = v]]
           told(c, type, part) == Emit(c, type, part, e.payload)
<1>1. \/ TakeDelta(r, e) = r
      \/ item # NoItem /\ TakeDelta(r, e) = AppendToolArguments(r, e.payload)
      \/ /\ item.kind = "message"
         /\ TakeDelta(r, e) = told(text("partText", item.partText \o e.payload),
                                  "output_text.delta", item.contentIndex)
      \/ /\ item.kind = "reasoning"
         /\ TakeDelta(r, e) = told(text("thinking", item.thinking \o e.payload),
                                  "reasoning_summary_text.delta", 0)
      \/ item.kind = "reasoning" /\ TakeDelta(r, e) = text("signature", e.payload)
  BY DEF TakeDelta
<1>2. ASSUME item.kind \in {"message", "reasoning"},
             NEW f \in {"partText", "thinking", "signature"}, NEW v
      PROVE  Follows(r, text(f, v)) /\ IsResponsesOut(text(f, v))
  <2>1. IsItem(item)
    BY <1>2 DEF IsResponsesOut, NoItem, None
  <2>2. IsItem([item EXCEPT ![f] = v])
    BY <2>1, ItemChanges DEF ItemFields
  <2> QED
    BY <2>2, OpenChanges
<1>3. ASSUME NEW c, IsResponsesOut(c), Follows(r, c), NEW part,
             NEW type \in {"output_text.delta", "reasoning_summary_text.delta"}
      PROVE  Follows(r, told(c, type, part))
  <2>1. Follows(c, told(c, type, part))
    BY <1>3, EmitFollows, RegularTypes, Zenon
  <2> QED
    BY <1>3, <2>1, FollowsFollows
<1>4. CASE item # NoItem /\ TakeDelta(r, e) = AppendToolArguments(r, e.payload)
  <2>1. IsItem(r.open)
    BY <1>4 DEF IsResponsesOut
  <2> QED
    BY <1>4, <2>1, AppendToolArgumentsFollows
<1>5. Follows(r, r)
  BY FollowsSelf
<1> HIDE DEF item, text, told
<1> QED
  BY <1>1, <1>2, <1>3, <1>4, <1>5

---------------------------------------------------------------------------
(* The end of a block, and feed. *)

LEMMA CloseCustomFollows ==
  ASSUME NEW r, IsResponsesOut(r), IsItem(r.open) PROVE Follows(r, CloseCustom(r))
<1> DEFINE text == FinalInput(r.open.arguments)
           rest == Unsent(r.open, text)
           a    == EmitToolDeltas(r, rest)
           new  == [a.open EXCEPT !.unwrapped = text]
           b    == [a EXCEPT !.open = new]
           c    == Emit(b, "custom_tool_call_input.done", 0, text)
           d    == CloseOpen(c)
<1>1. CloseCustom(r) = d
  BY DEF CloseCustom
<1>2. IsSequence(text) /\ IsSequence(rest)
  <2> DEFINE arguments == r.open.arguments
             item == r.open
  <2>1. IsSequence(arguments) /\ IsItem(item)
    BY DEF IsItem
  <2> HIDE DEF arguments, item
  <2>2. IsSequence(FinalInput(arguments))
    BY <2>1, InputTexts
  <2>3. \A t : IsSequence(t) => IsSequence(Unsent(item, t))
    BY <2>1, InputTexts
  <2> QED
    BY <2>2, <2>3 DEF arguments, item
<1> HIDE DEF text, rest
<1>3. Follows(r, a) /\ IsResponsesOut(a) /\ IsItem(a.open)
  BY <1>2, EmitToolDeltasFollows
<1> HIDE DEF a
<1>4. IsItem(new)
  BY <1>2, <1>3, InputChanges
<1> HIDE DEF new
<1>5. Follows(a, b) /\ IsResponsesOut(b)
  BY <1>3, <1>4, OpenChanges
<1> HIDE DEF b
<1>6. Follows(b, c) /\ IsResponsesOut(c)
  BY <1>5, EmitFollows, RegularTypes, Zenon
<1> HIDE DEF c
<1>7. Follows(c, d)
  BY <1>6, CloseOpenFollows
<1> HIDE DEF d
<1>8. Follows(r, b)
  BY <1>3, <1>5, FollowsFollows
<1>9. Follows(r, c)
  BY <1>5, <1>6, <1>8, FollowsFollows
<1> QED
  BY <1>1, <1>6, <1>7, <1>9, FollowsFollows

LEMMA CloseResponsesBlockFollows ==
  ASSUME NEW r, IsResponsesOut(r) PROVE Follows(r, CloseResponsesBlock(r))
<1> DEFINE a == Emit(r, "function_call_arguments.done", 0, r.open.arguments)
<1>1. Follows(r, a) /\ IsResponsesOut(a)
  BY EmitFollows, RegularTypes, Zenon
<1>2. \/ CloseResponsesBlock(r) \in {CloseTextPart(r), CloseOpen(a), CloseOpen(r)}
      \/ r.open.kind = "custom_tool_call" /\ CloseResponsesBlock(r) = CloseCustom(r)
  BY DEF CloseResponsesBlock
<1>3. r.open.kind = "custom_tool_call" => IsItem(r.open)
  BY DEF IsResponsesOut, NoItem, None
<1> HIDE DEF a
<1>4. Follows(r, CloseOpen(a))
  BY <1>1, CloseOpenFollows, FollowsFollows
<1>5. Follows(r, CloseTextPart(r)) /\ Follows(r, CloseOpen(r))
  BY CloseTextPartFollows, CloseOpenFollows
<1> QED
  BY <1>2, <1>3, <1>4, <1>5, CloseCustomFollows

LEMMA CaptureMetaFollows ==
  ASSUME NEW r, IsResponsesOut(r), NEW e PROVE Follows(r, CaptureMeta(r, e))
<1> DEFINE c == CaptureMeta(r, e)
<1>1. /\ c.open = r.open /\ c.seq = r.seq /\ c.frames = r.frames
      /\ c.terminated = r.terminated /\ c.failed = r.failed
      /\ c = [x \in ResponsesFields |-> c[x]]
  BY DEF IsResponsesOut, ResponsesFields, CaptureMeta
<1> HIDE DEF c
<1>2. IsResponsesOut(c)
  BY <1>1 DEF IsResponsesOut
<1> QED
  BY <1>1, <1>2, FollowsQuietly DEF c

\* The events feed is given.
Feedable(e) ==
  /\ e.name \in {"message_start", "content_block_start", "content_block_delta",
                 "content_block_stop", "message_delta", "message_stop", "error"}
  /\ IsStart(e) => e.kind \in {"text", "thinking", "tool_use"} /\ ToolKind(e) # None
  /\ IsDelta(e) => IsSequence(e.payload)

\* After the terminal event feed gives nothing.
LEMMA FeedTerminated ==
  ASSUME NEW r, r.terminated, NEW e
  PROVE  /\ ResponsesFeed(r, e) = r /\ FinishResponse(r) = r
BY DEF ResponsesFeed, FinishResponse, Terminated

\* Until then, an event that neither ends the message nor reports an error
\* adds events that are not terminal.
LEMMA FeedFollows ==
  ASSUME NEW r, IsResponsesOut(r), ~r.terminated,
         NEW e, Feedable(e), e.name \notin {"message_stop", "error"}
  PROVE  Follows(r, ResponsesFeed(r, e))
<1>1. CASE IsStart(e)
  <2>1. ResponsesFeed(r, e) = StartBlock(r, e)
    BY <1>1 DEF ResponsesFeed, Terminated, IsStart, IsDelta, IsStop
  <2>2. StartBlock(r, e) \in {StartTextPart(r), StartReasoning(r), StartToolCall(r, ToolKind(e), e.index)}
    BY <1>1 DEF StartBlock, Feedable
  <2>3. ToolKind(e) # None
    BY <1>1 DEF Feedable
  <2> QED
    BY <2>1, <2>2, <2>3, StartTextPartFollows, StartReasoningFollows, StartToolCallFollows
<1>2. CASE IsDelta(e)
  <2>1. ResponsesFeed(r, e) = TakeDelta(r, e) /\ IsSequence(e.payload)
    BY <1>2 DEF ResponsesFeed, Terminated, IsStart, IsDelta, IsStop, Feedable
  <2> QED
    BY <2>1, TakeDeltaFollows
<1>3. CASE e.name \in {"message_start", "content_block_stop", "message_delta"}
  <2>1. ResponsesFeed(r, e) \in {StartResponse(r), CloseResponsesBlock(r), CaptureMeta(r, e)}
    BY <1>3 DEF ResponsesFeed, Terminated, IsStart, IsDelta, IsStop
  <2> QED
    BY <2>1, StartResponseFollows, CloseResponsesBlockFollows, CaptureMetaFollows
<1> QED
  BY <1>1, <1>2, <1>3 DEF Feedable, IsStart, IsDelta

\* The end of the message and an error are followed by the terminal event, at
\* once: a stream that failed says so, one that did not does not.
LEMMA FeedTerminates ==
  ASSUME NEW r, IsResponsesOut(r), ~r.terminated, NEW e
  PROVE  /\ e.name = "message_stop" => /\ Terminates(r, ResponsesFeed(r, e))
                                      /\ ResponsesFeed(r, e).failed = r.failed
         /\ e.name = "error" => /\ Terminates(r, ResponsesFeed(r, e))
                               /\ ResponsesFeed(r, e).failed
<1>1. e.name = "message_stop" => ResponsesFeed(r, e) = FinishResponse(r)
  BY DEF ResponsesFeed, Terminated, IsStart, IsDelta, IsStop
<1>2. e.name = "error" => ResponsesFeed(r, e) = Fail(r, e.message)
  BY DEF ResponsesFeed, Terminated, IsStart, IsDelta, IsStop
<1> QED
  BY <1>1, <1>2, FinishTerminates, FailTerminates
===========================================================================
