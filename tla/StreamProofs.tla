---------------------------- MODULE StreamProofs ----------------------------
(***************************************************************************)
(* What StreamTranslator.cfg checks on short streams, proved for streams   *)
(* of every length over every set of texts, reasons and usage objects:     *)
(* type correctness, the discipline of the content blocks and their        *)
(* numbering, the delivery of the content, the signatures of thinking      *)
(* blocks, and the end of the message.                                     *)
(*                                                                         *)
(* And what the ChatEncoder makes of an event, in whatever state it is:    *)
(* only the end of the message is followed by [DONE], only an error by an  *)
(* error frame, and after either it is silent.                             *)
(***************************************************************************)
EXTENDS StreamTranslator, ChatCodec, SequenceLemmas

---------------------------------------------------------------------------
(* Type correctness. *)

\* Appending an element keeps the sequence and puts it at the end.
LEMMA AppendSeq ==
  ASSUME NEW S, NEW s \in Seq(S), NEW e \in S
  PROVE  /\ Append(s, e) \in Seq(S)
         /\ Len(Append(s, e)) = Len(s) + 1
         /\ \A i \in 1..Len(s) : Append(s, e)[i] = s[i]
         /\ Append(s, e)[Len(s) + 1] = e
OBVIOUS

LEMMA NothingIsSeq == \A S : <<>> \in Seq(S) /\ Len(<<>>) = 0
OBVIOUS

LEMMA SingletonSeq == ASSUME NEW S, NEW e \in S PROVE <<e>> \in Seq(S)
OBVIOUS

LEMMA SeqOfSubset ==
  ASSUME NEW S, NEW T, S \subseteq T, NEW s \in Seq(S) PROVE s \in Seq(T)
OBVIOUS

\* Each constructor builds an event, given fields of the right types.
LEMMA EventTypes ==
  /\ MessageStart \in Event /\ MessageStop \in Event
  /\ \A i \in Nat, k \in Kinds : BlockStart(i, k) \in Event
  /\ \A i \in Nat : BlockStop(i) \in Event
  /\ \A i \in Nat, p \in Seq(Texts \cup JSONTexts) :
       /\ BlockDelta(i, "text_delta", p) \in Event
       /\ BlockDelta(i, "thinking_delta", p) \in Event
       /\ BlockDelta(i, "signature_delta", p) \in Event
       /\ BlockDelta(i, "input_json_delta", p) \in Event
  /\ \A r \in StopReasons, d \in TokenCounts : MessageDelta(r, d) \in Event
  /\ \A m \in Messages \cup {ZeroOutput} : ErrorEvent(m) \in Event
BY DEF Event, MessageStart, MessageStop, BlockStart, BlockStop, BlockDelta,
       MessageDelta, ErrorEvent

\* The token counts of the closing message_delta are never negative.
LEMMA DeltaUsageType ==
  ASSUME NEW u \in UsageObject, NEW n \in Nat
  PROVE  DeltaUsage(u, n) \in TokenCounts
<1> DEFINE v == Normalize(u)
<1>1. v \in UsageObject
  BY DEF Normalize, NoUsage, NoDetails, UsageObject, Details
<1>2. /\ v.inputTokens \in Nat /\ v.cachedInputTokens \in Nat
      /\ v.details.noCache \in Nat \cup {-1}
      /\ v.details.cacheRead \in Nat /\ v.details.cacheWrite \in Nat
  BY <1>1 DEF UsageObject, Details
<1> HIDE DEF v
<1>3. CacheRead(v) \in Nat
  BY <1>2 DEF CacheRead
<1>4. Uncached(v) \in Nat
  BY <1>2, <1>3 DEF Uncached
<1>5. DeltaUsage(u, n) = [input |-> Uncached(v), output |-> n,
                          cacheRead |-> CacheRead(v), cacheCreation |-> v.details.cacheWrite]
  BY DEF DeltaUsage, v
<1>6. QED
  BY <1>2, <1>3, <1>4, <1>5 DEF TokenCounts

\* Every reason the upstream gives maps to one of Anthropic's.
LEMMA StopReasonType == \A r : MapStopReason(r) \in StopReasons
BY DEF MapStopReason, StopReasons

LEMMA PartialJSONType == \A i \in ToolInputs : PartialJSON(i) \in JSONTexts
BY InputsAssumption DEF PartialJSON, JSONTexts, AllToolInputs

\* closeBlock appends events.
LEMMA CloseBlockType ==
  ASSUME TypeOK PROVE CloseBlock(out) \in Seq(Event)
<1>1. BlockStop(openIndex) \in Event
  BY EventTypes DEF TypeOK
<1>2. BlockDelta(openIndex, "signature_delta", thinkingText) \in Event
  <2>1. thinkingText \in Seq(Texts \cup JSONTexts)
    BY SeqOfSubset DEF TypeOK
  <2>2. openIndex \in Nat
    BY DEF TypeOK
  <2>3. QED
    BY <2>1, <2>2, EventTypes
<1>3. out \in Seq(Event) /\ openType \in {None, "text", "thinking"}
  BY DEF TypeOK
<1>4. QED
  BY <1>1, <1>2, <1>3, AppendSeq DEF CloseBlock

\* Taking a line keeps the history of the lines well typed and bounded.
LEMMA TakeType ==
  ASSUME TypeOK, NEW l \in Line, Take(l)
  PROVE  fed' \in Seq(Line) /\ Len(fed') <= MaxLines
<1>1. fed \in Seq(Line)
  BY DEF TypeOK
<1>2. fed' \in Seq(Line) /\ Len(fed') = Len(fed) + 1
  BY <1>1, AppendSeq DEF Take
<1>3. QED
  BY <1>1, <1>2, MaxLinesAssumption DEF Take

LEMMA InitType == Init => TypeOK
<1> SUFFICES ASSUME Init PROVE TypeOK
  OBVIOUS
<1>1. out \in Seq(Event)
  BY EventTypes, SingletonSeq DEF Init
<1>2. fed \in Seq(Line) /\ Len(fed) <= MaxLines /\ thinkingText \in Seq(Texts)
  <2>1. fed = <<>> /\ thinkingText = <<>>
    BY DEF Init
  <2>2. <<>> \in Seq(Line) /\ Len(<<>>) = 0 /\ <<>> \in Seq(Texts)
    BY NothingIsSeq
  <2>3. QED
    BY <2>1, <2>2, MaxLinesAssumption
<1>3. usage \in UsageObject
  BY DEF Init, NoUsage, NoDetails, UsageObject, Details
<1>4. QED
  BY <1>1, <1>2, <1>3 DEF Init, TypeOK, StopReasons

\* Every step keeps the fields and the histories well typed.
LEMMA NextType == TypeOK /\ [Next]_vars => TypeOK'
<1> SUFFICES ASSUME TypeOK, [Next]_vars PROVE TypeOK'
  OBVIOUS
<1>0. /\ nextIndex \in Nat /\ openIndex \in Nat /\ outEstimate \in Nat
      /\ openType \in {None, "text", "thinking"}
  BY DEF TypeOK
<1>1. CASE FeedIgnored
  <2>1. [type |-> "ignored"] \in Line
    BY DEF Line
  <2>2. fed' \in Seq(Line) /\ Len(fed') <= MaxLines
    BY <1>1, <2>1, TakeType DEF FeedIgnored
  <2>3. QED
    BY <1>1, <2>2 DEF FeedIgnored, TypeOK, blockVars, finishVars, errorVars
<1>2. ASSUME NEW kind \in {"text", "thinking"}, NEW text \in Texts, FeedDelta(kind, text)
      PROVE  TypeOK'
  <2>1. [type |-> kind, text |-> text] \in Line
    BY DEF Line
  <2>2. fed' \in Seq(Line) /\ Len(fed') <= MaxLines
    BY <1>2, <2>1, TakeType DEF FeedDelta
  <2>3. thinkingText' \in Seq(Texts)
    BY <1>2, AppendSeq DEF FeedDelta, TypeOK
  <2>4. out' \in Seq(Event)
    <3>1. <<text>> \in Seq(Texts \cup JSONTexts)
      BY SingletonSeq
    <3>2. /\ BlockDelta(openIndex, DeltaOf(kind), <<text>>) \in Event
          /\ BlockDelta(nextIndex, DeltaOf(kind), <<text>>) \in Event
      BY <3>1, EventTypes DEF DeltaOf, TypeOK
    <3>3. BlockStart(nextIndex, kind) \in Event
      BY EventTypes DEF Kinds, TypeOK
    <3>4. out \in Seq(Event) /\ CloseBlock(out) \in Seq(Event)
      BY CloseBlockType DEF TypeOK
    <3>5. CASE Continues(kind)
      <4>1. out' = Append(out, BlockDelta(openIndex, DeltaOf(kind), <<text>>))
        BY <1>2, <3>5, Zenon DEF FeedDelta
      <4>2. QED
        BY <3>2, <3>4, <4>1, AppendSeq
    <3>6. CASE ~Continues(kind)
      <4>1. out' = Append(Append(CloseBlock(out), BlockStart(nextIndex, kind)),
                          BlockDelta(nextIndex, DeltaOf(kind), <<text>>))
        BY <1>2, <3>6, Zenon DEF FeedDelta
      <4>2. Append(CloseBlock(out), BlockStart(nextIndex, kind)) \in Seq(Event)
        BY <3>3, <3>4, AppendSeq
      <4>3. QED
        BY <3>2, <4>1, <4>2, AppendSeq
    <3>7. QED
      BY <3>5, <3>6
  <2>5. nextIndex' \in Nat /\ openIndex' \in Nat /\ openType' \in {None, "text", "thinking"}
    <3>1. CASE Continues(kind)
      <4>1. nextIndex' = nextIndex /\ openIndex' = openIndex /\ openType' = openType
        BY <1>2, <3>1, Zenon DEF FeedDelta
      <4>2. QED
        BY <1>0, <4>1
    <3>2. CASE ~Continues(kind)
      <4>1. nextIndex' = nextIndex + 1 /\ openIndex' = nextIndex /\ openType' = kind
        BY <1>2, <3>2, Zenon DEF FeedDelta
      <4>2. QED
        BY <1>0, <1>2, <4>1
    <3>3. QED
      BY <3>1, <3>2
  <2>6. /\ outEstimate' \in Nat /\ contentStarted' = TRUE
        /\ UNCHANGED <<finishVars, errorVars, finished>>
    BY <1>0, <1>2 DEF FeedDelta
  <2>7. QED
    BY <2>2, <2>3, <2>4, <2>5, <2>6 DEF TypeOK, finishVars, errorVars
<1>3. ASSUME NEW input \in ToolInputs, FeedToolCall(input) PROVE TypeOK'
  <2>1. [type |-> "tool-call", input |-> input] \in Line
    BY DEF Line
  <2>2. fed' \in Seq(Line) /\ Len(fed') <= MaxLines
    BY <1>3, <2>1, TakeType DEF FeedToolCall
  <2>3. out' \in Seq(Event)
    <3>1. <<PartialJSON(input)>> \in Seq(Texts \cup JSONTexts)
      BY PartialJSONType, SingletonSeq
    <3>2. BlockDelta(nextIndex, "input_json_delta", <<PartialJSON(input)>>) \in Event
      BY <3>1, EventTypes DEF TypeOK
    <3>3. BlockStart(nextIndex, "tool_use") \in Event /\ BlockStop(nextIndex) \in Event
      BY EventTypes DEF Kinds, TypeOK
    <3>4. QED
      BY <1>3, <3>2, <3>3, CloseBlockType, AppendSeq DEF FeedToolCall
  <2>4. /\ openType' = None /\ nextIndex' \in Nat
        /\ outEstimate' \in Nat /\ contentStarted' = TRUE
        /\ UNCHANGED <<openIndex, thinkingText, finishVars, errorVars, finished>>
    BY <1>0, <1>3 DEF FeedToolCall
  <2>5. QED
    BY <2>2, <2>3, <2>4 DEF TypeOK, finishVars, errorVars
<1>4. ASSUME NEW reason \in Reasons \cup {None}, NEW u \in OptionalUsage,
             FeedFinishStep(reason, u)
      PROVE  TypeOK'
  <2>1. [type |-> "finish-step", reason |-> reason, usage |-> u] \in Line
    BY DEF Line
  <2>2. fed' \in Seq(Line) /\ Len(fed') <= MaxLines
    BY <1>4, <2>1, TakeType DEF FeedFinishStep
  <2>3. usage' \in UsageObject /\ hasUsage' \in BOOLEAN
    <3>1. CASE u = <<>>
      BY <1>4, <3>1 DEF FeedFinishStep, TypeOK
    <3>2. CASE u # <<>>
      <4>1. PICK n \in Usages : u = <<n>>
        BY <3>2 DEF OptionalUsage
      <4>2. u[1] \in UsageObject
        BY <4>1, UsagesAssumption
      <4>3. QED
        BY <1>4, <3>2, <4>2 DEF FeedFinishStep
    <3>3. QED
      BY <3>1, <3>2
  <2>4. stopReason' \in StopReasons \cup {None} /\ stepReasonSet' \in BOOLEAN
    BY <1>4, StopReasonType DEF FeedFinishStep, TypeOK
  <2>5. QED
    BY <1>4, <2>2, <2>3, <2>4 DEF FeedFinishStep, TypeOK, blockVars, errorVars
<1>5. ASSUME NEW reason \in Reasons \cup {None}, NEW u \in OptionalUsage,
             FeedFinish(reason, u)
      PROVE  TypeOK'
  <2>1. [type |-> "finish", reason |-> reason, usage |-> u] \in Line
    BY DEF Line
  <2>2. fed' \in Seq(Line) /\ Len(fed') <= MaxLines
    BY <1>5, <2>1, TakeType DEF FeedFinish
  <2>3. usage' \in UsageObject /\ hasUsage' \in BOOLEAN
    <3>1. CASE u = <<>>
      BY <1>5, <3>1 DEF FeedFinish, TypeOK
    <3>2. CASE u # <<>>
      <4>1. PICK n \in Usages : u = <<n>>
        BY <3>2 DEF OptionalUsage
      <4>2. u[1] \in UsageObject
        BY <4>1, UsagesAssumption
      <4>3. QED
        BY <1>5, <3>2, <4>2 DEF FeedFinish
    <3>3. QED
      BY <3>1, <3>2
  <2>4. stopReason' \in StopReasons \cup {None}
    BY <1>5, StopReasonType DEF FeedFinish, TypeOK, StopReasons
  <2>5. QED
    BY <1>5, <2>2, <2>3, <2>4 DEF FeedFinish, TypeOK, blockVars, errorVars
<1>6. ASSUME NEW m \in Messages, FeedError(m) PROVE TypeOK'
  <2>1. [type |-> "error", message |-> m] \in Line
    BY DEF Line
  <2>2. fed' \in Seq(Line) /\ Len(fed') <= MaxLines
    BY <1>6, <2>1, TakeType DEF FeedError
  <2>3. out' \in Seq(Event)
    BY <1>6, EventTypes, AppendSeq DEF FeedError, TypeOK
  <2>4. QED
    BY <1>6, <2>2, <2>3 DEF FeedError, TypeOK, blockVars, finishVars
<1>7. CASE FeedErrorWithoutDetail
  <2>1. [type |-> "error", message |-> None] \in Line
    BY DEF Line
  <2>2. fed' \in Seq(Line) /\ Len(fed') <= MaxLines
    BY <1>7, <2>1, TakeType DEF FeedErrorWithoutDetail
  <2>3. QED
    BY <1>7, <2>2 DEF FeedErrorWithoutDetail, TypeOK, blockVars, finishVars
<1>8. CASE Finish
  <2>1. OutputTokens \in Nat
    BY DEF OutputTokens, TypeOK, UsageObject
  <2>2. CASE hasError
    BY <1>8, <2>2 DEF Finish, TypeOK, errorVars
  <2>3. CASE ~hasError
    <3>1. openType' \in {None, "text", "thinking"} /\ stopReason' \in StopReasons
      BY <1>8, <2>3 DEF Finish, TypeOK, StopReasons
    <3>2. out' \in Seq(Event)
      <4>1. MessageDelta(stopReason', DeltaUsage(usage, OutputTokens)) \in Event
        <5>1. usage \in UsageObject
          BY DEF TypeOK
        <5>2. QED
          BY <2>1, <3>1, <5>1, DeltaUsageType, EventTypes
      <4>2. QED
        BY <1>8, <2>3, <4>1, EventTypes, CloseBlockType, AppendSeq DEF Finish
    <3>3. QED
      BY <1>8, <2>3, <3>1, <3>2 DEF Finish, TypeOK, errorVars
  <2>4. QED
    BY <2>2, <2>3
<1>9. CASE UNCHANGED vars
  BY <1>9 DEF vars, blockVars, finishVars, errorVars, TypeOK
<1>10. QED
  BY <1>1, <1>2, <1>3, <1>4, <1>5, <1>6, <1>7, <1>8, <1>9 DEF Next, Feed

\* The translator's fields and histories keep their types whatever the
\* upstream sends, panics and errors included.
THEOREM TypeCorrect == Spec => []TypeOK
BY InitType, NextType, PTL DEF Spec

---------------------------------------------------------------------------
(* The discipline of the blocks.                                           *)
(*                                                                         *)
(* BlockDiscipline and BlockSequence are not inductive: whether the next   *)
(* event fits depends on which block is open.  WellFormed relates a stream *)
(* to the open block (None if none), its index, the next index and the     *)
(* kind of the block opened last; each kind of event preserves it, and     *)
(* every step of the translator appends a few events.                      *)

WellFormed(s, kind, index, next, last) ==
  /\ Disciplined(s)
  /\ Numbered(s)
  /\ \A i \in 1..Len(s) : IsStart(s[i]) => s[i].index < next
  /\ next > 0 => \E j \in 1..Len(s) :
       IsStart(s[j]) /\ s[j].index = next - 1 /\ s[j].kind = last
  /\ kind = None => NothingOpenBefore(s, Len(s) + 1)
  /\ kind # None => \E j \in 1..Len(s) :
       OpenUntil(s, j, Len(s) + 1) /\ s[j].index = index /\ s[j].kind = kind

LEMMA StartType ==
  \A e \in Event : IsStart(e) => e.index \in Nat /\ e.kind \in Kinds
BY DEF Event, IsStart

\* What comes before an appended event is as it was.
LEMMA PrefixKept ==
  ASSUME NEW s \in Seq(Event), NEW e \in Event, NEW t, t = Append(s, e)
  PROVE  /\ t \in Seq(Event) /\ Len(t) = Len(s) + 1 /\ t[Len(s) + 1] = e
         /\ \A i \in 1..Len(s) : t[i] = s[i]
         /\ \A i \in 1..(Len(s) + 1) : \A j \in 1..(i - 1) :
              OpenUntil(t, j, i) <=> OpenUntil(s, j, i)
<1>1. /\ t \in Seq(Event) /\ Len(t) = Len(s) + 1 /\ t[Len(s) + 1] = e
      /\ \A i \in 1..Len(s) : t[i] = s[i]
  BY AppendSeq
<1>2. ASSUME NEW i \in 1..(Len(s) + 1), NEW j \in 1..(i - 1)
      PROVE  OpenUntil(t, j, i) <=> OpenUntil(s, j, i)
  <2>1. j \in 1..Len(s) /\ \A k \in (j + 1)..(i - 1) : k \in 1..Len(s)
    BY <1>2
  <2>2. QED
    BY <1>1, <2>1 DEF OpenUntil
<1>3. QED
  BY <1>1, <1>2

\* The discipline of a longer stream is that of the shorter one plus what
\* the new event must respect.
LEMMA DisciplineExtends ==
  ASSUME NEW s \in Seq(Event), NEW e \in Event, NEW t, t = Append(s, e),
         Disciplined(s), Numbered(s),
         IsDelta(e) => DeltaIsOfOpenBlock(t, Len(s) + 1),
         IsStop(e)  => StopIsOfOpenBlock(t, Len(s) + 1),
         IsStart(e) => NothingOpenBefore(t, Len(s) + 1) /\ FollowsPrevious(t, Len(s) + 1)
  PROVE  Disciplined(t) /\ Numbered(t)
<1>1. /\ Len(s) \in Nat /\ Len(t) = Len(s) + 1 /\ t[Len(s) + 1] = e
      /\ \A i \in 1..Len(s) : t[i] = s[i]
  BY AppendSeq
<1>2. ASSUME NEW i \in 1..Len(s), NEW j \in 1..(i - 1)
      PROVE  OpenUntil(t, j, i) <=> OpenUntil(s, j, i)
  <2>1. i \in 1..(Len(s) + 1)
    BY <1>1
  <2>2. QED
    BY <2>1, PrefixKept
<1>3. \A i \in 1..Len(s) : \A j \in 1..(i - 1) : j \in 1..Len(s)
  BY <1>1
<1>4. Disciplined(t)
  <2> SUFFICES ASSUME NEW i \in 1..Len(t)
               PROVE  /\ IsDelta(t[i]) => DeltaIsOfOpenBlock(t, i)
                      /\ IsStop(t[i])  => StopIsOfOpenBlock(t, i)
                      /\ IsStart(t[i]) => NothingOpenBefore(t, i)
    BY DEF Disciplined
  <2>1. CASE i = Len(s) + 1
    BY <1>1, <2>1
  <2>2. CASE i \in 1..Len(s)
    <3>1. t[i] = s[i] /\ \A j \in 1..(i - 1) : t[j] = s[j]
      BY <1>1, <1>3, <2>2
    <3>2. \A j \in 1..(i - 1) : OpenUntil(t, j, i) <=> OpenUntil(s, j, i)
      BY <1>2, <2>2
    <3>3. /\ IsDelta(s[i]) => DeltaIsOfOpenBlock(s, i)
          /\ IsStop(s[i])  => StopIsOfOpenBlock(s, i)
          /\ IsStart(s[i]) => NothingOpenBefore(s, i)
      BY <2>2 DEF Disciplined
    <3>4. QED
      BY <3>1, <3>2, <3>3 DEF DeltaIsOfOpenBlock, StopIsOfOpenBlock, NothingOpenBefore
  <2>3. QED
    BY <1>1, <2>1, <2>2
<1>5. Numbered(t)
  <2> SUFFICES ASSUME NEW i \in 1..Len(t), IsStart(t[i]) PROVE FollowsPrevious(t, i)
    BY DEF Numbered
  <2>1. CASE i = Len(s) + 1
    BY <1>1, <2>1
  <2>2. CASE i \in 1..Len(s)
    <3>1. t[i] = s[i] /\ \A j \in 1..(i - 1) : t[j] = s[j]
      BY <1>1, <1>3, <2>2
    <3>2. FollowsPrevious(s, i)
      BY <2>2, <3>1 DEF Numbered
    <3>3. QED
      BY <3>1, <3>2 DEF FollowsPrevious
  <2>3. QED
    BY <1>1, <2>1, <2>2
<1>6. QED
  BY <1>4, <1>5

\* A delta to the open block.
LEMMA DeltaFits ==
  ASSUME NEW s \in Seq(Event), NEW kind \in Kinds, NEW index, NEW next, NEW last,
         NEW e \in Event, WellFormed(s, kind, index, next, last),
         IsDelta(e), e.index = index, e.delta \in DeltasOf(kind)
  PROVE  WellFormed(Append(s, e), kind, index, next, last)
<1> DEFINE t == Append(s, e)
           n == Len(s) + 1
<1>1. /\ t \in Seq(Event) /\ Len(t) = n /\ t[n] = e /\ n \in Nat \ {0}
      /\ \A i \in 1..Len(s) : t[i] = s[i]
  BY AppendSeq
<1>2. \A j \in 1..Len(s) : OpenUntil(t, j, n) <=> OpenUntil(s, j, n)
  <2>1. n \in 1..(Len(s) + 1) /\ 1..(n - 1) = 1..Len(s)
    BY <1>1
  <2>2. QED
    BY <2>1, PrefixKept
<1>3. e.name = "content_block_delta" /\ ~IsStart(e) /\ ~IsStop(e)
  BY DEF IsDelta, IsStart, IsStop
<1>4. kind # None
  BY DEF Kinds, None
<1>5. PICK j \in 1..Len(s) : OpenUntil(s, j, n) /\ s[j].index = index /\ s[j].kind = kind
  BY <1>4 DEF WellFormed
<1>6. OpenUntil(t, j, n) /\ t[j].index = index /\ t[j].kind = kind
  BY <1>1, <1>2, <1>5
<1>7. DeltaIsOfOpenBlock(t, n)
  BY <1>1, <1>6 DEF DeltaIsOfOpenBlock
<1>8. Disciplined(t) /\ Numbered(t)
  BY <1>3, <1>7, DisciplineExtends DEF WellFormed
<1>9. \A i \in 1..Len(t) : IsStart(t[i]) => t[i].index < next
  BY <1>1, <1>3 DEF WellFormed
<1>10. next > 0 => \E i \in 1..Len(t) : IsStart(t[i]) /\ t[i].index = next - 1 /\ t[i].kind = last
  BY <1>1 DEF WellFormed
<1>11. OpenUntil(t, j, Len(t) + 1)
  BY <1>1, <1>3, <1>6 DEF OpenUntil
<1>12. QED
  BY <1>1, <1>4, <1>6, <1>8, <1>9, <1>10, <1>11 DEF WellFormed

\* A stop of the open block.
LEMMA StopFits ==
  ASSUME NEW s \in Seq(Event), NEW kind \in Kinds, NEW index, NEW next, NEW last, NEW any,
         NEW e \in Event, WellFormed(s, kind, index, next, last),
         IsStop(e), e.index = index
  PROVE  WellFormed(Append(s, e), None, any, next, last)
<1> DEFINE t == Append(s, e)
           n == Len(s) + 1
<1>1. /\ t \in Seq(Event) /\ Len(t) = n /\ t[n] = e /\ n \in Nat \ {0}
      /\ \A i \in 1..Len(s) : t[i] = s[i]
  BY AppendSeq
<1>2. \A j \in 1..Len(s) : OpenUntil(t, j, n) <=> OpenUntil(s, j, n)
  <2>1. n \in 1..(Len(s) + 1) /\ 1..(n - 1) = 1..Len(s)
    BY <1>1
  <2>2. QED
    BY <2>1, PrefixKept
<1>3. e.name = "content_block_stop" /\ ~IsStart(e) /\ ~IsDelta(e)
  BY DEF IsDelta, IsStart, IsStop
<1>4. kind # None
  BY DEF Kinds, None
<1>5. PICK j \in 1..Len(s) : OpenUntil(s, j, n) /\ s[j].index = index /\ s[j].kind = kind
  BY <1>4 DEF WellFormed
<1>6. StopIsOfOpenBlock(t, n)
  BY <1>1, <1>2, <1>5 DEF StopIsOfOpenBlock
<1>7. Disciplined(t) /\ Numbered(t)
  BY <1>3, <1>6, DisciplineExtends DEF WellFormed
<1>8. \A i \in 1..Len(t) : IsStart(t[i]) => t[i].index < next
  BY <1>1, <1>3 DEF WellFormed
<1>9. next > 0 => \E i \in 1..Len(t) : IsStart(t[i]) /\ t[i].index = next - 1 /\ t[i].kind = last
  BY <1>1 DEF WellFormed
<1>10. NothingOpenBefore(t, Len(t) + 1)
  <2> SUFFICES ASSUME NEW i \in 1..n, OpenUntil(t, i, n + 1) PROVE FALSE
    BY <1>1 DEF NothingOpenBefore
  <2>1. IsStart(t[i]) /\ \A k \in (i + 1)..n : t[k].name \in {"content_block_delta", "error"}
    BY <1>1 DEF OpenUntil
  <2>2. i # n
    BY <1>1, <1>3, <2>1
  <2>3. n \in (i + 1)..n
    BY <1>1, <2>2
  <2>4. QED
    BY <1>1, <1>3, <2>1, <2>3
<1>11. QED
  BY <1>7, <1>8, <1>9, <1>10 DEF WellFormed

\* A block opened when none is open, next in number, and of another kind than
\* the block before unless both are tool calls.
LEMMA StartFits ==
  ASSUME NEW s \in Seq(Event), NEW index, NEW next \in Nat, NEW last, NEW k \in Kinds,
         WellFormed(s, None, index, next, last),
         next = 0 \/ last # k \/ k = "tool_use"
  PROVE  WellFormed(Append(s, BlockStart(next, k)), k, next, next + 1, k)
<1> DEFINE e == BlockStart(next, k)
           t == Append(s, e)
           n == Len(s) + 1
<1>0. e \in Event
  BY EventTypes
<1>1. /\ t \in Seq(Event) /\ Len(t) = n /\ t[n] = e /\ n \in Nat \ {0}
      /\ \A i \in 1..Len(s) : t[i] = s[i]
  BY <1>0, AppendSeq
<1>2. /\ e.name = "content_block_start" /\ e.index = next /\ e.kind = k
      /\ IsStart(e) /\ ~IsStop(e) /\ ~IsDelta(e)
  BY DEF IsDelta, IsStart, IsStop, BlockStart
<1>3. \A j \in 1..Len(s) : OpenUntil(t, j, n) <=> OpenUntil(s, j, n)
  <2>1. n \in 1..(Len(s) + 1) /\ 1..(n - 1) = 1..Len(s)
    BY <1>1
  <2>2. QED
    BY <1>0, <2>1, PrefixKept
<1>4. NothingOpenBefore(t, n)
  BY <1>1, <1>3 DEF WellFormed, NothingOpenBefore
<1>5. FollowsPrevious(t, n)
  <2>1. 1..(n - 1) = 1..Len(s)
    BY <1>1
  <2>2. \A j \in 1..(n - 1) : IsStart(t[j]) => t[j].index < next
    BY <1>1, <2>1 DEF WellFormed
  <2>3. next > 0 => \E j \in 1..(n - 1) :
          IsStart(t[j]) /\ t[j].index = next - 1 /\ t[j].kind = last
    BY <1>1, <2>1 DEF WellFormed
  <2>4. QED
    BY <1>1, <1>2, <2>2, <2>3 DEF FollowsPrevious
<1>6. Disciplined(t) /\ Numbered(t)
  BY <1>0, <1>2, <1>4, <1>5, DisciplineExtends DEF WellFormed
<1>7. \A i \in 1..Len(t) : IsStart(t[i]) => t[i].index < next + 1
  <2> SUFFICES ASSUME NEW i \in 1..n, IsStart(t[i]) PROVE t[i].index < next + 1
    BY <1>1
  <2>1. CASE i = n
    BY <1>1, <1>2, <2>1
  <2>2. CASE i # n
    <3>1. i \in 1..Len(s) /\ t[i] = s[i]
      BY <1>1, <2>2
    <3>2. s[i] \in Event /\ IsStart(s[i])
      BY <3>1
    <3>3. s[i].index \in Nat
      BY <3>2, StartType
    <3>4. s[i].index < next
      BY <3>1, <3>2 DEF WellFormed
    <3>5. QED
      BY <3>1, <3>3, <3>4
  <2>3. QED
    BY <2>1, <2>2
<1>8. \E i \in 1..Len(t) : IsStart(t[i]) /\ t[i].index = (next + 1) - 1 /\ t[i].kind = k
  <2>1. n \in 1..Len(t)
    BY <1>1
  <2>2. QED
    BY <1>1, <1>2, <2>1
<1>9. \E j \in 1..Len(t) : OpenUntil(t, j, Len(t) + 1) /\ t[j].index = next /\ t[j].kind = k
  <2>1. n \in 1..Len(t) /\ (n + 1)..((Len(t) + 1) - 1) = {}
    BY <1>1
  <2>2. OpenUntil(t, n, Len(t) + 1)
    BY <1>1, <1>2, <2>1 DEF OpenUntil
  <2>3. QED
    BY <1>1, <1>2, <2>1, <2>2
<1>10. k # None
  BY DEF Kinds, None
<1>11. QED
  BY <1>6, <1>7, <1>8, <1>9, <1>10 DEF WellFormed

\* An error, in a block or outside; the end of the message, outside.
LEMMA OtherFits ==
  ASSUME NEW s \in Seq(Event), NEW kind, NEW index, NEW next, NEW last,
         NEW e \in Event, WellFormed(s, kind, index, next, last),
         \/ e.name = "error"
         \/ kind = None /\ e.name \in {"message_delta", "message_stop"}
  PROVE  WellFormed(Append(s, e), kind, index, next, last)
<1> DEFINE t == Append(s, e)
           n == Len(s) + 1
<1>1. /\ t \in Seq(Event) /\ Len(t) = n /\ t[n] = e /\ n \in Nat \ {0}
      /\ \A i \in 1..Len(s) : t[i] = s[i]
  BY AppendSeq
<1>2. \A j \in 1..Len(s) : OpenUntil(t, j, n) <=> OpenUntil(s, j, n)
  <2>1. n \in 1..(Len(s) + 1) /\ 1..(n - 1) = 1..Len(s)
    BY <1>1
  <2>2. QED
    BY <2>1, PrefixKept
<1>3. ~IsStart(e) /\ ~IsStop(e) /\ ~IsDelta(e)
  BY DEF IsDelta, IsStart, IsStop
<1>4. Disciplined(t) /\ Numbered(t)
  BY <1>3, DisciplineExtends DEF WellFormed
<1>5. \A i \in 1..Len(t) : IsStart(t[i]) => t[i].index < next
  BY <1>1, <1>3 DEF WellFormed
<1>6. next > 0 => \E i \in 1..Len(t) : IsStart(t[i]) /\ t[i].index = next - 1 /\ t[i].kind = last
  BY <1>1 DEF WellFormed
<1>7. kind = None => NothingOpenBefore(t, Len(t) + 1)
  <2> SUFFICES ASSUME kind = None, NEW i \in 1..n, OpenUntil(t, i, n + 1) PROVE FALSE
    BY <1>1 DEF NothingOpenBefore
  <2>1. i # n
    BY <1>1, <1>3 DEF OpenUntil
  <2>2. i \in 1..Len(s) /\ OpenUntil(t, i, n)
    BY <1>1, <2>1 DEF OpenUntil
  <2>3. QED
    BY <1>2, <2>2 DEF WellFormed, NothingOpenBefore
<1>8. kind # None => \E j \in 1..Len(t) :
        OpenUntil(t, j, Len(t) + 1) /\ t[j].index = index /\ t[j].kind = kind
  <2> SUFFICES ASSUME kind # None
               PROVE  \E j \in 1..Len(t) :
                        OpenUntil(t, j, Len(t) + 1) /\ t[j].index = index /\ t[j].kind = kind
    OBVIOUS
  <2>1. PICK j \in 1..Len(s) : OpenUntil(s, j, n) /\ s[j].index = index /\ s[j].kind = kind
    BY DEF WellFormed
  <2>2. OpenUntil(t, j, n) /\ t[j].index = index /\ t[j].kind = kind
    BY <1>1, <1>2, <2>1
  <2>3. OpenUntil(t, j, Len(t) + 1)
    BY <1>1, <2>2 DEF OpenUntil
  <2>4. QED
    BY <1>1, <2>2, <2>3
<1>9. QED
  BY <1>4, <1>5, <1>6, <1>7, <1>8 DEF WellFormed

\* The translator's fields describe its stream: openType and openIndex are
\* the open block, nextIndex the block to come, and no text or thinking block
\* was closed just before but by opening another or by finishing.
Bookkept(last) ==
  /\ WellFormed(out, openType, openIndex, nextIndex, last)
  /\ openType # None => last = openType
  /\ openType = None /\ ~finished /\ nextIndex > 0 => last = "tool_use"

IInv == TypeOK /\ \E last \in Kinds : Bookkept(last)

\* closeBlock leaves no block open.
LEMMA CloseBlockFits ==
  ASSUME TypeOK, NEW last, Bookkept(last)
  PROVE  WellFormed(CloseBlock(out), None, openIndex, nextIndex, last)
<1>1. /\ out \in Seq(Event) /\ openIndex \in Nat
      /\ openType \in {None, "text", "thinking"}
  BY DEF TypeOK
<1>2. BlockStop(openIndex) \in Event
  BY <1>1, EventTypes
<1>3. IsStop(BlockStop(openIndex)) /\ BlockStop(openIndex).index = openIndex
  BY DEF IsStop, BlockStop
<1>4. WellFormed(out, openType, openIndex, nextIndex, last)
  BY DEF Bookkept
<1>5. CASE openType = None
  <2>1. CloseBlock(out) = out
    BY <1>5 DEF CloseBlock, None
  <2>2. QED
    BY <1>4, <1>5, <2>1
<1>6. CASE openType = "text"
  <2>1. CloseBlock(out) = Append(out, BlockStop(openIndex))
    BY <1>6 DEF CloseBlock, None
  <2>2. openType \in Kinds
    BY <1>6 DEF Kinds
  <2>3. QED
    BY <1>1, <1>2, <1>3, <1>4, <2>1, <2>2, StopFits
<1>7. CASE openType = "thinking"
  <2> DEFINE signature == BlockDelta(openIndex, "signature_delta", thinkingText)
  <2>1. CloseBlock(out) = Append(Append(out, signature), BlockStop(openIndex))
    BY <1>7 DEF CloseBlock, None
  <2>2. openType \in Kinds
    BY <1>7 DEF Kinds
  <2>3. signature \in Event
    <3>1. thinkingText \in Seq(Texts \cup JSONTexts)
      BY SeqOfSubset DEF TypeOK
    <3>2. QED
      BY <1>1, <3>1, EventTypes
  <2>4. /\ IsDelta(signature) /\ signature.index = openIndex
        /\ signature.delta \in DeltasOf(openType)
    BY <1>7 DEF IsDelta, BlockDelta, DeltasOf
  <2>5. Append(out, signature) \in Seq(Event)
    BY <1>1, <2>3, AppendSeq
  <2>6. WellFormed(Append(out, signature), openType, openIndex, nextIndex, last)
    BY <1>1, <1>4, <2>2, <2>3, <2>4, DeltaFits
  <2>7. QED
    BY <1>2, <1>3, <2>1, <2>2, <2>5, <2>6, StopFits
<1>8. QED
  BY <1>1, <1>5, <1>6, <1>7

LEMMA InitBlocks == Init => IInv
<1> SUFFICES ASSUME Init PROVE IInv
  OBVIOUS
<1>1. TypeOK
  BY InitType
<1>2. /\ out = <<MessageStart>> /\ Len(out) = 1 /\ out[1] = MessageStart
      /\ openType = None /\ nextIndex = 0
  BY DEF Init
<1>3. \A i \in 1..Len(out) : ~IsStart(out[i]) /\ ~IsStop(out[i]) /\ ~IsDelta(out[i])
  BY <1>2 DEF IsStart, IsStop, IsDelta, MessageStart
<1>4. Disciplined(out) /\ Numbered(out)
  BY <1>3 DEF Disciplined, Numbered
<1>5. NothingOpenBefore(out, Len(out) + 1)
  BY <1>2, <1>3 DEF NothingOpenBefore, OpenUntil
<1>6. Bookkept("text")
  BY <1>2, <1>3, <1>4, <1>5 DEF Bookkept, WellFormed
<1>7. QED
  BY <1>1, <1>6 DEF IInv, Kinds

\* Every step of the translator keeps its fields in line with its stream.
LEMMA NextBlocks == IInv /\ [Next]_vars => IInv'
<1> SUFFICES ASSUME IInv, [Next]_vars PROVE IInv'
  OBVIOUS
<1>1. TypeOK /\ TypeOK'
  BY NextType DEF IInv
<1>2. PICK last \in Kinds : Bookkept(last)
  BY DEF IInv
<1>3. WellFormed(out, openType, openIndex, nextIndex, last)
  BY <1>2 DEF Bookkept
<1>4. /\ out \in Seq(Event) /\ nextIndex \in Nat /\ openIndex \in Nat
      /\ openType \in {None, "text", "thinking"}
      /\ CloseBlock(out) \in Seq(Event)
  BY <1>1, CloseBlockType DEF TypeOK
<1>5. WellFormed(CloseBlock(out), None, openIndex, nextIndex, last)
  BY <1>1, <1>2, CloseBlockFits
<1> SUFFICES \E l \in Kinds : Bookkept(l)'
  BY <1>1 DEF IInv
<1>6. CASE UNCHANGED <<blockVars, finished, out>>
  BY <1>2, <1>6 DEF Bookkept, blockVars
<1>7. ASSUME NEW kind \in {"text", "thinking"}, NEW text \in Texts, FeedDelta(kind, text)
      PROVE  \E l \in Kinds : Bookkept(l)'
  <2> DEFINE delta(i) == BlockDelta(i, DeltaOf(kind), <<text>>)
  <2>1. kind \in Kinds /\ kind # None /\ kind # "tool_use"
    BY DEF Kinds, None
  <2>2. \A i \in Nat : /\ delta(i) \in Event /\ IsDelta(delta(i)) /\ delta(i).index = i
                       /\ delta(i).delta \in DeltasOf(kind)
    <3>1. <<text>> \in Seq(Texts \cup JSONTexts)
      BY SingletonSeq
    <3>2. \A i \in Nat : delta(i) \in Event
      BY <3>1, EventTypes DEF DeltaOf
    <3>3. QED
      BY <3>2 DEF IsDelta, BlockDelta, DeltaOf, DeltasOf
  <2>3. ~finished /\ finished' = finished
    BY <1>7 DEF FeedDelta, Take
  <2>4. CASE Continues(kind)
    <3>1. /\ out' = Append(out, delta(openIndex))
          /\ nextIndex' = nextIndex /\ openIndex' = openIndex /\ openType' = openType
      BY <1>7, <2>4, Zenon DEF FeedDelta
    <3>2. openType = kind /\ last = kind
      BY <1>2, <2>1, <2>4 DEF Continues, Bookkept
    <3>3. WellFormed(out', kind, openIndex, nextIndex, last)
      BY <1>3, <1>4, <2>1, <2>2, <3>1, <3>2, DeltaFits
    <3>4. Bookkept(kind)'
      BY <2>1, <3>1, <3>2, <3>3 DEF Bookkept
    <3>5. QED
      BY <2>1, <3>4
  <2>5. CASE ~Continues(kind)
    <3> DEFINE s == Append(CloseBlock(out), BlockStart(nextIndex, kind))
    <3>1. /\ out' = Append(s, delta(nextIndex))
          /\ nextIndex' = nextIndex + 1 /\ openIndex' = nextIndex /\ openType' = kind
      BY <1>7, <2>5, Zenon DEF FeedDelta
    <3>2. nextIndex = 0 \/ last # kind
      <4>1. openType = None => nextIndex = 0 \/ last = "tool_use"
        BY <1>2, <1>4, <2>3 DEF Bookkept
      <4>2. openType # None => last = openType /\ last # kind
        BY <1>2, <2>5 DEF Bookkept, Continues
      <4>3. QED
        BY <2>1, <4>1, <4>2
    <3>3. BlockStart(nextIndex, kind) \in Event
      BY <1>4, <2>1, EventTypes
    <3>4. s \in Seq(Event)
      BY <1>4, <3>3, AppendSeq
    <3>5. WellFormed(s, kind, nextIndex, nextIndex + 1, kind)
      BY <1>4, <1>5, <2>1, <3>2, StartFits
    <3>6. WellFormed(out', kind, nextIndex, nextIndex + 1, kind)
      BY <1>4, <2>1, <2>2, <3>1, <3>4, <3>5, DeltaFits
    <3>7. Bookkept(kind)'
      BY <2>1, <3>1, <3>6 DEF Bookkept
    <3>8. QED
      BY <2>1, <3>7
  <2>6. QED
    BY <2>4, <2>5
<1>8. ASSUME NEW input \in ToolInputs, FeedToolCall(input)
      PROVE  \E l \in Kinds : Bookkept(l)'
  <2> DEFINE delta == BlockDelta(nextIndex, "input_json_delta", <<PartialJSON(input)>>)
             s1 == Append(CloseBlock(out), BlockStart(nextIndex, "tool_use"))
             s2 == Append(s1, delta)
  <2>1. "tool_use" \in Kinds
    BY DEF Kinds
  <2>2. /\ BlockStart(nextIndex, "tool_use") \in Event
        /\ BlockStop(nextIndex) \in Event /\ delta \in Event
    <3>1. <<PartialJSON(input)>> \in Seq(Texts \cup JSONTexts)
      BY PartialJSONType, SingletonSeq
    <3>2. QED
      BY <1>4, <2>1, <3>1, EventTypes
  <2>3. /\ IsDelta(delta) /\ delta.index = nextIndex /\ delta.delta \in DeltasOf("tool_use")
        /\ IsStop(BlockStop(nextIndex)) /\ BlockStop(nextIndex).index = nextIndex
    BY DEF IsDelta, IsStop, BlockDelta, BlockStop, DeltasOf
  <2>4. s1 \in Seq(Event) /\ s2 \in Seq(Event)
    BY <1>4, <2>2, AppendSeq
  <2>5. WellFormed(s1, "tool_use", nextIndex, nextIndex + 1, "tool_use")
    BY <1>4, <1>5, <2>1, StartFits
  <2>6. WellFormed(s2, "tool_use", nextIndex, nextIndex + 1, "tool_use")
    BY <2>1, <2>2, <2>3, <2>4, <2>5, DeltaFits
  <2>7. WellFormed(Append(s2, BlockStop(nextIndex)), None, openIndex, nextIndex + 1, "tool_use")
    BY <2>1, <2>2, <2>3, <2>4, <2>6, StopFits
  <2>8. /\ out' = Append(s2, BlockStop(nextIndex))
        /\ openType' = None /\ openIndex' = openIndex /\ nextIndex' = nextIndex + 1
    BY <1>8, Zenon DEF FeedToolCall
  <2>9. Bookkept("tool_use")'
    BY <2>7, <2>8 DEF Bookkept
  <2>10. QED
    BY <2>1, <2>9
<1>9. ASSUME NEW m \in Messages, FeedError(m) PROVE \E l \in Kinds : Bookkept(l)'
  <2>1. ErrorEvent(m) \in Event /\ ErrorEvent(m).name = "error"
    BY EventTypes DEF ErrorEvent
  <2>2. WellFormed(Append(out, ErrorEvent(m)), openType, openIndex, nextIndex, last)
    BY <1>3, <1>4, <2>1, OtherFits
  <2>3. out' = Append(out, ErrorEvent(m)) /\ UNCHANGED <<blockVars, finished>>
    BY <1>9 DEF FeedError
  <2>4. Bookkept(last)'
    BY <1>2, <2>2, <2>3 DEF Bookkept, blockVars
  <2>5. QED
    BY <2>4
<1>10. CASE Finish
  <2>1. CASE hasError
    <3>1. UNCHANGED <<out, openType, nextIndex, openIndex>> /\ finished' = TRUE
      BY <1>10, <2>1 DEF Finish
    <3>2. Bookkept(last)'
      BY <1>2, <3>1 DEF Bookkept
    <3>3. QED
      BY <3>2
  <2>2. CASE ~hasError
    <3> DEFINE end == MessageDelta(stopReason', DeltaUsage(usage, OutputTokens))
    <3>1. /\ openType' = None /\ finished' = TRUE /\ UNCHANGED <<nextIndex, openIndex>>
          /\ out' = IF OutputTokens = 0
                    THEN Append(CloseBlock(out), ErrorEvent(ZeroOutput))
                    ELSE Append(Append(CloseBlock(out), end), MessageStop)
      BY <1>10, <2>2 DEF Finish
    <3>2. WellFormed(out', None, openIndex, nextIndex, last)
      <4>1. CASE OutputTokens = 0
        <5>1. ErrorEvent(ZeroOutput) \in Event /\ ErrorEvent(ZeroOutput).name = "error"
          BY EventTypes DEF ErrorEvent
        <5>2. QED
          BY <1>4, <1>5, <3>1, <4>1, <5>1, OtherFits
      <4>2. CASE OutputTokens # 0
        <5>1. end \in Event /\ end.name = "message_delta"
          <6>1. stopReason' \in StopReasons
            BY <1>1, <1>10, <2>2 DEF Finish, TypeOK, StopReasons
          <6>2. OutputTokens \in Nat
            BY <1>1 DEF OutputTokens, TypeOK, UsageObject
          <6>3. usage \in UsageObject
            BY <1>1 DEF TypeOK
          <6>4. DeltaUsage(usage, OutputTokens) \in TokenCounts
            BY <6>2, <6>3, DeltaUsageType
          <6>5. QED
            BY <6>1, <6>4, EventTypes DEF MessageDelta
        <5>2. MessageStop \in Event /\ MessageStop.name = "message_stop"
          BY EventTypes DEF MessageStop
        <5>3. WellFormed(Append(CloseBlock(out), end), None, openIndex, nextIndex, last)
          BY <1>4, <1>5, <5>1, OtherFits
        <5>4. Append(CloseBlock(out), end) \in Seq(Event)
          BY <1>4, <5>1, AppendSeq
        <5>5. QED
          BY <3>1, <4>2, <5>2, <5>3, <5>4, OtherFits
      <4>3. QED
        BY <4>1, <4>2
    <3>3. Bookkept(last)'
      BY <3>1, <3>2 DEF Bookkept
    <3>4. QED
      BY <3>3
  <2>3. QED
    BY <2>1, <2>2
<1>11. ASSUME \/ FeedIgnored \/ FeedErrorWithoutDetail \/ UNCHANGED vars
              \/ \E reason \in Reasons \cup {None}, u \in OptionalUsage :
                   FeedFinishStep(reason, u) \/ FeedFinish(reason, u)
       PROVE  UNCHANGED <<blockVars, finished, out>>
  BY <1>11 DEF FeedIgnored, FeedErrorWithoutDetail, FeedFinishStep, FeedFinish, vars
<1>12. QED
  BY <1>6, <1>7, <1>8, <1>9, <1>10, <1>11 DEF Next, Feed

\* A client never gets a delta or a stop for a block that is not open, nor a
\* start while one is, however long the stream and whatever errors, noise and
\* finish events the upstream mixes in.
THEOREM BlocksDisciplined == Spec => []BlockDiscipline
<1>1. IInv => BlockDiscipline
  BY DEF IInv, Bookkept, WellFormed, BlockDiscipline
<1>2. QED
  BY <1>1, InitBlocks, NextBlocks, PTL DEF Spec

\* The blocks of every stream are numbered 0, 1, 2, ... in the order they are
\* opened, and two text or two thinking blocks never follow each other.
THEOREM BlocksNumbered == Spec => []BlockSequence
<1>1. IInv => BlockSequence
  BY DEF IInv, Bookkept, WellFormed, BlockSequence
<1>2. QED
  BY <1>1, InitBlocks, NextBlocks, PTL DEF Spec
---------------------------------------------------------------------------
(* Positions.  The properties that follow relate the lines of a stream to  *)
(* its events by the places they have among their like.                    *)

LEMMA LatestIs ==
  ASSUME NEW n \in Nat, NEW P, P \subseteq 1..n, P # {}
  PROVE  Latest(P) \in P /\ \A j \in P : j <= Latest(P)
<1> DEFINE R == OpToRel(<, Nat)
           T == {n - i : i \in P}
<1>1. IsWellFoundedOn(R, Nat)
  BY NatLessThanWellFounded
<1>2. \A k, m \in Nat : k < m => <<k, m>> \in R
  BY DEF OpToRel
<1>3. T \subseteq Nat /\ T # {}
  <2>1. \A i \in P : n - i \in Nat
    OBVIOUS
  <2> QED
    BY <2>1
<1> HIDE DEF R
<1>4. PICK m \in T : \A k \in T : <<k, m>> \notin R
  BY <1>1, <1>3, WFMin
<1>5. PICK i \in P : m = n - i
  BY <1>4
<1>6. \A j \in P : j <= i
  <2> TAKE j \in P
  <2>1. n - j \in T /\ n - j \in Nat /\ m \in Nat /\ ~(n - j < m)
    BY <1>2, <1>3, <1>4
  <2> QED
    BY <1>5, <2>1
<1> QED
  BY <1>6 DEF Latest

LEMMA LatestAdded ==
  ASSUME NEW n \in Nat, NEW P, P \subseteq 1..n
  PROVE  Latest(P \cup {n + 1}) = n + 1
<1>1. P \cup {n + 1} \subseteq 1..(n + 1) /\ n + 1 \in Nat
  OBVIOUS
<1>2. /\ Latest(P \cup {n + 1}) \in P \cup {n + 1}
      /\ n + 1 <= Latest(P \cup {n + 1})
  BY <1>1, LatestIs
<1>3. \A j \in P : ~(n + 1 <= j)
  OBVIOUS
<1> QED
  BY <1>2, <1>3

LEMMA LinePositions ==
  ASSUME NEW f \in Seq(Line)
  PROVE  /\ ContentLines(f) \subseteq 1..Len(f)
         /\ StepReasons(f) \subseteq 1..Len(f) /\ FinishReasons(f) \subseteq 1..Len(f)
         /\ UsageLines(f) \subseteq 1..Len(f)
         /\ ChunkLines(f) \subseteq 1..Len(f) /\ ToolLines(f) \subseteq 1..Len(f)
BY DEF ContentLines, StepReasons, FinishReasons, UsageLines, ChunkLines, ToolLines

LEMMA LineAppended ==
  ASSUME NEW f \in Seq(Line), NEW l \in Line, NEW g, g = Append(f, l), NEW n, n = Len(f) + 1
  PROVE  /\ ContentLines(g) = (IF l.type \in {"text", "thinking", "tool-call"}
                               THEN ContentLines(f) \cup {n} ELSE ContentLines(f))
         /\ StepReasons(g) = (IF l.type = "finish-step" /\ l.reason # None
                              THEN StepReasons(f) \cup {n} ELSE StepReasons(f))
         /\ FinishReasons(g) = (IF l.type = "finish" /\ l.reason # None
                                THEN FinishReasons(f) \cup {n} ELSE FinishReasons(f))
         /\ UsageLines(g) =
              (IF l.type \in {"finish-step", "finish"} /\ l.usage # <<>>
               THEN UsageLines(f) \cup {n} ELSE UsageLines(f))
         /\ ChunkLines(g) = (IF l.type \in {"text", "thinking"}
                             THEN ChunkLines(f) \cup {n} ELSE ChunkLines(f))
         /\ ToolLines(g) = (IF l.type = "tool-call"
                            THEN ToolLines(f) \cup {n} ELSE ToolLines(f))
<1>1. /\ g \in Seq(Line) /\ Len(g) = n /\ g[n] = l /\ n \notin 1..Len(f)
      /\ 1..Len(g) = 1..Len(f) \cup {n}
      /\ \A i \in 1..Len(f) : g[i] = f[i]
  BY AppendSeq
<1>2. ContentLines(g) = (IF l.type \in {"text", "thinking", "tool-call"}
                         THEN ContentLines(f) \cup {n} ELSE ContentLines(f))
  BY <1>1 DEF ContentLines
<1>3. StepReasons(g) = (IF l.type = "finish-step" /\ l.reason # None
                        THEN StepReasons(f) \cup {n} ELSE StepReasons(f))
  BY <1>1 DEF StepReasons
<1>4. FinishReasons(g) = (IF l.type = "finish" /\ l.reason # None
                          THEN FinishReasons(f) \cup {n} ELSE FinishReasons(f))
  BY <1>1 DEF FinishReasons
<1>5. UsageLines(g) =
        (IF l.type \in {"finish-step", "finish"} /\ l.usage # <<>>
         THEN UsageLines(f) \cup {n} ELSE UsageLines(f))
  BY <1>1 DEF UsageLines
<1>6. ChunkLines(g) = (IF l.type \in {"text", "thinking"}
                       THEN ChunkLines(f) \cup {n} ELSE ChunkLines(f))
  BY <1>1 DEF ChunkLines
<1>7. ToolLines(g) = (IF l.type = "tool-call" THEN ToolLines(f) \cup {n} ELSE ToolLines(f))
  BY <1>1 DEF ToolLines
<1> QED
  BY <1>2, <1>3, <1>4, <1>5, <1>6, <1>7

LEMMA EventAppended ==
  ASSUME NEW s \in Seq(Event), NEW e \in Event, NEW t, t = Append(s, e), NEW n, n = Len(s) + 1
  PROVE  /\ ContentDeltas(s) \subseteq 1..Len(s)
         /\ \A i \in 1..Len(s) : ThinkingDeltas(t, i) = ThinkingDeltas(s, i)
         /\ ThinkingDeltas(s, Len(s)) \subseteq 1..Len(s)
         /\ ContentDeltas(t) = (IF IsDelta(e) /\ e.delta # "signature_delta"
                                THEN ContentDeltas(s) \cup {n} ELSE ContentDeltas(s))
         /\ ThinkingDeltas(t, n) =
              (IF IsDelta(e) /\ e.delta = "thinking_delta"
               THEN ThinkingDeltas(s, Len(s)) \cup {n} ELSE ThinkingDeltas(s, Len(s)))
<1>1. /\ t \in Seq(Event) /\ Len(t) = n /\ t[n] = e /\ n \notin 1..Len(s) /\ Len(s) \in Nat
      /\ 1..Len(t) = 1..Len(s) \cup {n}
      /\ \A i \in 1..Len(s) : t[i] = s[i]
  BY AppendSeq
<1>2. \A i \in 1..Len(s) : ThinkingDeltas(t, i) = ThinkingDeltas(s, i)
  <2> TAKE i \in 1..Len(s)
  <2>1. \A k \in 1..i : t[k] = s[k]
    BY <1>1
  <2> QED
    BY <2>1 DEF ThinkingDeltas
<1>3. ContentDeltas(t) = (IF IsDelta(e) /\ e.delta # "signature_delta"
                          THEN ContentDeltas(s) \cup {n} ELSE ContentDeltas(s))
  BY <1>1 DEF ContentDeltas
<1>4. ThinkingDeltas(t, n) =
        (IF IsDelta(e) /\ e.delta = "thinking_delta"
         THEN ThinkingDeltas(s, Len(s)) \cup {n} ELSE ThinkingDeltas(s, Len(s)))
  BY <1>1 DEF ThinkingDeltas
<1> QED
  BY <1>2, <1>3, <1>4 DEF ContentDeltas, ThinkingDeltas
\* The closing message_delta is an event.
LEMMA EndType ==
  ASSUME TypeOK, Finish, ~hasError
  PROVE  MessageDelta(stopReason', DeltaUsage(usage, OutputTokens)) \in Event
<1>1. stopReason' \in StopReasons
  BY DEF Finish, TypeOK, StopReasons
<1>2. OutputTokens \in Nat
  BY DEF OutputTokens, TypeOK, UsageObject
<1>3. usage \in UsageObject
  BY DEF TypeOK
<1>4. DeltaUsage(usage, OutputTokens) \in TokenCounts
  BY <1>2, <1>3, DeltaUsageType
<1> QED
  BY <1>1, <1>4, EventTypes
---------------------------------------------------------------------------
(* The content.                                                            *)

\* A line without content changes nothing.
LEMMA NoiseTaken ==
  ASSUME NEW f \in Seq(Line), NEW s \in Seq(Event), SameContent(f, s),
         NEW l \in Line, l.type \notin {"text", "thinking", "tool-call"}
  PROVE  SameContent(Append(f, l), s)
<1> DEFINE g == Append(f, l)
<1>1. ContentLines(g) = ContentLines(f) /\ ContentLines(f) \subseteq 1..Len(f)
  BY LineAppended, LinePositions
<1>2. \A i \in ContentLines(f) : g[i] = f[i]
  BY <1>1, AppendSeq
<1> QED
  BY <1>1, <1>2 DEF SameContent

\* Nor does an event without.
LEMMA NoContentAdded ==
  ASSUME NEW f, NEW s \in Seq(Event), SameContent(f, s),
         NEW e \in Event, IsDelta(e) => e.delta = "signature_delta"
  PROVE  SameContent(f, Append(s, e))
<1> DEFINE t == Append(s, e)
<1>1. ContentDeltas(t) = ContentDeltas(s) /\ ContentDeltas(s) \subseteq 1..Len(s)
  BY EventAppended
<1>2. \A j \in ContentDeltas(s) : t[j] = s[j]
  BY <1>1, AppendSeq
<1> QED
  BY <1>1, <1>2 DEF SameContent

LEMMA LineOfContent ==
  ASSUME NEW f \in Seq(Line), NEW l \in Line, l.type \in {"text", "thinking", "tool-call"}
  PROVE  ContentLines(Append(f, l)) = ContentLines(f) \cup {Len(f) + 1}
<1> DEFINE g == Append(f, l)
           n == Len(f) + 1
<1>1. /\ Len(g) = n /\ g[n] = l /\ Len(f) \in Nat
      /\ 1..Len(g) = 1..Len(f) \cup {n}
      /\ \A i \in 1..Len(f) : g[i] = f[i]
  BY AppendSeq
<1> QED
  BY <1>1 DEF ContentLines

LEMMA DeltaOfContent ==
  ASSUME NEW s \in Seq(Event), NEW e \in Event, IsDelta(e), e.delta # "signature_delta"
  PROVE  ContentDeltas(Append(s, e)) = ContentDeltas(s) \cup {Len(s) + 1}
<1> DEFINE t == Append(s, e)
           n == Len(s) + 1
<1>1. /\ Len(t) = n /\ t[n] = e /\ Len(s) \in Nat
      /\ 1..Len(t) = 1..Len(s) \cup {n}
      /\ \A i \in 1..Len(s) : t[i] = s[i]
  BY AppendSeq
<1> QED
  BY <1>1 DEF ContentDeltas

\* A line of content goes with the delta that brings it.
LEMMA ContentAdded ==
  ASSUME NEW f \in Seq(Line), NEW s \in Seq(Event), SameContent(f, s),
         NEW l \in Line, l.type \in {"text", "thinking", "tool-call"},
         NEW e \in Event, IsDelta(e), e.delta # "signature_delta", Brings(e, l)
  PROVE  SameContent(Append(f, l), Append(s, e))
<1> DEFINE g == Append(f, l)
           t == Append(s, e)
           m == Len(f) + 1
           n == Len(s) + 1
           P == ContentLines(f)
           Q == ContentDeltas(s)
<1>1. /\ Len(f) \in Nat /\ Len(s) \in Nat
      /\ P \subseteq 1..Len(f) /\ Q \subseteq 1..Len(s)
  BY DEF ContentLines, ContentDeltas
<1>2. ContentLines(g) = P \cup {m} /\ ContentDeltas(t) = Q \cup {n}
  <2>1. ContentLines(g) = P \cup {m}
    BY LineOfContent
  <2>2. ContentDeltas(t) = Q \cup {n}
    BY DeltaOfContent
  <2> QED
    BY <2>1, <2>2
<1>3. /\ g[m] = l /\ t[n] = e
      /\ \A i \in P : g[i] = f[i]
      /\ \A j \in Q : t[j] = s[j]
  BY <1>1, AppendSeq
<1>4. /\ Cardinality(P) = Cardinality(Q)
      /\ \A i \in P, j \in Q : Place(P, i) = Place(Q, j) => Brings(s[j], f[i])
  BY DEF SameContent
<1>5. /\ Cardinality(P \cup {m}) = Cardinality(P) + 1
      /\ Place(P \cup {m}, m) = Cardinality(P) + 1
      /\ \A i \in P : Place(P \cup {m}, i) = Place(P, i)
  BY <1>1, PositionAdded
<1>6. /\ Cardinality(Q \cup {n}) = Cardinality(Q) + 1
      /\ Place(Q \cup {n}, n) = Cardinality(Q) + 1
      /\ \A j \in Q : Place(Q \cup {n}, j) = Place(Q, j)
  BY <1>1, PositionAdded
<1>7. /\ Cardinality(P) \in Nat
      /\ \A i \in P : Place(P, i) \in Nat /\ Place(P, i) <= Cardinality(P)
      /\ \A j \in Q : Place(Q, j) \in Nat /\ Place(Q, j) <= Cardinality(Q)
  BY <1>1, PositionsFinite, PlaceType
<1> HIDE DEF g, t, m, n, P, Q
<1>8. ASSUME NEW i \in P \cup {m}, NEW j \in Q \cup {n},
             Place(P \cup {m}, i) = Place(Q \cup {n}, j)
      PROVE  Brings(t[j], g[i])
  <2>1. CASE i \in P /\ j \in Q
    <3>1. Place(P, i) = Place(Q, j)
      BY <1>5, <1>6, <1>8, <2>1
    <3> QED
      BY <1>3, <1>4, <2>1, <3>1
  <2>2. CASE i \in P /\ j \notin Q
    <3>1. Place(P, i) = Cardinality(P) + 1
      BY <1>4, <1>5, <1>6, <1>8, <2>2
    <3> QED
      BY <1>7, <2>2, <3>1
  <2>3. CASE i \notin P /\ j \in Q
    <3>1. Place(Q, j) = Cardinality(Q) + 1
      BY <1>4, <1>5, <1>6, <1>8, <2>3
    <3> QED
      BY <1>4, <1>7, <2>3, <3>1
  <2>4. CASE i \notin P /\ j \notin Q
    BY <1>3, <2>4
  <2> QED
    BY <2>1, <2>2, <2>3, <2>4
<1>9. Cardinality(P \cup {m}) = Cardinality(Q \cup {n})
  BY <1>4, <1>5, <1>6
<1> QED
  BY <1>2, <1>8, <1>9 DEF SameContent, g, t

\* closeBlock adds no content.
LEMMA CloseBlockContent ==
  ASSUME TypeOK, ContentPreserved
  PROVE  SameContent(fed, CloseBlock(out))
<1>1. /\ out \in Seq(Event) /\ openIndex \in Nat /\ openType \in {None, "text", "thinking"}
      /\ thinkingText \in Seq(Texts \cup JSONTexts)
  BY SeqOfSubset DEF TypeOK
<1> DEFINE signature == BlockDelta(openIndex, "signature_delta", thinkingText)
           stop == BlockStop(openIndex)
<1>2. signature \in Event /\ signature.delta = "signature_delta"
  BY <1>1, EventTypes DEF BlockDelta
<1>3. stop \in Event /\ ~IsDelta(stop)
  BY <1>1, EventTypes DEF BlockStop, IsDelta
<1>4. SameContent(fed, out)
  BY DEF ContentPreserved
<1>5. Append(out, signature) \in Seq(Event)
  BY <1>1, <1>2, AppendSeq
<1>6. SameContent(fed, Append(out, stop))
  BY <1>1, <1>3, <1>4, NoContentAdded
<1>7. SameContent(fed, Append(out, signature))
  BY <1>1, <1>2, <1>4, NoContentAdded
<1>8. SameContent(fed, Append(Append(out, signature), stop))
  BY <1>3, <1>5, <1>7, NoContentAdded
<1> QED
  BY <1>1, <1>4, <1>6, <1>8 DEF CloseBlock, None

LEMMA InitContent == Init => ContentPreserved
<1> SUFFICES ASSUME Init PROVE ContentPreserved
  OBVIOUS
<1>1. Len(fed) = 0 /\ Len(out) = 1 /\ out[1] = MessageStart
  BY NothingIsSeq DEF Init
<1>2. ContentLines(fed) = {} /\ ContentDeltas(out) = {}
  BY <1>1 DEF ContentLines, ContentDeltas, IsDelta, MessageStart
<1> QED
  BY <1>2 DEF ContentPreserved, SameContent

LEMMA NextContent == TypeOK /\ ContentPreserved /\ [Next]_vars => ContentPreserved'
<1> SUFFICES ASSUME TypeOK, ContentPreserved, [Next]_vars PROVE ContentPreserved'
  OBVIOUS
<1>1. /\ fed \in Seq(Line) /\ out \in Seq(Event) /\ CloseBlock(out) \in Seq(Event)
      /\ nextIndex \in Nat /\ openIndex \in Nat
  BY CloseBlockType DEF TypeOK
<1>2. SameContent(fed, out) /\ SameContent(fed, CloseBlock(out))
  BY CloseBlockContent DEF ContentPreserved
<1>3. ASSUME NEW l \in Line, l.type \notin {"text", "thinking", "tool-call"},
             fed' = Append(fed, l), out' = out
      PROVE  ContentPreserved'
  BY <1>1, <1>2, <1>3, NoiseTaken DEF ContentPreserved
<1>4. CASE FeedIgnored
  <2>1. [type |-> "ignored"] \in Line
    BY DEF Line
  <2> QED
    BY <1>3, <1>4, <2>1 DEF FeedIgnored, Take
<1>5. ASSUME NEW kind \in {"text", "thinking"}, NEW text \in Texts, FeedDelta(kind, text)
      PROVE  ContentPreserved'
  <2> DEFINE l == [type |-> kind, text |-> text]
             delta(i) == BlockDelta(i, DeltaOf(kind), <<text>>)
             start == BlockStart(nextIndex, kind)
             s == Append(CloseBlock(out), start)
  <2>1. l \in Line /\ l.type \in {"text", "thinking", "tool-call"} /\ fed' = Append(fed, l)
    BY <1>5 DEF Line, FeedDelta, Take
  <2>2. ASSUME NEW i \in Nat
        PROVE  /\ delta(i) \in Event /\ IsDelta(delta(i))
               /\ delta(i).delta # "signature_delta" /\ Brings(delta(i), l)
    <3>1. <<text>> \in Seq(Texts \cup JSONTexts) /\ <<text>>[1] = text
      BY SingletonSeq
    <3>2. delta(i) \in Event
      BY <3>1, EventTypes DEF DeltaOf
    <3> QED
      BY <3>1, <3>2 DEF IsDelta, BlockDelta, DeltaOf, Brings
  <2>3. start \in Event /\ ~IsDelta(start)
    BY <1>1, EventTypes DEF Kinds, BlockStart, IsDelta
  <2>4. s \in Seq(Event) /\ SameContent(fed, s)
    BY <1>1, <1>2, <2>3, AppendSeq, NoContentAdded
  <2>5. out' = Append(out, delta(openIndex)) \/ out' = Append(s, delta(nextIndex))
    BY <1>5, Zenon DEF FeedDelta
  <2> HIDE DEF l, delta, s
  <2>6. SameContent(fed', Append(out, delta(openIndex)))
    BY <1>1, <1>2, <2>1, <2>2, ContentAdded
  <2>7. SameContent(fed', Append(s, delta(nextIndex)))
    BY <1>1, <2>1, <2>2, <2>4, ContentAdded
  <2> QED
    BY <2>5, <2>6, <2>7 DEF ContentPreserved
<1>6. ASSUME NEW input \in ToolInputs, FeedToolCall(input) PROVE ContentPreserved'
  <2> DEFINE l == [type |-> "tool-call", input |-> input]
             delta == BlockDelta(nextIndex, "input_json_delta", <<PartialJSON(input)>>)
             start == BlockStart(nextIndex, "tool_use")
             stop == BlockStop(nextIndex)
             s1 == Append(CloseBlock(out), start)
             s2 == Append(s1, delta)
  <2>1. l \in Line /\ l.type \in {"text", "thinking", "tool-call"} /\ fed' = Append(fed, l)
    BY <1>6 DEF Line, FeedToolCall, Take
  <2>2. /\ delta \in Event /\ IsDelta(delta)
        /\ delta.delta # "signature_delta" /\ Brings(delta, l)
    <3>1. <<PartialJSON(input)>> \in Seq(Texts \cup JSONTexts)
      BY PartialJSONType, SingletonSeq
    <3>2. delta \in Event
      BY <1>1, <3>1, EventTypes
    <3> QED
      BY <3>1, <3>2 DEF IsDelta, BlockDelta, Brings
  <2>3. start \in Event /\ ~IsDelta(start) /\ stop \in Event /\ ~IsDelta(stop)
    BY <1>1, EventTypes DEF Kinds, BlockStart, BlockStop, IsDelta
  <2>4. s1 \in Seq(Event) /\ SameContent(fed, s1)
    BY <1>1, <1>2, <2>3, AppendSeq, NoContentAdded
  <2>5. out' = Append(s2, stop)
    BY <1>6 DEF FeedToolCall
  <2> HIDE DEF l, delta, s1, start, stop
  <2>6. s2 \in Seq(Event) /\ SameContent(fed', s2)
    BY <1>1, <2>1, <2>2, <2>4, AppendSeq, ContentAdded
  <2>7. SameContent(fed', Append(s2, stop))
    BY <2>3, <2>6, NoContentAdded
  <2> QED
    BY <2>5, <2>7 DEF ContentPreserved
<1>7. ASSUME NEW reason \in Reasons \cup {None}, NEW u \in OptionalUsage,
             FeedFinishStep(reason, u) \/ FeedFinish(reason, u)
      PROVE  ContentPreserved'
  <2> DEFINE l(type) == [type |-> type, reason |-> reason, usage |-> u]
  <2>1. l("finish-step") \in Line /\ l("finish") \in Line
    BY DEF Line
  <2>2. /\ out' = out
        /\ fed' = Append(fed, l("finish-step")) \/ fed' = Append(fed, l("finish"))
    BY <1>7 DEF FeedFinishStep, FeedFinish, Take
  <2> QED
    BY <1>3, <2>1, <2>2
<1>8. ASSUME NEW m \in Messages, FeedError(m) PROVE ContentPreserved'
  <2>1. [type |-> "error", message |-> m] \in Line
    BY DEF Line
  <2>2. ErrorEvent(m) \in Event /\ ~IsDelta(ErrorEvent(m))
    BY EventTypes DEF ErrorEvent, IsDelta
  <2>3. Append(out, ErrorEvent(m)) \in Seq(Event) /\ SameContent(fed, Append(out, ErrorEvent(m)))
    BY <1>1, <1>2, <2>2, AppendSeq, NoContentAdded
  <2>4. SameContent(Append(fed, [type |-> "error", message |-> m]), Append(out, ErrorEvent(m)))
    BY <1>1, <2>1, <2>3, NoiseTaken
  <2> QED
    BY <1>8, <2>4 DEF FeedError, Take, ContentPreserved
<1>9. CASE FeedErrorWithoutDetail
  <2>1. [type |-> "error", message |-> None] \in Line
    BY DEF Line
  <2> QED
    BY <1>3, <1>9, <2>1 DEF FeedErrorWithoutDetail, Take
<1>10. CASE Finish
  <2> DEFINE end == MessageDelta(stopReason', DeltaUsage(usage, OutputTokens))
             failure == ErrorEvent(ZeroOutput)
             s == CloseBlock(out)
  <2>1. fed' = fed
    BY <1>10 DEF Finish
  <2>2. \/ out' = out \/ out' = Append(s, failure) \/ out' = Append(Append(s, end), MessageStop)
    BY <1>10, Zenon DEF Finish
  <2>3. failure \in Event /\ ~IsDelta(failure) /\ MessageStop \in Event /\ ~IsDelta(MessageStop)
    BY EventTypes DEF ErrorEvent, MessageStop, IsDelta
  <2>4. ~hasError => end \in Event
    BY <1>10, EndType
  <2>5. ~IsDelta(end)
    BY DEF MessageDelta, IsDelta
  <2>6. hasError => out' = out
    BY <1>10 DEF Finish
  <2> HIDE DEF end, failure, s
  <2>7. SameContent(fed, Append(s, failure))
    BY <1>1, <1>2, <2>3, NoContentAdded DEF s
  <2>8. ~hasError => SameContent(fed, Append(Append(s, end), MessageStop))
    <3> SUFFICES ASSUME ~hasError PROVE SameContent(fed, Append(Append(s, end), MessageStop))
      OBVIOUS
    <3>1. Append(s, end) \in Seq(Event) /\ SameContent(fed, Append(s, end))
      BY <1>1, <1>2, <2>4, <2>5, AppendSeq, NoContentAdded DEF s
    <3> QED
      BY <2>3, <3>1, NoContentAdded
  <2> QED
    BY <1>2, <2>1, <2>2, <2>6, <2>7, <2>8 DEF ContentPreserved
<1>11. CASE UNCHANGED vars
  BY <1>2, <1>11 DEF vars, ContentPreserved
<1> QED
  BY <1>4, <1>5, <1>6, <1>7, <1>8, <1>9, <1>10, <1>11 DEF Next, Feed

\* Whatever lines without content, errors or unreadable ones come in between, and
\* however chunks share blocks, each chunk of text, reasoning and tool input goes
\* to the client once, in the upstream's order.
THEOREM ContentDelivered == Spec => []ContentPreserved
BY InitType, NextType, InitContent, NextContent, PTL DEF Spec
---------------------------------------------------------------------------
(* The signatures.                                                         *)
(*                                                                         *)
(* A signature is computed from thinkingText, so what has to be invariant  *)
(* is that the field holds the reasoning of the stream, chunk by chunk.    *)

Reasoned(s, text) ==
  LET chunks == ThinkingDeltas(s, Len(s))
  IN /\ Len(text) = Cardinality(chunks)
     /\ \A k \in chunks : text[Place(chunks, k)] = s[k].payload[1]

\* A stream that is signed as far as it goes, and whose reasoning is `text'.
SignedSoFar(s, text) ==
  /\ Len(s) >= 1 /\ ~IsStop(s[1])
  /\ Signed(s)
  /\ Reasoned(s, text)

SigningInv == SignedSoFar(out, thinkingText)

LEMMA NoReasoningAdded ==
  ASSUME NEW s \in Seq(Event), NEW text, Reasoned(s, text),
         NEW e \in Event, IsDelta(e) => e.delta # "thinking_delta"
  PROVE  Reasoned(Append(s, e), text)
<1> DEFINE t == Append(s, e)
<1>1. /\ Len(t) = Len(s) + 1 /\ t[Len(s) + 1] = e /\ Len(s) \in Nat
      /\ 1..Len(t) = 1..Len(s) \cup {Len(s) + 1}
      /\ \A k \in 1..Len(s) : t[k] = s[k]
  BY AppendSeq
<1>2. ThinkingDeltas(t, Len(t)) = ThinkingDeltas(s, Len(s))
  BY <1>1 DEF ThinkingDeltas
<1>3. \A k \in ThinkingDeltas(s, Len(s)) : t[k] = s[k]
  BY <1>1 DEF ThinkingDeltas
<1> QED
  BY <1>2, <1>3 DEF Reasoned

LEMMA ReasoningPositions ==
  ASSUME NEW s \in Seq(Event), NEW e \in Event, IsDelta(e), e.delta = "thinking_delta"
  PROVE  /\ ThinkingDeltas(s, Len(s)) \subseteq 1..Len(s)
         /\ ThinkingDeltas(Append(s, e), Len(s) + 1) =
              ThinkingDeltas(s, Len(s)) \cup {Len(s) + 1}
<1> DEFINE t == Append(s, e)
           n == Len(s) + 1
<1>1. /\ t[n] = e /\ 1..n = 1..Len(s) \cup {n}
      /\ \A i \in 1..Len(s) : t[i] = s[i]
  BY AppendSeq
<1> QED
  BY <1>1 DEF ThinkingDeltas

LEMMA ReasoningAdded ==
  ASSUME NEW s \in Seq(Event), NEW text \in Seq(Texts), Reasoned(s, text),
         NEW e \in Event, IsDelta(e), e.delta = "thinking_delta",
         NEW chunk \in Texts, e.payload[1] = chunk
  PROVE  Reasoned(Append(s, e), Append(text, chunk))
<1> DEFINE t == Append(s, e)
           n == Len(s) + 1
           P == ThinkingDeltas(s, Len(s))
           more == Append(text, chunk)
<1>1. /\ P \subseteq 1..Len(s) /\ Len(s) \in Nat
      /\ ThinkingDeltas(t, n) = P \cup {n}
  BY ReasoningPositions
<1>2. Len(t) = n /\ t[n] = e /\ \A k \in P : t[k] = s[k]
  BY <1>1, AppendSeq
<1>3. /\ Cardinality(P \cup {n}) = Cardinality(P) + 1
      /\ Place(P \cup {n}, n) = Cardinality(P) + 1
      /\ \A i \in P : Place(P \cup {n}, i) = Place(P, i)
  BY <1>1, PositionAdded
<1>4. /\ Len(text) = Cardinality(P)
      /\ \A k \in P : text[Place(P, k)] = s[k].payload[1]
  BY DEF Reasoned
<1>5. \A k \in P : Place(P, k) \in 1..Len(text)
  <2> TAKE k \in P
  <2>1. Place(P, k) \in Nat /\ Place(P, k) <= Cardinality(P)
    BY <1>1, PlaceType
  <2>2. Place(P, k) # 0
    <3> DEFINE Q == {j \in P : j <= k}
    <3>1. k \in Q /\ Q \subseteq 1..Len(s)
      BY <1>1
    <3>2. IsFiniteSet(Q)
      BY <1>1, <3>1, PositionsFinite
    <3> QED
      BY <3>1, <3>2, FS_EmptySet DEF Place
  <2> QED
    BY <1>4, <2>1, <2>2
<1>6. /\ Len(more) = Len(text) + 1 /\ more[Len(text) + 1] = chunk
      /\ \A i \in 1..Len(text) : more[i] = text[i]
  BY AppendSeq
<1> HIDE DEF t, n, P, more
<1>7. Len(more) = Cardinality(P \cup {n})
  BY <1>3, <1>4, <1>6
<1>8. ASSUME NEW k \in P \cup {n}
      PROVE  more[Place(P \cup {n}, k)] = t[k].payload[1]
  <2>1. CASE k \in P
    <3> DEFINE p == Place(P, k)
    <3>1. Place(P \cup {n}, k) = p /\ p \in 1..Len(text) /\ t[k] = s[k]
      BY <1>2, <1>3, <1>5, <2>1
    <3>2. text[p] = s[k].payload[1]
      BY <1>4, <2>1
    <3> HIDE DEF p
    <3>3. more[p] = text[p]
      BY <1>6, <3>1
    <3> QED
      BY <3>1, <3>2, <3>3
  <2>2. CASE k = n
    BY <1>2, <1>3, <1>4, <1>6, <2>2
  <2> QED
    BY <2>1, <2>2
<1> QED
  BY <1>1, <1>2, <1>7, <1>8 DEF Reasoned, t, more

\* What is signed stays so, whatever is appended.
LEMMA SignatureKept ==
  ASSUME NEW s \in Seq(Event), NEW e \in Event, NEW i \in 2..Len(s), SignedBefore(s, i)
  PROVE  SignedBefore(Append(s, e), i)
<1> DEFINE t == Append(s, e)
<1>1. i - 1 \in 1..Len(s) /\ i \in 1..Len(s)
  OBVIOUS
<1>2. /\ t[i - 1] = s[i - 1] /\ t[i] = s[i]
      /\ \A k \in 1..Len(s) : t[k] = s[k]
  BY <1>1, AppendSeq
<1>3. ThinkingDeltas(t, i) = ThinkingDeltas(s, i)
  BY <1>1, EventAppended
<1>4. \A k \in ThinkingDeltas(s, i) : t[k] = s[k]
  BY <1>1, <1>2 DEF ThinkingDeltas
<1> QED
  BY <1>2, <1>3, <1>4 DEF SignedBefore

\* A longer stream is signed if the shorter one is, and the new event, if a stop,
\* is of a block that needs no signature or comes right after it, and if a start,
\* of a block that was not closed before.
LEMMA SigningExtends ==
  ASSUME NEW s \in Seq(Event), Len(s) >= 1, ~IsStop(s[1]), Signed(s), NEW e \in Event,
         IsStop(e) => \/ SignedBefore(Append(s, e), Len(s) + 1)
                      \/ \A j \in 1..Len(s) :
                           IsStart(s[j]) /\ s[j].index = e.index => s[j].kind # "thinking",
         IsStart(e) => ~IsStop(e) /\ \A i \in 1..Len(s) : IsStop(s[i]) => s[i].index # e.index
  PROVE  Signed(Append(s, e)) /\ Len(Append(s, e)) >= 1 /\ ~IsStop(Append(s, e)[1])
<1> DEFINE t == Append(s, e)
           n == Len(s) + 1
<1>1. /\ Len(s) \in Nat /\ Len(t) = n /\ t[n] = e
      /\ \A i \in 1..Len(s) : t[i] = s[i]
  BY AppendSeq
<1>0. Len(t) >= 1 /\ ~IsStop(t[1])
  BY <1>1
<1> SUFFICES ASSUME NEW i \in 1..Len(t), NEW j \in 1..Len(t),
                    IsStop(t[i]), IsStart(t[j]), t[i].index = t[j].index,
                    t[j].kind = "thinking"
             PROVE  SignedBefore(t, i)
  BY <1>0 DEF Signed
<1>2. (i \in 1..Len(s) \/ i = n) /\ (j \in 1..Len(s) \/ j = n)
  BY <1>1
<1>3. CASE i \in 1..Len(s) /\ j \in 1..Len(s)
  <2>1. t[i] = s[i] /\ t[j] = s[j]
    BY <1>1, <1>3
  <2>2. SignedBefore(s, i)
    BY <1>3, <2>1 DEF Signed
  <2>3. i \in 2..Len(s)
    BY <1>3, <2>1
  <2> QED
    BY <2>2, <2>3, SignatureKept
<1>4. CASE i \in 1..Len(s) /\ j = n
  BY <1>1, <1>4
<1>5. CASE i = n /\ j \in 1..Len(s)
  <2>1. IsStop(e) /\ IsStart(s[j]) /\ s[j].index = e.index /\ s[j].kind = "thinking"
    BY <1>1, <1>5
  <2>2. SignedBefore(t, n)
    BY <1>5, <2>1
  <2> QED
    BY <1>5, <2>2
<1>6. CASE i = n /\ j = n
  BY <1>1, <1>6
<1> QED
  BY <1>2, <1>3, <1>4, <1>5, <1>6

\* Two starts never have the same number, so a number has one kind.
LEMMA OneKind ==
  ASSUME NEW s \in Seq(Event), NEW kind, NEW index, NEW next, NEW last,
         WellFormed(s, kind, index, next, last), kind # None,
         NEW j \in 1..Len(s), IsStart(s[j]), s[j].index = index
  PROVE  s[j].kind = kind
<1>1. PICK i \in 1..Len(s) : IsStart(s[i]) /\ s[i].index = index /\ s[i].kind = kind
  BY DEF WellFormed, OpenUntil
<1>2. s[i].index \in Nat
  BY <1>1, StartType
<1>3. FollowsPrevious(s, i) /\ FollowsPrevious(s, j)
  BY <1>1 DEF WellFormed, Numbered
<1>4. ~(i < j) /\ ~(j < i)
  <2>1. i < j => s[i].index < s[j].index
    BY <1>1, <1>3 DEF FollowsPrevious
  <2>2. j < i => s[j].index < s[i].index
    BY <1>1, <1>3 DEF FollowsPrevious
  <2> QED
    BY <1>1, <1>2, <2>1, <2>2
<1>5. i = j
  BY <1>4
<1> QED
  BY <1>1, <1>5

\* A block that was closed has a number below the next.
LEMMA StopsBelow ==
  ASSUME NEW s \in Seq(Event), NEW kind, NEW index, NEW next, NEW last,
         WellFormed(s, kind, index, next, last),
         NEW i \in 1..Len(s), IsStop(s[i])
  PROVE  s[i].index < next
<1>1. PICK j \in 1..(i - 1) : OpenUntil(s, j, i) /\ s[j].index = s[i].index
  BY DEF WellFormed, Disciplined, StopIsOfOpenBlock
<1>2. j \in 1..Len(s) /\ IsStart(s[j])
  BY <1>1 DEF OpenUntil
<1> QED
  BY <1>1, <1>2 DEF WellFormed
LEMMA PlainSigned ==
  ASSUME NEW s \in Seq(Event), NEW text, SignedSoFar(s, text), NEW e \in Event,
         ~IsStart(e), ~IsStop(e), IsDelta(e) => e.delta # "thinking_delta"
  PROVE  SignedSoFar(Append(s, e), text)
<1>1. /\ Signed(Append(s, e)) /\ Len(Append(s, e)) >= 1 /\ ~IsStop(Append(s, e)[1])
  BY SigningExtends DEF SignedSoFar
<1>2. Reasoned(Append(s, e), text)
  BY NoReasoningAdded DEF SignedSoFar
<1> QED
  BY <1>1, <1>2 DEF SignedSoFar

LEMMA ThoughtSigned ==
  ASSUME NEW s \in Seq(Event), NEW text \in Seq(Texts), SignedSoFar(s, text),
         NEW e \in Event, IsDelta(e), ~IsStart(e), ~IsStop(e), e.delta = "thinking_delta",
         NEW chunk \in Texts, e.payload[1] = chunk
  PROVE  SignedSoFar(Append(s, e), Append(text, chunk))
<1>1. /\ Signed(Append(s, e)) /\ Len(Append(s, e)) >= 1 /\ ~IsStop(Append(s, e)[1])
  BY SigningExtends DEF SignedSoFar
<1>2. Reasoned(Append(s, e), Append(text, chunk))
  BY ReasoningAdded DEF SignedSoFar
<1> QED
  BY <1>1, <1>2 DEF SignedSoFar

LEMMA StartSigned ==
  ASSUME NEW s \in Seq(Event), NEW text, SignedSoFar(s, text), NEW e \in Event,
         IsStart(e), ~IsStop(e), ~IsDelta(e),
         \A i \in 1..Len(s) : IsStop(s[i]) => s[i].index # e.index
  PROVE  SignedSoFar(Append(s, e), text)
<1>1. /\ Signed(Append(s, e)) /\ Len(Append(s, e)) >= 1 /\ ~IsStop(Append(s, e)[1])
  BY SigningExtends DEF SignedSoFar
<1>2. Reasoned(Append(s, e), text)
  BY NoReasoningAdded DEF SignedSoFar
<1> QED
  BY <1>1, <1>2 DEF SignedSoFar

LEMMA StopSigned ==
  ASSUME NEW s \in Seq(Event), NEW text, SignedSoFar(s, text), NEW e \in Event,
         IsStop(e), ~IsStart(e), ~IsDelta(e),
         \/ SignedBefore(Append(s, e), Len(s) + 1)
         \/ \A j \in 1..Len(s) : IsStart(s[j]) /\ s[j].index = e.index => s[j].kind # "thinking"
  PROVE  SignedSoFar(Append(s, e), text)
<1>1. /\ Signed(Append(s, e)) /\ Len(Append(s, e)) >= 1 /\ ~IsStop(Append(s, e)[1])
  BY SigningExtends DEF SignedSoFar
<1>2. Reasoned(Append(s, e), text)
  BY NoReasoningAdded DEF SignedSoFar
<1> QED
  BY <1>1, <1>2 DEF SignedSoFar

\* closeBlock signs a thinking block, with all that was thought, and closes it.
LEMMA CloseBlockSigns ==
  ASSUME TypeOK, NEW last, Bookkept(last), SigningInv
  PROVE  SignedSoFar(CloseBlock(out), thinkingText)
<1> DEFINE signature == BlockDelta(openIndex, "signature_delta", thinkingText)
           stop == BlockStop(openIndex)
<1>1. /\ out \in Seq(Event) /\ openIndex \in Nat /\ openType \in {None, "text", "thinking"}
      /\ thinkingText \in Seq(Texts \cup JSONTexts)
  BY SeqOfSubset DEF TypeOK
<1>2. WellFormed(out, openType, openIndex, nextIndex, last)
  BY DEF Bookkept
<1>3. /\ stop \in Event /\ IsStop(stop) /\ ~IsStart(stop) /\ ~IsDelta(stop)
      /\ stop.index = openIndex
  BY <1>1, EventTypes DEF BlockStop, IsStop, IsStart, IsDelta
<1>4. /\ signature \in Event /\ IsDelta(signature) /\ ~IsStop(signature) /\ ~IsStart(signature)
      /\ signature.index = openIndex /\ signature.delta = "signature_delta"
      /\ signature.payload = thinkingText
  BY <1>1, EventTypes DEF BlockDelta, IsStop, IsStart, IsDelta
<1>5. SignedSoFar(out, thinkingText)
  BY DEF SigningInv
<1> HIDE DEF signature, stop
<1>6. CASE openType = None
  <2>1. CloseBlock(out) = out
    BY <1>6 DEF CloseBlock, None
  <2> QED
    BY <1>5, <2>1
<1>7. CASE openType = "text"
  <2>1. CloseBlock(out) = Append(out, stop)
    BY <1>7 DEF CloseBlock, None, stop
  <2>2. \A j \in 1..Len(out) : IsStart(out[j]) /\ out[j].index = stop.index
                                 => out[j].kind # "thinking"
    <3>1. openType # None
      BY <1>7 DEF None
    <3>2. \A j \in 1..Len(out) : IsStart(out[j]) /\ out[j].index = openIndex
                                   => out[j].kind = openType
      BY <1>1, <1>2, <3>1, OneKind
    <3> QED
      BY <1>3, <1>7, <3>2
  <2>3. SignedSoFar(Append(out, stop), thinkingText)
    BY <1>1, <1>3, <1>5, <2>2, StopSigned
  <2> QED
    BY <2>1, <2>3
<1>8. CASE openType = "thinking"
  <2> DEFINE s == Append(out, signature)
             t == Append(s, stop)
  <2>1. CloseBlock(out) = t
    BY <1>8 DEF CloseBlock, None, stop, signature
  <2>2. s \in Seq(Event) /\ Len(s) = Len(out) + 1 /\ s[Len(out) + 1] = signature
    BY <1>1, <1>4, AppendSeq
  <2>3. SignedSoFar(s, thinkingText)
    BY <1>1, <1>4, <1>5, PlainSigned
  <2> HIDE DEF s
  <2>4. Reasoned(t, thinkingText)
    BY <1>3, <2>2, <2>3, NoReasoningAdded DEF SignedSoFar
  <2>5. /\ Len(t) = Len(s) + 1 /\ t[Len(s) + 1] = stop /\ t[Len(s)] = signature
        /\ Len(s) \in Nat
    BY <1>1, <1>3, <2>2, AppendSeq
  <2>6. SignedBefore(t, Len(s) + 1)
    <3>1. (Len(s) + 1) - 1 = Len(s)
      BY <2>5
    <3> QED
      BY <1>3, <1>4, <2>4, <2>5, <3>1 DEF SignedBefore, Reasoned
  <2>7. SignedSoFar(t, thinkingText)
    BY <1>3, <2>2, <2>3, <2>6, StopSigned
  <2> QED
    BY <2>1, <2>7
<1> QED
  BY <1>1, <1>6, <1>7, <1>8


LEMMA InitSigning == Init => SigningInv
<1> SUFFICES ASSUME Init PROVE SigningInv
  OBVIOUS
<1>1. Len(thinkingText) = 0 /\ Len(out) = 1 /\ out[1] = MessageStart
  BY NothingIsSeq DEF Init
<1>2. ~IsStop(out[1]) /\ ~IsDelta(out[1])
  BY <1>1 DEF IsStop, IsDelta, MessageStart
<1>3. Signed(out)
  BY <1>1, <1>2 DEF Signed
<1>4. ThinkingDeltas(out, Len(out)) = {}
  BY <1>1, <1>2 DEF ThinkingDeltas
<1> QED
  BY <1>1, <1>2, <1>3, <1>4, FS_EmptySet DEF SigningInv, SignedSoFar, Reasoned

LEMMA NextSigning == IInv /\ SigningInv /\ [Next]_vars => SigningInv'
<1> SUFFICES ASSUME IInv, SigningInv, [Next]_vars PROVE SigningInv'
  OBVIOUS
<1>1. TypeOK
  BY DEF IInv
<1>2. PICK last \in Kinds : Bookkept(last)
  BY DEF IInv
<1>3. /\ out \in Seq(Event) /\ CloseBlock(out) \in Seq(Event)
      /\ nextIndex \in Nat /\ openIndex \in Nat /\ thinkingText \in Seq(Texts)
  BY <1>1, CloseBlockType DEF TypeOK
<1>4. SignedSoFar(out, thinkingText) /\ SignedSoFar(CloseBlock(out), thinkingText)
  BY <1>1, <1>2, CloseBlockSigns DEF SigningInv
<1>5. WellFormed(CloseBlock(out), None, openIndex, nextIndex, last)
  BY <1>1, <1>2, CloseBlockFits
\* Opening the next block.
<1> DEFINE s(k) == Append(CloseBlock(out), BlockStart(nextIndex, k))
<1>6. ASSUME NEW k \in Kinds
      PROVE  s(k) \in Seq(Event) /\ SignedSoFar(s(k), thinkingText)
  <2> DEFINE start == BlockStart(nextIndex, k)
  <2>1. /\ start \in Event /\ IsStart(start) /\ ~IsStop(start) /\ ~IsDelta(start)
        /\ start.index = nextIndex
    BY <1>3, EventTypes DEF BlockStart, IsStart, IsStop, IsDelta
  <2>2. ASSUME NEW i \in 1..Len(CloseBlock(out)), IsStop(CloseBlock(out)[i])
        PROVE  CloseBlock(out)[i].index # start.index
    <3> DEFINE n == CloseBlock(out)[i].index
    <3>1. n < nextIndex
      BY <1>3, <1>5, <2>2, StopsBelow
    <3>2. n # nextIndex
      BY <1>3, <3>1
    <3> QED
      BY <2>1, <3>2
  <2> QED
    BY <1>3, <1>4, <2>1, <2>2, AppendSeq, StartSigned
<1> HIDE DEF s
<1>7. CASE UNCHANGED <<thinkingText, out>>
  BY <1>7 DEF SigningInv
<1>8. ASSUME NEW kind \in {"text", "thinking"}, NEW text \in Texts, FeedDelta(kind, text)
      PROVE  SigningInv'
  <2> DEFINE delta(i) == BlockDelta(i, DeltaOf(kind), <<text>>)
  <2>1. ASSUME NEW i \in Nat
        PROVE  /\ delta(i) \in Event
               /\ IsDelta(delta(i)) /\ ~IsStart(delta(i)) /\ ~IsStop(delta(i))
               /\ delta(i).delta = DeltaOf(kind) /\ delta(i).payload[1] = text
    <3>1. <<text>> \in Seq(Texts \cup JSONTexts) /\ <<text>>[1] = text
      BY SingletonSeq
    <3>2. delta(i) \in Event
      BY <3>1, EventTypes DEF DeltaOf
    <3> QED
      BY <3>1, <3>2 DEF IsDelta, IsStart, IsStop, BlockDelta
  <2>2. out' = Append(out, delta(openIndex)) \/ out' = Append(s(kind), delta(nextIndex))
    BY <1>8, Zenon DEF FeedDelta, s
  <2>3. /\ kind = "text" => thinkingText' = thinkingText
        /\ kind = "thinking" => thinkingText' = Append(thinkingText, text)
    BY <1>8 DEF FeedDelta
  <2>4. kind \in Kinds
    BY DEF Kinds
  <2> HIDE DEF delta
  <2>5. CASE kind = "text"
    <3>1. \A i \in Nat : delta(i).delta # "thinking_delta"
      BY <2>1, <2>5 DEF DeltaOf
    <3>2. SignedSoFar(Append(out, delta(openIndex)), thinkingText)
      BY <1>3, <1>4, <2>1, <3>1, PlainSigned
    <3>3. SignedSoFar(Append(s(kind), delta(nextIndex)), thinkingText)
      BY <1>3, <1>6, <2>1, <2>4, <3>1, PlainSigned
    <3> QED
      BY <2>2, <2>3, <2>5, <3>2, <3>3 DEF SigningInv
  <2>6. CASE kind = "thinking"
    <3>1. \A i \in Nat : delta(i).delta = "thinking_delta"
      BY <2>1, <2>6 DEF DeltaOf
    <3>2. SignedSoFar(Append(out, delta(openIndex)), Append(thinkingText, text))
      BY <1>3, <1>4, <2>1, <3>1, ThoughtSigned
    <3>3. SignedSoFar(Append(s(kind), delta(nextIndex)), Append(thinkingText, text))
      BY <1>3, <1>6, <2>1, <2>4, <3>1, ThoughtSigned
    <3> QED
      BY <2>2, <2>3, <2>6, <3>2, <3>3 DEF SigningInv
  <2> QED
    BY <2>5, <2>6
<1>9. ASSUME NEW input \in ToolInputs, FeedToolCall(input) PROVE SigningInv'
  <2> DEFINE delta == BlockDelta(nextIndex, "input_json_delta", <<PartialJSON(input)>>)
             start == BlockStart(nextIndex, "tool_use")
             stop == BlockStop(nextIndex)
             s1 == s("tool_use")
             s2 == Append(s1, delta)
  <2>1. out' = Append(s2, stop) /\ thinkingText' = thinkingText
    BY <1>9 DEF FeedToolCall, s
  <2>2. "tool_use" \in Kinds
    BY DEF Kinds
  <2>3. /\ delta \in Event /\ IsDelta(delta) /\ ~IsStart(delta) /\ ~IsStop(delta)
        /\ delta.delta # "thinking_delta"
    <3>1. <<PartialJSON(input)>> \in Seq(Texts \cup JSONTexts)
      BY PartialJSONType, SingletonSeq
    <3>2. delta \in Event
      BY <1>3, <3>1, EventTypes
    <3> QED
      BY <3>2 DEF IsDelta, IsStart, IsStop, BlockDelta
  <2>4. /\ start \in Event /\ start.kind # "thinking"
        /\ stop \in Event /\ IsStop(stop) /\ ~IsStart(stop) /\ ~IsDelta(stop)
        /\ stop.index = nextIndex
    BY <1>3, <2>2, EventTypes DEF BlockStart, BlockStop, IsStart, IsStop, IsDelta
  <2>5. s1 \in Seq(Event) /\ s1 = Append(CloseBlock(out), start)
    BY <1>6, <2>2 DEF s
  <2> HIDE DEF start, stop, delta
  <2>6. s2 \in Seq(Event) /\ SignedSoFar(s2, thinkingText)
    BY <1>6, <2>2, <2>3, <2>5, AppendSeq, PlainSigned
  <2>7. ASSUME NEW j \in 1..Len(s2), IsStart(s2[j]), s2[j].index = nextIndex
        PROVE  s2[j].kind # "thinking"
    <3> DEFINE c == CloseBlock(out)
    <3>1. /\ Len(s2) = Len(c) + 2 /\ Len(c) \in Nat
          /\ s2[Len(c) + 1] = start /\ s2[Len(c) + 2] = delta
          /\ \A i \in 1..Len(c) : s2[i] = c[i]
      BY <1>3, <2>3, <2>4, <2>5, AppendSeq
    <3>2. j # Len(c) + 2
      BY <2>3, <2>7, <3>1
    <3>3. j \notin 1..Len(c)
      <4>1. \A i \in 1..Len(c) : IsStart(c[i]) => c[i].index < nextIndex
        BY <1>5 DEF WellFormed
      <4>2. ~(nextIndex < nextIndex)
        BY <1>3
      <4> QED
        BY <2>7, <3>1, <4>1, <4>2
    <3>4. j = Len(c) + 1
      BY <3>1, <3>2, <3>3
    <3> QED
      BY <2>4, <3>1, <3>4
  <2> HIDE DEF s2
  <2>8. SignedSoFar(Append(s2, stop), thinkingText)
    BY <2>4, <2>6, <2>7, StopSigned
  <2> QED
    BY <2>1, <2>8 DEF SigningInv
<1>10. ASSUME NEW m \in Messages, FeedError(m) PROVE SigningInv'
  <2> DEFINE e == ErrorEvent(m)
  <2>1. e \in Event /\ ~IsDelta(e) /\ ~IsStart(e) /\ ~IsStop(e)
    BY EventTypes DEF ErrorEvent, IsDelta, IsStart, IsStop
  <2>2. SignedSoFar(Append(out, e), thinkingText)
    BY <1>3, <1>4, <2>1, PlainSigned
  <2> QED
    BY <1>10, <2>2 DEF FeedError, SigningInv, blockVars
<1>11. CASE Finish
  <2> DEFINE end == MessageDelta(stopReason', DeltaUsage(usage, OutputTokens))
             failure == ErrorEvent(ZeroOutput)
             c == CloseBlock(out)
  <2>1. thinkingText' = thinkingText
    BY <1>11 DEF Finish
  <2>2. /\ hasError => out' = out
        /\ ~hasError => out' = Append(c, failure) \/ out' = Append(Append(c, end), MessageStop)
    BY <1>11, Zenon DEF Finish
  <2>3. /\ failure \in Event /\ ~IsDelta(failure) /\ ~IsStart(failure) /\ ~IsStop(failure)
        /\ MessageStop \in Event /\ ~IsDelta(MessageStop)
        /\ ~IsStart(MessageStop) /\ ~IsStop(MessageStop)
    BY EventTypes DEF ErrorEvent, MessageStop, IsDelta, IsStart, IsStop
  <2>4. ~hasError => end \in Event
    BY <1>1, <1>11, EndType
  <2>5. ~IsDelta(end) /\ ~IsStart(end) /\ ~IsStop(end)
    BY DEF MessageDelta, IsDelta, IsStart, IsStop
  <2> HIDE DEF end, failure
  <2>6. SignedSoFar(Append(c, failure), thinkingText)
    BY <1>3, <1>4, <2>3, PlainSigned
  <2>7. ~hasError => SignedSoFar(Append(Append(c, end), MessageStop), thinkingText)
    <3> SUFFICES ASSUME ~hasError
                 PROVE  SignedSoFar(Append(Append(c, end), MessageStop), thinkingText)
      OBVIOUS
    <3>1. Append(c, end) \in Seq(Event) /\ SignedSoFar(Append(c, end), thinkingText)
      BY <1>3, <1>4, <2>4, <2>5, AppendSeq, PlainSigned
    <3> QED
      BY <2>3, <3>1, PlainSigned
  <2> QED
    BY <1>4, <2>1, <2>2, <2>6, <2>7 DEF SigningInv
<1>12. ASSUME \/ FeedIgnored \/ FeedErrorWithoutDetail \/ UNCHANGED vars
              \/ \E reason \in Reasons \cup {None}, u \in OptionalUsage :
                   FeedFinishStep(reason, u) \/ FeedFinish(reason, u)
       PROVE  UNCHANGED <<thinkingText, out>>
  BY <1>12 DEF FeedIgnored, FeedErrorWithoutDetail, FeedFinishStep, FeedFinish, vars, blockVars
<1> QED
  BY <1>7, <1>8, <1>9, <1>10, <1>11, <1>12 DEF Next, Feed

\* A client that keeps a thinking block and sends it back has the signature of what
\* was thought until then: no thinking block is ever closed unsigned or signed late.
THEOREM ThinkingSigned == Spec => []SignedThinking
<1>1. SigningInv => SignedThinking
  BY DEF SigningInv, SignedSoFar, SignedThinking
<1>2. QED
  BY <1>1, InitBlocks, NextBlocks, InitSigning, NextSigning, PTL DEF Spec
---------------------------------------------------------------------------
(* The end.                                                                *)
(*                                                                         *)
(* The finish fields are what the lines call for at any time, so that      *)
(* Finish reports it whenever it is called; until then no event ends the   *)
(* message and no block but the open one is left unclosed.                 *)

Accounts ==
  /\ hasUsage <=> UsageLines(fed) # {}
  /\ hasUsage => usage = fed[Latest(UsageLines(fed))].usage[1]
  /\ outEstimate = Cardinality(ChunkLines(fed)) + 20 * Cardinality(ToolLines(fed))
  /\ stepReasonSet <=> StepReasons(fed) # {}
  /\ stopReason # None => stopReason = ReasonReported
  /\ stopReason = None => StepReasons(fed) = {} /\ FinishReasons(fed) = {}

LEMMA MappedReason == \A r : MapStopReason(r) # None
BY DEF MapStopReason, None

\* What is looked up in the lines stays where it is.
LEMMA LatestKept ==
  ASSUME NEW f \in Seq(Line), NEW l \in Line, NEW P, P \subseteq 1..Len(f), P # {}
  PROVE  Append(f, l)[Latest(P)] = f[Latest(P)]
<1>1. Len(f) \in Nat
  OBVIOUS
<1>2. Latest(P) \in 1..Len(f)
  BY <1>1, LatestIs
<1> QED
  BY <1>2, AppendSeq

\* Lines that bring neither a reason nor a usage leave both as they are.
LEMMA ReportKept ==
  ASSUME NEW l \in Line, fed \in Seq(Line), fed' = Append(fed, l)
  PROVE  /\ ~(l.type \in {"finish-step", "finish"} /\ l.reason # None)
              => /\ StepReasons(fed)' = StepReasons(fed)
                 /\ FinishReasons(fed)' = FinishReasons(fed)
                 /\ ReasonReported' = ReasonReported
         /\ ~(l.type \in {"finish-step", "finish"} /\ l.usage # <<>>)
              => /\ UsageLines(fed)' = UsageLines(fed)
                 /\ UsageLines(fed) # {}
                      => fed'[Latest(UsageLines(fed)')] = fed[Latest(UsageLines(fed))]
<1> DEFINE n == Len(fed) + 1
<1>1. /\ StepReasons(fed') = (IF l.type = "finish-step" /\ l.reason # None
                              THEN StepReasons(fed) \cup {n} ELSE StepReasons(fed))
      /\ FinishReasons(fed') = (IF l.type = "finish" /\ l.reason # None
                                THEN FinishReasons(fed) \cup {n} ELSE FinishReasons(fed))
      /\ UsageLines(fed') =
           (IF l.type \in {"finish-step", "finish"} /\ l.usage # <<>>
            THEN UsageLines(fed) \cup {n} ELSE UsageLines(fed))
  BY LineAppended
<1>2. /\ StepReasons(fed) \subseteq 1..Len(fed) /\ FinishReasons(fed) \subseteq 1..Len(fed)
      /\ UsageLines(fed) \subseteq 1..Len(fed)
  BY LinePositions
<1>3. /\ StepReasons(fed) # {} => fed'[Latest(StepReasons(fed))] = fed[Latest(StepReasons(fed))]
      /\ FinishReasons(fed) # {}
           => fed'[Latest(FinishReasons(fed))] = fed[Latest(FinishReasons(fed))]
      /\ UsageLines(fed) # {} => fed'[Latest(UsageLines(fed))] = fed[Latest(UsageLines(fed))]
  BY <1>2, LatestKept
<1>4. ASSUME ~(l.type \in {"finish-step", "finish"} /\ l.reason # None)
      PROVE  /\ StepReasons(fed') = StepReasons(fed)
             /\ FinishReasons(fed') = FinishReasons(fed)
             /\ ReasonReported' = ReasonReported
  <2>1. StepReasons(fed') = StepReasons(fed) /\ FinishReasons(fed') = FinishReasons(fed)
    BY <1>1, <1>4
  <2> QED
    BY <1>3, <2>1 DEF ReasonReported
<1>5. ASSUME ~(l.type \in {"finish-step", "finish"} /\ l.usage # <<>>)
      PROVE  UsageLines(fed') = UsageLines(fed)
  BY <1>1, <1>5
<1> QED
  BY <1>3, <1>4, <1>5

\* Other lines than chunks and tool calls leave the estimate as it is.
LEMMA EstimateGrows ==
  ASSUME NEW l \in Line, fed \in Seq(Line), fed' = Append(fed, l), outEstimate \in Nat,
         outEstimate = Cardinality(ChunkLines(fed)) + 20 * Cardinality(ToolLines(fed)),
         outEstimate' = outEstimate + (IF l.type \in {"text", "thinking"} THEN 1
                                       ELSE IF l.type = "tool-call" THEN 20 ELSE 0)
  PROVE  (outEstimate = Cardinality(ChunkLines(fed)) + 20 * Cardinality(ToolLines(fed)))'
<1> DEFINE n == Len(fed) + 1
           P == ChunkLines(fed)
           Q == ToolLines(fed)
<1>1. /\ ChunkLines(fed') = (IF l.type \in {"text", "thinking"} THEN P \cup {n} ELSE P)
      /\ ToolLines(fed') = (IF l.type = "tool-call" THEN Q \cup {n} ELSE Q)
  <2>1. /\ Len(fed') = n /\ fed'[n] = l /\ Len(fed) \in Nat
        /\ 1..Len(fed') = 1..Len(fed) \cup {n}
        /\ \A i \in 1..Len(fed) : fed'[i] = fed[i]
    BY AppendSeq
  <2> QED
    BY <2>1 DEF ChunkLines, ToolLines
<1>2. P \subseteq 1..Len(fed) /\ Q \subseteq 1..Len(fed) /\ Len(fed) \in Nat
  BY LinePositions
<1>3. /\ Cardinality(P) \in Nat /\ Cardinality(P \cup {n}) = Cardinality(P) + 1
      /\ Cardinality(Q) \in Nat /\ Cardinality(Q \cup {n}) = Cardinality(Q) + 1
  BY <1>2, PositionsFinite, PositionAdded
<1> HIDE DEF P, Q, n
<1>4. CASE l.type \in {"text", "thinking"}
  <2>1. ChunkLines(fed') = P \cup {n} /\ ToolLines(fed') = Q /\ outEstimate' = outEstimate + 1
    BY <1>1, <1>4
  <2> QED
    BY <1>3, <2>1 DEF P, Q
<1>5. CASE l.type = "tool-call"
  <2>1. ChunkLines(fed') = P /\ ToolLines(fed') = Q \cup {n} /\ outEstimate' = outEstimate + 20
    BY <1>1, <1>5
  <2> QED
    BY <1>3, <2>1 DEF P, Q
<1>6. CASE l.type \notin {"text", "thinking", "tool-call"}
  <2>1. ChunkLines(fed') = P /\ ToolLines(fed') = Q /\ outEstimate' = outEstimate
    BY <1>1, <1>6
  <2> QED
    BY <2>1 DEF P, Q
<1> QED
  BY <1>4, <1>5, <1>6

\* A line that is no finish line leaves the finish fields, and what is called for.
LEMMA AccountsBeforeFinish ==
  ASSUME TypeOK, Accounts, NEW l \in Line, fed' = Append(fed, l),
         l.type \notin {"finish-step", "finish"}, UNCHANGED finishVars,
         outEstimate' = outEstimate + (IF l.type \in {"text", "thinking"} THEN 1
                                       ELSE IF l.type = "tool-call" THEN 20 ELSE 0)
  PROVE  Accounts'
<1>1. fed \in Seq(Line) /\ outEstimate \in Nat
  BY DEF TypeOK
<1>2. (outEstimate = Cardinality(ChunkLines(fed)) + 20 * Cardinality(ToolLines(fed)))'
  BY <1>1, EstimateGrows DEF Accounts
<1>3. /\ StepReasons(fed)' = StepReasons(fed) /\ FinishReasons(fed)' = FinishReasons(fed)
      /\ ReasonReported' = ReasonReported
      /\ UsageLines(fed)' = UsageLines(fed)
      /\ UsageLines(fed) # {} => fed'[Latest(UsageLines(fed)')] = fed[Latest(UsageLines(fed))]
  BY <1>1, ReportKept
<1>4. UNCHANGED <<usage, hasUsage, stopReason, stepReasonSet>>
  BY DEF finishVars
<1> QED
  BY <1>2, <1>3, <1>4 DEF Accounts

\* A finish line with a usage object: it is the latest.
LEMMA UsageTaken ==
  ASSUME TypeOK, Accounts, NEW l \in Line, fed' = Append(fed, l),
         l.type \in {"finish-step", "finish"}, NEW u, l.usage = u,
         IF u = <<>> THEN UNCHANGED <<usage, hasUsage>> ELSE usage' = u[1] /\ hasUsage' = TRUE
  PROVE  /\ (hasUsage <=> UsageLines(fed) # {})'
         /\ (hasUsage => usage = fed[Latest(UsageLines(fed))].usage[1])'
<1>1. fed \in Seq(Line)
  BY DEF TypeOK
<1>2. CASE u = <<>>
  <2>1. /\ UsageLines(fed)' = UsageLines(fed)
        /\ UsageLines(fed) # {} => fed'[Latest(UsageLines(fed)')] = fed[Latest(UsageLines(fed))]
    BY <1>1, <1>2, ReportKept
  <2> QED
    BY <1>2, <2>1 DEF Accounts
<1>3. CASE u # <<>>
  <2> DEFINE n == Len(fed) + 1
  <2>1. UsageLines(fed') = (IF l.type \in {"finish-step", "finish"} /\ l.usage # <<>>
                            THEN UsageLines(fed) \cup {n} ELSE UsageLines(fed))
    BY <1>1, LineAppended
  <2>2. UsageLines(fed') = UsageLines(fed) \cup {n}
    BY <1>3, <2>1
  <2>3. UsageLines(fed) \subseteq 1..Len(fed) /\ Len(fed) \in Nat /\ fed'[n] = l
    BY <1>1, LinePositions, AppendSeq
  <2>4. Latest(UsageLines(fed')) = n
    BY <2>2, <2>3, LatestAdded
  <2> QED
    BY <1>3, <2>2, <2>3, <2>4
<1> QED
  BY <1>2, <1>3
\* A finish-step with a reason: it is what is called for from then on.
LEMMA StepReasonTaken ==
  ASSUME fed \in Seq(Line), NEW l \in Line, fed' = Append(fed, l),
         l.type = "finish-step", l.reason # None
  PROVE  StepReasons(fed)' # {} /\ ReasonReported' = MapStopReason(l.reason)
<1> DEFINE n == Len(fed) + 1
<1>1. StepReasons(fed') = StepReasons(fed) \cup {n}
  <2>1. /\ Len(fed') = n /\ fed'[n] = l /\ Len(fed) \in Nat
        /\ 1..Len(fed') = 1..Len(fed) \cup {n}
        /\ \A i \in 1..Len(fed) : fed'[i] = fed[i]
    BY AppendSeq
  <2> QED
    BY <2>1 DEF StepReasons
<1>2. StepReasons(fed) \subseteq 1..Len(fed) /\ Len(fed) \in Nat /\ fed'[n] = l
  BY LinePositions, AppendSeq
<1>3. Latest(StepReasons(fed')) = n
  BY <1>1, <1>2, LatestAdded
<1> QED
  BY <1>1, <1>2, <1>3 DEF ReasonReported

\* A finish with a reason is called for unless a finish-step gave one.
LEMMA FinishReasonTaken ==
  ASSUME fed \in Seq(Line), NEW l \in Line, fed' = Append(fed, l),
         l.type = "finish", l.reason # None
  PROVE  /\ StepReasons(fed)' = StepReasons(fed)
         /\ StepReasons(fed) # {} => ReasonReported' = ReasonReported
         /\ StepReasons(fed) = {} => ReasonReported' = MapStopReason(l.reason)
<1> DEFINE n == Len(fed) + 1
<1>1. /\ StepReasons(fed') = StepReasons(fed)
      /\ FinishReasons(fed') = FinishReasons(fed) \cup {n}
  BY LineAppended
<1>2. /\ StepReasons(fed) \subseteq 1..Len(fed) /\ FinishReasons(fed) \subseteq 1..Len(fed)
      /\ Len(fed) \in Nat /\ fed'[n] = l
  BY LinePositions, AppendSeq
<1>3. Latest(FinishReasons(fed')) = n
  BY <1>1, <1>2, LatestAdded
<1>4. StepReasons(fed) # {} => fed'[Latest(StepReasons(fed))] = fed[Latest(StepReasons(fed))]
  BY <1>2, LatestKept
<1>5. StepReasons(fed) # {} => ReasonReported' = ReasonReported
  BY <1>1, <1>4 DEF ReasonReported
<1>6. StepReasons(fed) = {} => ReasonReported' = MapStopReason(l.reason)
  BY <1>1, <1>2, <1>3 DEF ReasonReported
<1> QED
  BY <1>1, <1>5, <1>6

LEMMA InitAccounts == Init => Accounts
<1> SUFFICES ASSUME Init PROVE Accounts
  OBVIOUS
<1>1. Len(fed) = 0
  BY NothingIsSeq DEF Init
<1>2. /\ UsageLines(fed) = {} /\ ChunkLines(fed) = {} /\ ToolLines(fed) = {}
      /\ StepReasons(fed) = {} /\ FinishReasons(fed) = {}
  BY <1>1 DEF UsageLines, ChunkLines, ToolLines, StepReasons, FinishReasons
<1>3. Cardinality(ChunkLines(fed)) + 20 * Cardinality(ToolLines(fed)) = 0
  BY <1>2, FS_EmptySet
<1>4. ~hasUsage /\ outEstimate = 0 /\ ~stepReasonSet /\ stopReason = None
  BY DEF Init
<1> QED
  BY <1>2, <1>3, <1>4 DEF Accounts

LEMMA NextAccounts == TypeOK /\ Accounts /\ [Next]_vars => Accounts'
<1> SUFFICES ASSUME TypeOK, Accounts, [Next]_vars PROVE Accounts'
  OBVIOUS
<1>1. fed \in Seq(Line) /\ outEstimate \in Nat
  BY DEF TypeOK
<1>2. ASSUME NEW l \in Line, fed' = Append(fed, l), l.type \in {"ignored", "error"},
             UNCHANGED <<finishVars, outEstimate>>
      PROVE  Accounts'
  BY <1>1, <1>2, AccountsBeforeFinish
<1>3. CASE FeedIgnored
  <2>1. [type |-> "ignored"] \in Line
    BY DEF Line
  <2> QED
    BY <1>2, <1>3, <2>1 DEF FeedIgnored, Take
<1>4. ASSUME NEW kind \in {"text", "thinking"}, NEW text \in Texts, FeedDelta(kind, text)
      PROVE  Accounts'
  <2> DEFINE l == [type |-> kind, text |-> text]
  <2>1. l \in Line /\ l.type \in {"text", "thinking"}
    BY DEF Line
  <2>2. fed' = Append(fed, l) /\ UNCHANGED finishVars /\ outEstimate' = outEstimate + 1
    BY <1>4 DEF FeedDelta, Take
  <2> HIDE DEF l
  <2> QED
    BY <2>1, <2>2, AccountsBeforeFinish
<1>5. ASSUME NEW input \in ToolInputs, FeedToolCall(input) PROVE Accounts'
  <2> DEFINE l == [type |-> "tool-call", input |-> input]
  <2>1. l \in Line /\ l.type = "tool-call"
    BY DEF Line
  <2>2. fed' = Append(fed, l) /\ UNCHANGED finishVars /\ outEstimate' = outEstimate + 20
    BY <1>5 DEF FeedToolCall, Take
  <2> HIDE DEF l
  <2> QED
    BY <2>1, <2>2, AccountsBeforeFinish
<1>6. ASSUME NEW reason \in Reasons \cup {None}, NEW u \in OptionalUsage,
             FeedFinishStep(reason, u)
      PROVE  Accounts'
  <2> DEFINE l == [type |-> "finish-step", reason |-> reason, usage |-> u]
  <2>1. l \in Line /\ l.type = "finish-step" /\ l.reason = reason /\ l.usage = u
    BY DEF Line
  <2>2. /\ fed' = Append(fed, l) /\ outEstimate' = outEstimate
        /\ IF reason = None THEN UNCHANGED <<stopReason, stepReasonSet>>
           ELSE stopReason' = MapStopReason(reason) /\ stepReasonSet' = TRUE
        /\ IF u = <<>> THEN UNCHANGED <<usage, hasUsage>> ELSE usage' = u[1] /\ hasUsage' = TRUE
    BY <1>6 DEF FeedFinishStep, Take
  <2> HIDE DEF l
  <2>3. (outEstimate = Cardinality(ChunkLines(fed)) + 20 * Cardinality(ToolLines(fed)))'
    BY <1>1, <2>1, <2>2, EstimateGrows DEF Accounts
  <2>4. /\ (hasUsage <=> UsageLines(fed) # {})'
        /\ (hasUsage => usage = fed[Latest(UsageLines(fed))].usage[1])'
    BY <2>1, <2>2, UsageTaken
  <2>5. CASE reason = None
    <3>1. /\ StepReasons(fed)' = StepReasons(fed) /\ FinishReasons(fed)' = FinishReasons(fed)
          /\ ReasonReported' = ReasonReported
      BY <1>1, <2>1, <2>2, <2>5, ReportKept
    <3> QED
      BY <2>2, <2>3, <2>4, <2>5, <3>1 DEF Accounts
  <2>6. CASE reason # None
    <3>1. StepReasons(fed)' # {} /\ ReasonReported' = MapStopReason(reason)
      BY <1>1, <2>1, <2>2, <2>6, StepReasonTaken
    <3>2. stopReason' # None
      BY <2>2, <2>6, MappedReason
    <3> QED
      BY <2>2, <2>3, <2>4, <2>6, <3>1, <3>2 DEF Accounts
  <2> QED
    BY <2>5, <2>6
<1>7. ASSUME NEW reason \in Reasons \cup {None}, NEW u \in OptionalUsage,
             FeedFinish(reason, u)
      PROVE  Accounts'
  <2> DEFINE l == [type |-> "finish", reason |-> reason, usage |-> u]
  <2>1. l \in Line /\ l.type = "finish" /\ l.reason = reason /\ l.usage = u
    BY DEF Line
  <2>2. /\ fed' = Append(fed, l) /\ outEstimate' = outEstimate /\ stepReasonSet' = stepReasonSet
        /\ IF u = <<>> THEN UNCHANGED <<usage, hasUsage>> ELSE usage' = u[1] /\ hasUsage' = TRUE
    BY <1>7 DEF FeedFinish, Take
  <2>3. /\ stepReasonSet => stopReason' = stopReason
        /\ ~stepReasonSet /\ reason # None => stopReason' = MapStopReason(reason)
        /\ ~stepReasonSet /\ reason = None /\ stopReason = None => stopReason' = "end_turn"
        /\ ~stepReasonSet /\ reason = None /\ stopReason # None => stopReason' = stopReason
    BY <1>7 DEF FeedFinish
  <2> HIDE DEF l
  <2>4. (outEstimate = Cardinality(ChunkLines(fed)) + 20 * Cardinality(ToolLines(fed)))'
    BY <1>1, <2>1, <2>2, EstimateGrows DEF Accounts
  <2>5. /\ (hasUsage <=> UsageLines(fed) # {})'
        /\ (hasUsage => usage = fed[Latest(UsageLines(fed))].usage[1])'
    BY <2>1, <2>2, UsageTaken
  <2>6. CASE reason = None
    <3>1. /\ StepReasons(fed)' = StepReasons(fed) /\ FinishReasons(fed)' = FinishReasons(fed)
          /\ ReasonReported' = ReasonReported
      BY <1>1, <2>1, <2>2, <2>6, ReportKept
    <3>2. CASE stopReason = None
      <4>1. StepReasons(fed) = {} /\ FinishReasons(fed) = {} /\ ~stepReasonSet
        BY <3>2 DEF Accounts
      <4>2. ReasonReported = "end_turn" /\ stopReason' = "end_turn"
        BY <2>3, <2>6, <3>2, <4>1 DEF ReasonReported
      <4>3. "end_turn" # None
        BY DEF None
      <4> QED
        BY <2>2, <2>4, <2>5, <3>1, <4>1, <4>2, <4>3 DEF Accounts
    <3>3. CASE stopReason # None
      <4>1. stopReason' = stopReason
        BY <2>3, <2>6, <3>3
      <4> QED
        BY <2>2, <2>4, <2>5, <3>1, <3>3, <4>1 DEF Accounts
    <3> QED
      BY <3>2, <3>3
  <2>7. CASE reason # None
    <3>1. /\ StepReasons(fed)' = StepReasons(fed)
          /\ StepReasons(fed) # {} => ReasonReported' = ReasonReported
          /\ StepReasons(fed) = {} => ReasonReported' = MapStopReason(reason)
      BY <1>1, <2>1, <2>2, <2>7, FinishReasonTaken
    <3>2. CASE stepReasonSet
      <4>1. stopReason # None /\ stopReason' = stopReason /\ StepReasons(fed) # {}
        BY <2>3, <3>2 DEF Accounts
      <4> QED
        BY <2>2, <2>4, <2>5, <3>1, <4>1 DEF Accounts
    <3>3. CASE ~stepReasonSet
      <4>1. stopReason' = MapStopReason(reason) /\ StepReasons(fed) = {}
        BY <2>3, <2>7, <3>3 DEF Accounts
      <4>2. stopReason' # None
        BY <4>1, MappedReason
      <4> QED
        BY <2>2, <2>4, <2>5, <3>1, <4>1, <4>2 DEF Accounts
    <3> QED
      BY <3>2, <3>3
  <2> QED
    BY <2>6, <2>7
<1>8. ASSUME NEW m \in Messages, FeedError(m) PROVE Accounts'
  <2>1. [type |-> "error", message |-> m] \in Line
    BY DEF Line
  <2> QED
    BY <1>2, <1>8, <2>1 DEF FeedError, Take
<1>9. CASE FeedErrorWithoutDetail
  <2>1. [type |-> "error", message |-> None] \in Line
    BY DEF Line
  <2> QED
    BY <1>2, <1>9, <2>1 DEF FeedErrorWithoutDetail, Take
<1>10. CASE Finish
  <2>1. UNCHANGED <<usage, hasUsage, stepReasonSet, outEstimate, fed>>
    BY <1>10 DEF Finish
  <2>2. \/ stopReason' = stopReason
        \/ stopReason = None /\ stopReason' = "end_turn"
    <3>1. hasError => stopReason' = stopReason
      BY <1>10 DEF Finish
    <3>2. ~hasError => stopReason' = IF stopReason = None THEN "end_turn" ELSE stopReason
      BY <1>10 DEF Finish
    <3>3. CASE hasError
      BY <3>1, <3>3
    <3>4. CASE ~hasError
      <4>1. stopReason' = IF stopReason = None THEN "end_turn" ELSE stopReason
        BY <3>2, <3>4
      <4> QED
        BY <4>1
    <3> QED
      BY <3>3, <3>4
  <2>3. stopReason = None => ReasonReported = "end_turn"
    BY DEF Accounts, ReasonReported
  <2>4. ReasonReported' = ReasonReported
    BY <2>1 DEF ReasonReported
  <2>5. "end_turn" # None
    BY DEF None
  <2> QED
    BY <2>1, <2>2, <2>3, <2>4, <2>5 DEF Accounts
<1>11. CASE UNCHANGED vars
  <2>1. UNCHANGED <<usage, hasUsage, stopReason, stepReasonSet, outEstimate, fed>>
    BY <1>11 DEF vars, finishVars
  <2> QED
    BY <2>1 DEF Accounts, ReasonReported
<1> QED
  BY <1>3, <1>4, <1>5, <1>6, <1>7, <1>8, <1>9, <1>10, <1>11 DEF Next, Feed

\* What Finish reports is what the lines call for.
LEMMA Reported ==
  ASSUME Accounts
  PROVE  /\ OutputTokens = TokensReported
         /\ (IF stopReason = None THEN "end_turn" ELSE stopReason) = ReasonReported
<1>1. OutputTokens = TokensReported
  BY DEF Accounts, OutputTokens, TokensReported
<1>2. (IF stopReason = None THEN "end_turn" ELSE stopReason) = ReasonReported
  BY DEF Accounts, ReasonReported
<1> QED
  BY <1>1, <1>2
\* No event of stream s ends the message.
NoEnd(s) == \A i \in 1..Len(s) : s[i].name \notin {"message_stop", "message_delta"}

\* Every block of s was closed but the one of `kind', if any, with number `index'.
ClosedBut(s, kind, index) ==
  \A j \in 1..Len(s) : IsStart(s[j]) =>
    \/ \E i \in (j + 1)..Len(s) : IsStop(s[i]) /\ s[i].index = s[j].index
    \/ kind # None /\ s[j].index = index

EndsInv ==
  /\ ~(finished /\ ~hasError) => NoEnd(out) /\ ClosedBut(out, openType, openIndex)
  /\ EndsProperly

LEMMA NotAnEnd ==
  ASSUME NEW s \in Seq(Event), NoEnd(s), NEW e \in Event,
         e.name \notin {"message_stop", "message_delta"}
  PROVE  NoEnd(Append(s, e))
<1> DEFINE t == Append(s, e)
<1>1. /\ Len(t) = Len(s) + 1 /\ t[Len(s) + 1] = e
      /\ \A i \in 1..Len(s) : t[i] = s[i]
  BY AppendSeq
<1> QED
  BY <1>1 DEF NoEnd

\* Whatever does not open a block leaves none open that was not.
LEMMA ClosedOther ==
  ASSUME NEW s \in Seq(Event), NEW kind, NEW index, ClosedBut(s, kind, index),
         NEW e \in Event, ~IsStart(e)
  PROVE  ClosedBut(Append(s, e), kind, index)
<1> DEFINE t == Append(s, e)
<1>1. /\ Len(s) \in Nat /\ Len(t) = Len(s) + 1 /\ t[Len(s) + 1] = e
      /\ \A i \in 1..Len(s) : t[i] = s[i]
  BY AppendSeq
<1> SUFFICES ASSUME NEW j \in 1..Len(t), IsStart(t[j]), ~(kind # None /\ t[j].index = index)
             PROVE  \E i \in (j + 1)..Len(t) : IsStop(t[i]) /\ t[i].index = t[j].index
  BY DEF ClosedBut
<1>2. j \in 1..Len(s) /\ t[j] = s[j]
  BY <1>1
<1>3. PICK i \in (j + 1)..Len(s) : IsStop(s[i]) /\ s[i].index = s[j].index
  BY <1>2 DEF ClosedBut
<1>4. i \in (j + 1)..Len(t) /\ t[i] = s[i]
  BY <1>1, <1>2
<1> QED
  BY <1>2, <1>3, <1>4

LEMMA ClosedStart ==
  ASSUME NEW s \in Seq(Event), NEW any, ClosedBut(s, None, any), NEW kind, kind # None,
         NEW e \in Event, IsStart(e), NEW index, e.index = index
  PROVE  ClosedBut(Append(s, e), kind, index)
<1> DEFINE t == Append(s, e)
<1>1. /\ Len(s) \in Nat /\ Len(t) = Len(s) + 1 /\ t[Len(s) + 1] = e
      /\ \A i \in 1..Len(s) : t[i] = s[i]
  BY AppendSeq
<1> SUFFICES ASSUME NEW j \in 1..Len(t), IsStart(t[j]), t[j].index # index
             PROVE  \E i \in (j + 1)..Len(t) : IsStop(t[i]) /\ t[i].index = t[j].index
  BY DEF ClosedBut
<1>2. j \in 1..Len(s) /\ t[j] = s[j]
  BY <1>1
<1>3. PICK i \in (j + 1)..Len(s) : IsStop(s[i]) /\ s[i].index = s[j].index
  BY <1>2 DEF ClosedBut
<1>4. i \in (j + 1)..Len(t) /\ t[i] = s[i]
  BY <1>1, <1>2
<1> QED
  BY <1>2, <1>3, <1>4

LEMMA ClosedStop ==
  ASSUME NEW s \in Seq(Event), NEW kind, NEW index, ClosedBut(s, kind, index),
         NEW e \in Event, IsStop(e), ~IsStart(e), e.index = index, NEW any
  PROVE  ClosedBut(Append(s, e), None, any)
<1> DEFINE t == Append(s, e)
<1>1. /\ Len(s) \in Nat /\ Len(t) = Len(s) + 1 /\ t[Len(s) + 1] = e
      /\ \A i \in 1..Len(s) : t[i] = s[i]
  BY AppendSeq
<1> SUFFICES ASSUME NEW j \in 1..Len(t), IsStart(t[j])
             PROVE  \E i \in (j + 1)..Len(t) : IsStop(t[i]) /\ t[i].index = t[j].index
  BY DEF ClosedBut
<1>2. j \in 1..Len(s) /\ t[j] = s[j]
  BY <1>1
<1>3. CASE s[j].index = index
  <2>1. Len(s) + 1 \in (j + 1)..Len(t)
    BY <1>1, <1>2
  <2> QED
    BY <1>1, <1>2, <1>3, <2>1
<1>4. CASE s[j].index # index
  <2>1. PICK i \in (j + 1)..Len(s) : IsStop(s[i]) /\ s[i].index = s[j].index
    BY <1>2, <1>4 DEF ClosedBut
  <2>2. i \in (j + 1)..Len(t) /\ t[i] = s[i]
    BY <1>1, <1>2
  <2> QED
    BY <1>2, <2>1, <2>2
<1> QED
  BY <1>3, <1>4

\* closeBlock closes what is open.
LEMMA CloseBlockCloses ==
  ASSUME TypeOK, NoEnd(out), ClosedBut(out, openType, openIndex), NEW any
  PROVE  NoEnd(CloseBlock(out)) /\ ClosedBut(CloseBlock(out), None, any)
<1> DEFINE signature == BlockDelta(openIndex, "signature_delta", thinkingText)
           stop == BlockStop(openIndex)
<1>1. /\ out \in Seq(Event) /\ openIndex \in Nat /\ openType \in {None, "text", "thinking"}
      /\ thinkingText \in Seq(Texts \cup JSONTexts)
  BY SeqOfSubset DEF TypeOK
<1>2. /\ stop \in Event /\ IsStop(stop) /\ ~IsStart(stop) /\ stop.index = openIndex
      /\ stop.name \notin {"message_stop", "message_delta"}
  BY <1>1, EventTypes DEF BlockStop, IsStop, IsStart
<1>3. /\ signature \in Event /\ ~IsStart(signature)
      /\ signature.name \notin {"message_stop", "message_delta"}
  BY <1>1, EventTypes DEF BlockDelta, IsStart
<1> HIDE DEF signature, stop
<1>4. CASE openType = None
  <2>1. CloseBlock(out) = out
    BY <1>4 DEF CloseBlock, None
  <2>2. ClosedBut(out, None, any)
    BY <1>4 DEF ClosedBut
  <2> QED
    BY <2>1, <2>2
<1>5. CASE openType = "text"
  <2>1. CloseBlock(out) = Append(out, stop)
    BY <1>5 DEF CloseBlock, None, stop
  <2> QED
    BY <1>1, <1>2, <2>1, NotAnEnd, ClosedStop
<1>6. CASE openType = "thinking"
  <2> DEFINE s == Append(out, signature)
  <2>1. CloseBlock(out) = Append(s, stop)
    BY <1>6 DEF CloseBlock, None, stop, signature
  <2>2. s \in Seq(Event) /\ NoEnd(s) /\ ClosedBut(s, openType, openIndex)
    BY <1>1, <1>3, AppendSeq, NotAnEnd, ClosedOther
  <2> HIDE DEF s
  <2> QED
    BY <1>2, <2>1, <2>2, NotAnEnd, ClosedStop
<1> QED
  BY <1>1, <1>4, <1>5, <1>6

\* As long as nothing ended the message, there is nothing to be said of its end.
LEMMA NotEnded ==
  ASSUME ~(finished /\ ~hasError), NoEnd(out), ClosedBut(out, openType, openIndex)
  PROVE  EndsInv
<1>1. EndsProperly
  BY DEF EndsProperly, NoEnd
<1> QED
  BY <1>1 DEF EndsInv

LEMMA NotEndedNext ==
  ASSUME ~(finished /\ ~hasError)', (NoEnd(out) /\ ClosedBut(out, openType, openIndex))'
  PROVE  EndsInv'
<1>1. EndsProperly'
  BY DEF EndsProperly, NoEnd
<1> QED
  BY <1>1 DEF EndsInv

LEMMA InitEnds == Init => EndsInv
<1> SUFFICES ASSUME Init PROVE EndsInv
  OBVIOUS
<1>1. Len(out) = 1 /\ out[1] = MessageStart /\ ~finished
  BY DEF Init
<1>2. NoEnd(out) /\ ClosedBut(out, openType, openIndex)
  BY <1>1 DEF NoEnd, ClosedBut, IsStart, MessageStart
<1> QED
  BY <1>1, <1>2, NotEnded

\* Finish, with no error: the two events that end the message, or the one that
\* says that there was no output.
LEMMA FinishEnds ==
  ASSUME TypeOK, Accounts, EndsInv, Finish, ~hasError
  PROVE  EndsInv'
<1> DEFINE end == MessageDelta(stopReason', DeltaUsage(usage, OutputTokens))
           failure == ErrorEvent(ZeroOutput)
           c == CloseBlock(out)
           n == Len(c)
<1>1. ~finished /\ finished' /\ ~hasError' /\ fed' = fed
  BY DEF Finish, errorVars
<1>2. NoEnd(out) /\ ClosedBut(out, openType, openIndex)
  BY <1>1 DEF EndsInv
<1>3. NoEnd(c) /\ ClosedBut(c, None, 0)
  BY <1>2, CloseBlockCloses
<1>4. c \in Seq(Event) /\ n \in Nat
  BY CloseBlockType DEF TypeOK
<1>5. OutputTokens = TokensReported /\ stopReason' = ReasonReported
  BY Reported DEF Finish
<1>6. TokensReported' = TokensReported /\ ReasonReported' = ReasonReported
  BY <1>1 DEF TokensReported, ReasonReported
<1>7. out' = IF OutputTokens = 0 THEN Append(c, failure)
             ELSE Append(Append(c, end), MessageStop)
  BY DEF Finish
<1>8. /\ failure \in Event /\ ~IsStart(failure)
      /\ failure.name \notin {"message_stop", "message_delta"}
  BY EventTypes DEF ErrorEvent, IsStart
<1>9. /\ end \in Event /\ ~IsStart(end) /\ end.name = "message_delta"
      /\ end.stop_reason = stopReason' /\ end.usage.output = OutputTokens
  <2>1. end.usage.output = OutputTokens
    BY DEF MessageDelta, DeltaUsage
  <2> QED
    BY <2>1, EndType DEF MessageDelta, IsStart
<1>10. MessageStop \in Event /\ ~IsStart(MessageStop) /\ MessageStop.name = "message_stop"
  BY EventTypes DEF MessageStop, IsStart
<1> HIDE DEF end, failure, c, n
<1>11. CASE OutputTokens = 0
  <2>1. out' = Append(c, failure)
    BY <1>7, <1>11
  <2>2. Len(out') = n + 1 /\ out'[n + 1] = failure
    BY <1>4, <1>8, <2>1, AppendSeq DEF n
  <2>3. NoEnd(out') /\ ClosedBut(out', None, 0)
    BY <1>3, <1>4, <1>8, <2>1, NotAnEnd, ClosedOther
  <2>4. AllClosed(out')
    BY <2>3 DEF ClosedBut, AllClosed
  <2>5. out'[Len(out')] = ErrorEvent(ZeroOutput)
    BY <2>2 DEF failure
  <2>6. TokensReported' = 0
    BY <1>5, <1>6, <1>11
  <2>7. EndsProperly'
    BY <1>1, <2>3, <2>4, <2>5, <2>6 DEF EndsProperly, NoEnd
  <2> QED
    BY <1>1, <2>7 DEF EndsInv
<1>12. CASE OutputTokens # 0
  <2> DEFINE s == Append(c, end)
  <2>1. out' = Append(s, MessageStop)
    BY <1>7, <1>12
  <2>2. s \in Seq(Event) /\ Len(s) = n + 1 /\ s[n + 1] = end /\ \A i \in 1..n : s[i] = c[i]
    BY <1>4, <1>9, AppendSeq DEF n
  <2>3. ClosedBut(s, None, 0)
    BY <1>3, <1>4, <1>9, ClosedOther
  <2> HIDE DEF s
  <2>4. /\ Len(out') = n + 2 /\ out'[n + 2] = MessageStop /\ out'[n + 1] = end
        /\ \A i \in 1..n : out'[i] = c[i]
    <3>1. /\ Len(out') = Len(s) + 1 /\ out'[Len(s) + 1] = MessageStop
          /\ \A i \in 1..Len(s) : out'[i] = s[i]
      BY <1>10, <2>1, <2>2, AppendSeq
    <3>2. Len(s) + 1 = n + 2 /\ n + 1 \in 1..Len(s) /\ \A i \in 1..n : i \in 1..Len(s)
      BY <1>4, <2>2
    <3> QED
      BY <2>2, <3>1, <3>2
  <2>5. AllClosed(out')
    <3>1. ClosedBut(out', None, 0)
      BY <1>10, <2>1, <2>2, <2>3, ClosedOther
    <3> QED
      BY <3>1 DEF ClosedBut, AllClosed
  <2>6. \A i \in 1..Len(out') :
          /\ out'[i].name = "message_stop" => i = Len(out')
          /\ out'[i].name = "message_delta" => i = Len(out') - 1
    <3> TAKE i \in 1..Len(out')
    <3>1. i \in 1..n \/ i = n + 1 \/ i = n + 2
      BY <1>4, <2>4
    <3>2. CASE i \in 1..n
      BY <1>3, <2>4, <3>2 DEF NoEnd, n
    <3>3. CASE i = n + 1
      BY <1>4, <1>9, <2>4, <3>3
    <3>4. CASE i = n + 2
      BY <1>10, <2>4, <3>4
    <3> QED
      BY <3>1, <3>2, <3>3, <3>4
  <2>7. Len(out') - 1 = n + 1
    BY <1>4, <2>4
  <2>8. /\ out'[Len(out')] = MessageStop
        /\ out'[Len(out') - 1].name = "message_delta"
        /\ out'[Len(out') - 1].stop_reason = ReasonReported'
        /\ out'[Len(out') - 1].usage.output = TokensReported'
    BY <1>5, <1>6, <1>9, <2>4, <2>7
  <2>9. TokensReported' # 0
    BY <1>5, <1>6, <1>12
  <2>10. EndsProperly'
    BY <1>1, <2>5, <2>6, <2>8, <2>9 DEF EndsProperly
  <2> QED
    BY <1>1, <2>10 DEF EndsInv
<1> QED
  BY <1>11, <1>12

LEMMA NextEnds == TypeOK /\ Accounts /\ EndsInv /\ [Next]_vars => EndsInv'
<1> SUFFICES ASSUME TypeOK, Accounts, EndsInv, [Next]_vars PROVE EndsInv'
  OBVIOUS
<1>1. /\ out \in Seq(Event) /\ CloseBlock(out) \in Seq(Event)
      /\ nextIndex \in Nat /\ openIndex \in Nat
  BY CloseBlockType DEF TypeOK
<1>2. CASE UNCHANGED vars
  <2>1. UNCHANGED <<out, fed, openType, openIndex, finished, hasError>>
    BY <1>2 DEF vars, blockVars, errorVars
  <2>2. TokensReported' = TokensReported /\ ReasonReported' = ReasonReported
    BY <2>1 DEF TokensReported, ReasonReported
  <2>3. EndsProperly' <=> EndsProperly
    BY <2>1, <2>2 DEF EndsProperly
  <2> QED
    BY <2>1, <2>3 DEF EndsInv
<1>3. CASE Finish
  <2>1. CASE hasError
    <3>1. UNCHANGED <<out, openType, openIndex, hasError>>
      BY <1>3, <2>1 DEF Finish, errorVars
    <3>2. NoEnd(out) /\ ClosedBut(out, openType, openIndex)
      BY <2>1 DEF EndsInv
    <3> QED
      BY <2>1, <3>1, <3>2, NotEndedNext
  <2>2. CASE ~hasError
    BY <1>3, <2>2, FinishEnds
  <2> QED
    BY <2>1, <2>2
<1>4. ASSUME Feed PROVE EndsInv'
  <2>1. ~finished /\ ~finished'
    <3>1. ASSUME NEW kind, NEW text, FeedDelta(kind, text) PROVE ~finished /\ finished' = finished
      BY <3>1 DEF FeedDelta, Take
    <3>2. ASSUME NEW input, FeedToolCall(input) PROVE ~finished /\ finished' = finished
      BY <3>2 DEF FeedToolCall, Take
    <3>3. ASSUME NEW reason, NEW u, FeedFinishStep(reason, u) \/ FeedFinish(reason, u)
          PROVE  ~finished /\ finished' = finished
      BY <3>3 DEF FeedFinishStep, FeedFinish, Take
    <3>4. ASSUME NEW m, FeedError(m) PROVE ~finished /\ finished' = finished
      BY <3>4 DEF FeedError, Take
    <3>5. FeedIgnored \/ FeedErrorWithoutDetail => ~finished /\ finished' = finished
      BY DEF FeedIgnored, FeedErrorWithoutDetail, Take
    <3> QED
      BY <1>4, <3>1, <3>2, <3>3, <3>4, <3>5 DEF Feed
  <2>2. NoEnd(out) /\ ClosedBut(out, openType, openIndex)
    BY <2>1 DEF EndsInv
  <2>3. NoEnd(CloseBlock(out)) /\ ClosedBut(CloseBlock(out), None, 0)
    BY <2>2, CloseBlockCloses
  <2> SUFFICES (NoEnd(out) /\ ClosedBut(out, openType, openIndex))'
    BY <2>1, NotEndedNext
  <2>4. CASE UNCHANGED <<blockVars, out>>
    BY <2>2, <2>4 DEF blockVars
  <2>5. ASSUME NEW kind \in {"text", "thinking"}, NEW text \in Texts, FeedDelta(kind, text)
        PROVE  (NoEnd(out) /\ ClosedBut(out, openType, openIndex))'
    <3> DEFINE delta(i) == BlockDelta(i, DeltaOf(kind), <<text>>)
               start == BlockStart(nextIndex, kind)
               s == Append(CloseBlock(out), start)
    <3>1. ASSUME NEW i \in Nat
          PROVE  /\ delta(i) \in Event /\ ~IsStart(delta(i))
                 /\ delta(i).name \notin {"message_stop", "message_delta"}
      <4>1. <<text>> \in Seq(Texts \cup JSONTexts)
        BY SingletonSeq
      <4>2. delta(i) \in Event
        BY <4>1, EventTypes DEF DeltaOf
      <4> QED
        BY <4>2 DEF IsStart, BlockDelta
    <3>2. /\ start \in Event /\ IsStart(start) /\ start.index = nextIndex
          /\ start.name \notin {"message_stop", "message_delta"}
      BY <1>1, EventTypes DEF Kinds, BlockStart, IsStart
    <3>3. kind # None
      BY DEF None
    <3>4. CASE Continues(kind)
      <4>1. /\ out' = Append(out, delta(openIndex))
            /\ openIndex' = openIndex /\ openType' = openType
        BY <2>5, <3>4, Zenon DEF FeedDelta
      <4> HIDE DEF delta
      <4> QED
        BY <1>1, <2>2, <3>1, <4>1, NotAnEnd, ClosedOther
    <3>5. CASE ~Continues(kind)
      <4>1. /\ out' = Append(s, delta(nextIndex))
            /\ openIndex' = nextIndex /\ openType' = kind
        BY <2>5, <3>5, Zenon DEF FeedDelta
      <4> HIDE DEF delta, start
      <4>2. s \in Seq(Event) /\ NoEnd(s) /\ ClosedBut(s, kind, nextIndex)
        BY <1>1, <2>3, <3>2, <3>3, AppendSeq, NotAnEnd, ClosedStart
      <4> HIDE DEF s
      <4> QED
        BY <1>1, <3>1, <4>1, <4>2, NotAnEnd, ClosedOther
    <3> QED
      BY <3>4, <3>5
  <2>6. ASSUME NEW input \in ToolInputs, FeedToolCall(input)
        PROVE  (NoEnd(out) /\ ClosedBut(out, openType, openIndex))'
    <3> DEFINE delta == BlockDelta(nextIndex, "input_json_delta", <<PartialJSON(input)>>)
               start == BlockStart(nextIndex, "tool_use")
               stop == BlockStop(nextIndex)
               s1 == Append(CloseBlock(out), start)
               s2 == Append(s1, delta)
    <3>1. out' = Append(s2, stop) /\ openType' = None
      BY <2>6 DEF FeedToolCall
    <3>2. /\ delta \in Event /\ ~IsStart(delta)
          /\ delta.name \notin {"message_stop", "message_delta"}
      <4>1. <<PartialJSON(input)>> \in Seq(Texts \cup JSONTexts)
        BY PartialJSONType, SingletonSeq
      <4>2. delta \in Event
        BY <1>1, <4>1, EventTypes
      <4> QED
        BY <4>2 DEF IsStart, BlockDelta
    <3>3. /\ start \in Event /\ IsStart(start) /\ start.index = nextIndex
          /\ start.name \notin {"message_stop", "message_delta"}
          /\ stop \in Event /\ IsStop(stop) /\ ~IsStart(stop) /\ stop.index = nextIndex
          /\ stop.name \notin {"message_stop", "message_delta"}
      BY <1>1, EventTypes DEF Kinds, BlockStart, BlockStop, IsStart, IsStop
    <3>4. "tool_use" # None
      BY DEF None
    <3> HIDE DEF delta, start, stop
    <3>5. s1 \in Seq(Event) /\ NoEnd(s1) /\ ClosedBut(s1, "tool_use", nextIndex)
      BY <1>1, <2>3, <3>3, <3>4, AppendSeq, NotAnEnd, ClosedStart
    <3> HIDE DEF s1
    <3>6. s2 \in Seq(Event) /\ NoEnd(s2) /\ ClosedBut(s2, "tool_use", nextIndex)
      BY <3>2, <3>5, AppendSeq, NotAnEnd, ClosedOther
    <3> HIDE DEF s2
    <3>7. NoEnd(Append(s2, stop)) /\ ClosedBut(Append(s2, stop), None, openIndex')
      BY <3>3, <3>6, NotAnEnd, ClosedStop
    <3> QED
      BY <3>1, <3>7
  <2>7. ASSUME NEW m \in Messages, FeedError(m)
        PROVE  (NoEnd(out) /\ ClosedBut(out, openType, openIndex))'
    <3> DEFINE e == ErrorEvent(m)
    <3>1. e \in Event /\ ~IsStart(e) /\ e.name \notin {"message_stop", "message_delta"}
      BY EventTypes DEF ErrorEvent, IsStart
    <3>2. out' = Append(out, e) /\ UNCHANGED <<openType, openIndex>>
      BY <2>7 DEF FeedError, blockVars
    <3> HIDE DEF e
    <3> QED
      BY <1>1, <2>2, <3>1, <3>2, NotAnEnd, ClosedOther
  <2>8. ASSUME \/ FeedIgnored \/ FeedErrorWithoutDetail
               \/ \E reason \in Reasons \cup {None}, u \in OptionalUsage :
                    FeedFinishStep(reason, u) \/ FeedFinish(reason, u)
        PROVE  UNCHANGED <<blockVars, out>>
    BY <2>8 DEF FeedIgnored, FeedErrorWithoutDetail, FeedFinishStep, FeedFinish
  <2> QED
    BY <1>4, <2>4, <2>5, <2>6, <2>7, <2>8 DEF Feed
<1> QED
  BY <1>2, <1>3, <1>4 DEF Next

\* However the upstream orders or repeats its finish events and whatever usage it
\* tells or leaves out, a message that ends reports what the lines call for in its
\* last two events, or that there was no output; nothing ends it before, and
\* nothing ends it after an error.
THEOREM MessageEnds == Spec => []EndsProperly
<1>1. EndsInv => EndsProperly
  BY DEF EndsInv
<1>2. QED
  BY <1>1, InitType, NextType, InitAccounts, NextAccounts, InitEnds, NextEnds, PTL DEF Spec

---------------------------------------------------------------------------
(* The ChatEncoder. *)

ChatFields ==
  {"started", "hasError", "finished", "toolIndex", "curTool", "stopReason", "usage", "frames"}

IsChatEncoder(c) ==
  /\ c = [f \in ChatFields |-> c[f]]
  /\ c.started \in BOOLEAN /\ c.hasError \in BOOLEAN /\ c.finished \in BOOLEAN
  /\ IsSequence(c.frames)

\* Frames that carry content, and nothing of how the stream ends.
ContentKinds == {"role", "content", "reasoning", "tool", "arguments"}

IsContentFrame(f) ==
  /\ "frame" \in DOMAIN f /\ f.frame \in ContentKinds
  /\ DOMAIN f \subseteq {"frame", "text", "index", "fragment"}

IsContent(g) == IsSequence(g) /\ \A i \in 1..Len(g) : IsContentFrame(g[i])

\* d is c after some frames of content.
Carries(c, d) ==
  /\ IsChatEncoder(d)
  /\ d.finished = c.finished /\ d.hasError = c.hasError
  /\ \E g : IsContent(g) /\ d.frames = c.frames \o g

\* The events the encoder is given: a tool input is one of the texts.
Encodable(e) ==
  /\ "name" \in DOMAIN e
  /\ IsDelta(e) /\ e.delta = "input_json_delta" => e.payload[1] \in JSONTexts
  /\ IsDelta(e) => e.delta \in {"text_delta", "thinking_delta", "signature_delta", "input_json_delta"}

---------------------------------------------------------------------------
LEMMA NewChatEncoderType == IsChatEncoder(NewChatEncoder)
BY ShortSequences DEF IsChatEncoder, NewChatEncoder, ChatFields

LEMMA NoContent == IsContent(<<>>)
BY ShortSequences DEF IsContent

LEMMA OneFrame == ASSUME NEW f, IsContentFrame(f) PROVE IsContent(<<f>>)
BY ShortSequences DEF IsContent

LEMMA ContentConcatenates ==
  ASSUME NEW g, NEW h, IsContent(g), IsContent(h) PROVE IsContent(g \o h)
<1>1. /\ IsSequence(g) /\ IsSequence(h) /\ Len(g) \in Nat /\ Len(h) \in Nat
  BY SequenceLen DEF IsContent
<1>2. /\ IsSequence(g \o h) /\ Len(g \o h) = Len(g) + Len(h)
      /\ \A i \in 1..Len(g) : (g \o h)[i] = g[i]
      /\ \A i \in 1..Len(h) : (g \o h)[Len(g) + i] = h[i]
  BY <1>1, Concatenation
<1>3. ASSUME NEW i \in 1..Len(g \o h) PROVE IsContentFrame((g \o h)[i])
  <2>1. CASE i <= Len(g)
    BY <2>1, <1>1, <1>2 DEF IsContent
  <2>2. CASE i > Len(g)
    <3>1. i - Len(g) \in 1..Len(h) /\ i = Len(g) + (i - Len(g))
      BY <2>2, <1>1, <1>2
    <3> QED
      BY <3>1, <1>2 DEF IsContent
  <2> QED
    BY <2>1, <2>2, <1>1
<1> QED
  BY <1>2, <1>3 DEF IsContent

LEMMA ReturningType ==
  ASSUME NEW c, IsChatEncoder(c), NEW g, IsSequence(g)
  PROVE  /\ IsChatEncoder(Returning(c, g)) /\ Returning(c, g).frames = c.frames \o g
         /\ \A f \in ChatFields \ {"frames"} : Returning(c, g)[f] = c[f]
<1> DEFINE d == Returning(c, g)
           h == c.frames
<1>1. /\ d = [f \in ChatFields |-> d[f]] /\ d.frames = h \o g
      /\ \A f \in ChatFields \ {"frames"} : d[f] = c[f]
  BY DEF IsChatEncoder, ChatFields, Returning
<1>2. IsSequence(h)
  BY DEF IsChatEncoder
<1> HIDE DEF h, d
<1>3. IsSequence(h \o g)
  BY <1>2, Concatenation
<1>4. /\ d.started = c.started /\ d.hasError = c.hasError /\ d.finished = c.finished
  BY <1>1 DEF ChatFields
<1>5. IsChatEncoder(d)
  BY <1>1, <1>3, <1>4 DEF IsChatEncoder
<1> QED
  BY <1>1, <1>5 DEF d, h

LEMMA CarriesSelf == ASSUME NEW c, IsChatEncoder(c) PROVE Carries(c, c)
<1>1. c.frames = c.frames \o <<>>
  BY EmptyConcatenation DEF IsChatEncoder
<1> QED
  BY <1>1, NoContent DEF Carries

\* withRole: the frames, with the role frame before the first.
LEMMA WithRoleIs ==
  ASSUME NEW c, IsChatEncoder(c), NEW fs, IsSequence(fs)
  PROVE  LET d == WithRole(c, fs)
         IN /\ IsChatEncoder(d) /\ d.started
            /\ d.finished = c.finished /\ d.hasError = c.hasError
            /\ \E g : g \in {fs, <<RoleFrame>> \o fs} /\ IsSequence(g) /\ d.frames = c.frames \o g
<1> DEFINE s == [c EXCEPT !.started = TRUE]
           g == IF c.started THEN fs ELSE <<RoleFrame>> \o fs
           d == WithRole(c, fs)
<1>1. d = Returning(s, g)
  BY DEF WithRole
<1>2. IsSequence(g) /\ g \in {fs, <<RoleFrame>> \o fs}
  BY ShortSequences, Concatenation
<1>3. /\ IsChatEncoder(s) /\ s.started /\ s.frames = c.frames
      /\ s.finished = c.finished /\ s.hasError = c.hasError
  BY DEF IsChatEncoder, ChatFields
<1> HIDE DEF s, g, d
<1>4. /\ IsChatEncoder(d) /\ d.frames = s.frames \o g
      /\ \A f \in ChatFields \ {"frames"} : d[f] = s[f]
  <2>1. /\ IsChatEncoder(Returning(s, g)) /\ Returning(s, g).frames = s.frames \o g
        /\ \A f \in ChatFields \ {"frames"} : Returning(s, g)[f] = s[f]
    BY ONLY <1>2, <1>3, ReturningType
  <2> QED
    BY <1>1, <2>1, Zenon
<1>5. d.started = s.started /\ d.finished = s.finished /\ d.hasError = s.hasError
  BY <1>4 DEF ChatFields
<1>6. d.frames = c.frames \o g
  BY <1>3, <1>4
<1> QED
  BY <1>2, <1>3, <1>4, <1>5, <1>6 DEF d

LEMMA RoleIsContent == IsContent(<<RoleFrame>>)
<1>1. IsContentFrame(RoleFrame)
  BY DEF IsContentFrame, RoleFrame, ContentKinds
<1> QED
  BY <1>1, OneFrame

LEMMA WithRoleCarries ==
  ASSUME NEW c, IsChatEncoder(c), NEW fs, IsContent(fs) PROVE Carries(c, WithRole(c, fs))
<1> DEFINE d == WithRole(c, fs)
<1>1. IsSequence(fs)
  BY DEF IsContent
<1>2. PICK g : /\ g \in {fs, <<RoleFrame>> \o fs} /\ d.frames = c.frames \o g
               /\ IsChatEncoder(d) /\ d.finished = c.finished /\ d.hasError = c.hasError
  BY <1>1, WithRoleIs
<1>3. IsContent(g)
  BY <1>2, RoleIsContent, ContentConcatenates
<1> QED
  BY <1>2, <1>3 DEF Carries

LEMMA ToolStartedCarries ==
  ASSUME NEW c, IsChatEncoder(c), NEW i PROVE Carries(c, ToolStarted(c, i))
<1> DEFINE s == [c EXCEPT !.curTool = c.toolIndex, !.toolIndex = @ + 1]
           f == <<ToolFrame(c.toolIndex)>>
           d == WithRole(s, f)
<1>1. d = ToolStarted(c, i)
  BY DEF ToolStarted
<1>2. /\ IsChatEncoder(s) /\ s.frames = c.frames
      /\ s.finished = c.finished /\ s.hasError = c.hasError
  BY DEF IsChatEncoder, ChatFields
<1>3. IsContent(f)
  <2>1. IsContentFrame(ToolFrame(c.toolIndex))
    BY DEF IsContentFrame, ToolFrame, ContentKinds
  <2> QED
    BY <2>1, OneFrame
<1> HIDE DEF s, f
<1>4. Carries(s, d)
  BY <1>2, <1>3, WithRoleCarries
<1> HIDE DEF d
<1> QED
  BY <1>1, <1>2, <1>4 DEF Carries

\* A tool input is a sequence of runes.
LEMMA RunesType == \A j \in JSONTexts : IsSequence(Runes(j))
<1>1. \A x, y, z, u, v : /\ IsSequence(<<x, y>>) /\ IsSequence(<<x, y, z>>)
                        /\ IsSequence(<<x, y, z, u, v>>)
  <2> TAKE x, y, z, u, v
  <2> DEFINE S == {x, y, z, u, v}
  <2>1. <<x, y>> \in Seq(S) /\ <<x, y, z>> \in Seq(S) /\ <<x, y, z, u, v>> \in Seq(S)
    OBVIOUS
  <2> QED
    BY <2>1 DEF IsSequence
<1>2. /\ Runes("emptyObject") = <<"{", "}">>
      /\ Runes("json") = <<"{", "x", ":", "1", "}">>
      /\ Runes("bad") = <<"{", "x", ":">>
      /\ Runes("empty") = <<>>
  BY DEF Runes
<1> QED
  BY <1>1, <1>2, ShortSequences DEF JSONTexts

\* A delta: one frame at most, but as many as there are fragments for a tool
\* input, which declares no role.
LEMMA ChatDeltaCarries ==
  ASSUME NEW c, IsChatEncoder(c), NEW e, IsDelta(e), Encodable(e)
  PROVE  Carries(c, ChatDelta(c, e))
<1>1. CASE e.delta = "text_delta"
  <2> DEFINE f == ContentFrame(e.payload[1])
  <2>1. IsContentFrame(f)
    BY DEF IsContentFrame, ContentFrame, ContentKinds
  <2>2. ChatDelta(c, e) = WithRole(c, <<f>>)
    BY <1>1 DEF ChatDelta
  <2> QED
    BY <2>1, <2>2, OneFrame, WithRoleCarries
<1>2. CASE e.delta = "thinking_delta"
  <2> DEFINE f == ReasoningFrame(e.payload[1])
  <2>1. IsContentFrame(f)
    BY DEF IsContentFrame, ReasoningFrame, ContentKinds
  <2>2. ChatDelta(c, e) = WithRole(c, <<f>>)
    BY <1>2 DEF ChatDelta
  <2> QED
    BY <2>1, <2>2, OneFrame, WithRoleCarries
<1>3. CASE e.delta = "signature_delta"
  BY <1>3, CarriesSelf DEF ChatDelta
<1>4. CASE e.delta = "input_json_delta"
  <2> DEFINE fragments == ChatSplitRunes(Runes(e.payload[1]), ArgChunkSize)
             g == [k \in DOMAIN fragments |-> ArgsFrame(c.curTool, fragments[k])]
             n == Len(fragments)
  <2>1. IsSequence(fragments)
    BY <1>4, RunesType, SplitIsSequence, ChunkAssumption DEF Encodable
  <2>2. ChatDelta(c, e) = Returning(c, g)
    BY <1>4 DEF ChatDelta
  <2> HIDE DEF fragments
  <2>3. n \in Nat /\ DOMAIN fragments = 1..n
    BY <2>1, SequenceLen DEF IsSequence
  <2> HIDE DEF n
  <2>4. /\ DOMAIN g = 1..n /\ g = [k \in DOMAIN g |-> g[k]]
        /\ \A k \in 1..n : IsContentFrame(g[k])
    BY <2>3 DEF IsContentFrame, ArgsFrame, ContentKinds
  <2> HIDE DEF g
  <2>5. IsContent(g)
    BY <2>3, <2>4, TableIsSequence DEF IsContent
  <2>6. /\ IsChatEncoder(Returning(c, g)) /\ Returning(c, g).frames = c.frames \o g
        /\ Returning(c, g).finished = c.finished /\ Returning(c, g).hasError = c.hasError
    BY <2>5, ReturningType DEF IsContent, ChatFields
  <2> QED
    BY <2>2, <2>5, <2>6 DEF Carries
<1> QED
  BY <1>1, <1>2, <1>3, <1>4 DEF Encodable

---------------------------------------------------------------------------
\* After the end of the message or an error the encoder returns nothing.
LEMMA SilentForGood ==
  ASSUME NEW c, Silenced(c), NEW e
  PROVE  ChatEncode(c, e) = c /\ ChatEncoderFinish(c) = c
BY DEF ChatEncode, ChatEncoderFinish

\* Until then, it makes content frames of events that are neither.
LEMMA EncodeCarries ==
  ASSUME NEW c, IsChatEncoder(c), ~Silenced(c),
         NEW e, Encodable(e), e.name \notin {"message_stop", "error"}
  PROVE  Carries(c, ChatEncode(c, e))
<1>1. CASE IsStart(e) /\ e.kind = "tool_use"
  <2>1. ChatEncode(c, e) = ToolStarted(c, e.index)
    BY <1>1 DEF ChatEncode, IsStart, IsDelta
  <2> QED
    BY <2>1, ToolStartedCarries
<1>2. CASE IsDelta(e)
  <2>1. ChatEncode(c, e) = ChatDelta(c, e)
    BY <1>2 DEF ChatEncode, IsStart, IsDelta
  <2> QED
    BY <1>2, <2>1, ChatDeltaCarries
<1>3. CASE e.name = "message_delta"
  <2> DEFINE d == [c EXCEPT !.stopReason = e.stop_reason, !.usage = e.usage]
  <2>1. ChatEncode(c, e) = d
    BY <1>3 DEF ChatEncode, IsStart, IsDelta
  <2>2. /\ IsChatEncoder(d) /\ d.frames = c.frames
        /\ d.finished = c.finished /\ d.hasError = c.hasError
    BY DEF IsChatEncoder, ChatFields
  <2>3. Carries(c, c)
    BY CarriesSelf
  <2> HIDE DEF d
  <2> QED
    BY <2>1, <2>2, <2>3 DEF Carries
<1>4. CASE ~(IsStart(e) /\ e.kind = "tool_use") /\ ~IsDelta(e) /\ e.name # "message_delta"
  <2>1. ChatEncode(c, e) = c
    BY <1>4 DEF ChatEncode, IsStart, IsDelta
  <2> QED
    BY <2>1, CarriesSelf
<1> QED
  BY <1>1, <1>2, <1>3, <1>4

\* The frames that end a stream well.
FinalFrames(r, u) == <<FinishFrame(r), UsageFrame(u), DoneFrame>>

\* d is c after the end of the message: the final frames, with the role if it
\* is missing.
Concludes(c, d) ==
  /\ IsChatEncoder(d) /\ d.finished /\ ~d.hasError
  /\ \E r, u, g : /\ g \in {FinalFrames(r, u), <<RoleFrame>> \o FinalFrames(r, u)}
                  /\ IsSequence(g) /\ d.frames = c.frames \o g

LEMMA EncodeStops ==
  ASSUME NEW c, IsChatEncoder(c), ~Silenced(c), NEW e, e.name = "message_stop"
  PROVE  Concludes(c, ChatEncode(c, e))
<1> DEFINE r == ChatFinishReason(c.stopReason)
           u == ChatUsageFrom(c.usage)
           fs == FinalFrames(r, u)
           w == WithRole(c, fs)
           d == [w EXCEPT !.finished = TRUE]
<1>1. ChatEncode(c, e) = d
  BY DEF ChatEncode, IsStart, IsDelta, FinishFrames, FinalFrames
<1>2. IsSequence(fs)
  <2>1. \A x, y, z : <<x, y, z>> \in Seq({x, y, z})
    OBVIOUS
  <2> QED
    BY <2>1 DEF FinalFrames, IsSequence
<1> HIDE DEF r, u
<1>3. PICK g : /\ g \in {fs, <<RoleFrame>> \o fs} /\ IsSequence(g) /\ w.frames = c.frames \o g
               /\ IsChatEncoder(w) /\ w.hasError = c.hasError
  BY <1>2, WithRoleIs
<1> HIDE DEF fs, w
<1>4. /\ IsChatEncoder(d) /\ d.finished /\ d.hasError = c.hasError /\ d.frames = w.frames
  BY <1>3 DEF IsChatEncoder, ChatFields
<1>5. ~c.hasError
  BY DEF Silenced
<1> HIDE DEF d
<1> QED
  BY <1>1, <1>3, <1>4, <1>5 DEF fs, Concludes

\* An error: an error frame, nothing if no frame came before it.
LEMMA EncodeFails ==
  ASSUME NEW c, IsChatEncoder(c), ~Silenced(c), NEW e, e.name = "error"
  PROVE  LET d == ChatEncode(c, e)
         IN /\ IsChatEncoder(d) /\ d.hasError /\ ~d.finished
            /\ d.frames = c.frames \o (IF c.started THEN <<ErrorFrame(e.message)>> ELSE <<>>)
<1> DEFINE s == [c EXCEPT !.hasError = TRUE]
           g == IF c.started THEN <<ErrorFrame(e.message)>> ELSE <<>>
           d == Returning(s, g)
<1>1. ChatEncode(c, e) = d
  BY DEF ChatEncode, IsStart, IsDelta, ErrorFrames
<1>2. IsSequence(g)
  BY ShortSequences
<1>3. IsChatEncoder(s) /\ s.hasError /\ s.finished = c.finished /\ s.frames = c.frames
  BY DEF IsChatEncoder, ChatFields
<1> HIDE DEF s, g
<1>4. /\ IsChatEncoder(d) /\ d.frames = s.frames \o g
      /\ \A f \in ChatFields \ {"frames"} : d[f] = s[f]
  BY <1>2, <1>3, ReturningType
<1>5. d.hasError = s.hasError /\ d.finished = s.finished
  BY <1>4 DEF ChatFields
<1>6. ~c.finished
  BY DEF Silenced
<1> HIDE DEF d
<1> QED
  BY <1>1, <1>3, <1>4, <1>5, <1>6 DEF g

---------------------------------------------------------------------------
(* The events a call of the translator returns. *)

\* Events that neither end the message nor report an error.
MiddleEvents == {e \in Event : Encodable(e) /\ e.name \notin {"message_stop", "error"}}

LEMMA MiddleEventTypes ==
  /\ MessageStart \in MiddleEvents
  /\ \A i \in Nat, k \in Kinds : BlockStart(i, k) \in MiddleEvents
  /\ \A i \in Nat : BlockStop(i) \in MiddleEvents
  /\ \A i \in Nat, p \in Seq(Texts \cup JSONTexts) :
       /\ BlockDelta(i, "text_delta", p) \in MiddleEvents
       /\ BlockDelta(i, "thinking_delta", p) \in MiddleEvents
       /\ BlockDelta(i, "signature_delta", p) \in MiddleEvents
  /\ \A i \in Nat, j \in JSONTexts : BlockDelta(i, "input_json_delta", <<j>>) \in MiddleEvents
  /\ \A r \in StopReasons, d \in TokenCounts : MessageDelta(r, d) \in MiddleEvents
<1>1. /\ MessageStart \in MiddleEvents
      /\ \A i \in Nat, k \in Kinds : BlockStart(i, k) \in MiddleEvents
      /\ \A i \in Nat : BlockStop(i) \in MiddleEvents
      /\ \A r \in StopReasons, d \in TokenCounts : MessageDelta(r, d) \in MiddleEvents
  BY EventTypes DEF MiddleEvents, Encodable, MessageStart, BlockStart, BlockStop, MessageDelta,
                    IsDelta
<1>2. \A i \in Nat, p \in Seq(Texts \cup JSONTexts) :
       /\ BlockDelta(i, "text_delta", p) \in MiddleEvents
       /\ BlockDelta(i, "thinking_delta", p) \in MiddleEvents
       /\ BlockDelta(i, "signature_delta", p) \in MiddleEvents
  BY EventTypes DEF MiddleEvents, Encodable, BlockDelta, IsDelta
<1>3. \A i \in Nat, j \in JSONTexts : BlockDelta(i, "input_json_delta", <<j>>) \in MiddleEvents
  <2> TAKE i \in Nat, j \in JSONTexts
  <2>1. <<j>> \in Seq(Texts \cup JSONTexts) /\ <<j>>[1] = j
    BY SingletonSeq
  <2> QED
    BY <2>1, EventTypes DEF MiddleEvents, Encodable, BlockDelta, IsDelta
<1> QED
  BY <1>1, <1>2, <1>3

LEMMA TailOfConcatenation ==
  ASSUME NEW s, NEW t, IsSequence(s), IsSequence(t)
  PROVE  SubSeq(s \o t, Len(s) + 1, Len(s \o t)) = t
<1> DEFINE u == s \o t
           v == SubSeq(u, Len(s) + 1, Len(u))
<1>1. /\ Len(s) \in Nat /\ Len(t) \in Nat /\ Len(u) = Len(s) + Len(t)
      /\ \A i \in 1..Len(t) : u[Len(s) + i] = t[i]
  BY Concatenation, SequenceLen
<1> HIDE DEF u
<1>2. /\ IsSequence(v) /\ Len(v) = Len(t) /\ \A i \in 1..Len(t) : v[i] = u[Len(s) + 1 + i - 1]
  <2>1. Len(s) + 1 \in Int /\ Len(u) \in Int
    BY <1>1
  <2>2. /\ IsSequence(v)
        /\ Len(v) = IF Len(s) + 1 <= Len(u) THEN Len(u) - (Len(s) + 1) + 1 ELSE 0
        /\ \A i \in 1..(Len(u) - (Len(s) + 1) + 1) : v[i] = u[Len(s) + 1 + i - 1]
    BY <2>1, SubSequence
  <2> QED
    BY <1>1, <2>2
<1> HIDE DEF v
<1>3. \A i \in 1..Len(t) : v[i] = t[i]
  BY <1>1, <1>2
<1>4. PICK S, T : v \in Seq(S) /\ t \in Seq(T)
  BY <1>2 DEF IsSequence
<1>5. v \in Seq(S \cup T) /\ t \in Seq(S \cup T)
  BY <1>4
<1>6. v = t
  BY <1>2, <1>3, <1>5
<1> QED
  BY <1>6 DEF v, u

\* In what follows t are the events a call adds to those returned before.
LEMMA CloseBlockAdds ==
  ASSUME TypeOK PROVE \E t \in Seq(MiddleEvents) : CloseBlock(out) = out \o t
<1>1. BlockStop(openIndex) \in MiddleEvents
  BY MiddleEventTypes DEF TypeOK
<1>2. BlockDelta(openIndex, "signature_delta", thinkingText) \in MiddleEvents
  <2>1. thinkingText \in Seq(Texts \cup JSONTexts)
    BY SeqOfSubset DEF TypeOK
  <2>2. openIndex \in Nat
    BY DEF TypeOK
  <2> QED
    BY <2>1, <2>2, MiddleEventTypes
<1> DEFINE a == BlockDelta(openIndex, "signature_delta", thinkingText)
           b == BlockStop(openIndex)
<1>3. CloseBlock(out) \in {out, Append(out, b), Append(Append(out, a), b)}
  BY DEF CloseBlock, TypeOK
<1> HIDE DEF a, b
<1>4. out \in Seq(Event) /\ MiddleEvents \subseteq Event
  BY DEF TypeOK, MiddleEvents
<1>5. /\ <<>> \in Seq(MiddleEvents) /\ <<b>> \in Seq(MiddleEvents) /\ <<a, b>> \in Seq(MiddleEvents)
  BY <1>1, <1>2 DEF a, b
<1>6. out = out \o <<>> /\ Append(out, b) = out \o <<b>> /\ Append(Append(out, a), b) = out \o <<a, b>>
  BY <1>1, <1>2, <1>4 DEF a, b
<1> QED
  BY <1>3, <1>5, <1>6

LEMMA AppendAdds ==
  ASSUME NEW s \in Seq(Event), NEW t \in Seq(Event), NEW e \in Event
  PROVE  Append(t, e) \in Seq(Event) /\ Append(s \o t, e) = s \o Append(t, e)
OBVIOUS

\* The events of Feed: one error event and the error is on record, or events
\* that are no errors and it is as before.
LEMMA FeedAdds ==
  ASSUME TypeOK, Feed, ~panicked'
  PROVE  /\ ~finished' /\ (contentStarted => contentStarted')
         /\ \E t : /\ out' = out \o t
                   /\ \/ t \in Seq(MiddleEvents) /\ hasError' = hasError
                      \/ hasError' /\ \E m : t = <<ErrorEvent(m)>>
<1>0. /\ out \in Seq(Event) /\ MiddleEvents \subseteq Event
      /\ openIndex \in Nat /\ nextIndex \in Nat
  BY DEF TypeOK, MiddleEvents
<1>10. \A t \in Seq(MiddleEvents) : t \in Seq(Event)
  BY <1>0
<1> DEFINE Gained(t) == out' = out \o t /\ t \in Seq(MiddleEvents) /\ hasError' = hasError
<1>1. ASSUME out' = out, hasError' = hasError PROVE \E t : Gained(t)
  <2>1. Gained(<<>>)
    BY <1>0, <1>1
  <2> QED
    BY <2>1
<1>2. ASSUME NEW kind \in {"text", "thinking"}, NEW text \in Texts, FeedDelta(kind, text)
      PROVE  (\E t : Gained(t)) /\ ~finished' /\ (contentStarted => contentStarted')
  <2>1. PICK t \in Seq(MiddleEvents) : CloseBlock(out) = out \o t
    BY CloseBlockAdds
  <2>2. <<text>> \in Seq(Texts \cup JSONTexts)
    BY SingletonSeq
  <2> DEFINE a == BlockStart(nextIndex, kind)
             b == BlockDelta(nextIndex, DeltaOf(kind), <<text>>)
             c == BlockDelta(openIndex, DeltaOf(kind), <<text>>)
  <2>3. a \in MiddleEvents /\ b \in MiddleEvents /\ c \in MiddleEvents
    BY <1>0, <2>2, MiddleEventTypes DEF DeltaOf, Kinds
  <2>4. out' = Append(out, c) \/ out' = Append(Append(CloseBlock(out), a), b)
    BY <1>2, Zenon DEF FeedDelta
  <2>5. hasError' = hasError /\ ~finished' /\ contentStarted'
    BY <1>2 DEF FeedDelta, Take, errorVars
  <2> HIDE DEF a, b, c
  <2>6. Append(<<>>, c) \in Seq(MiddleEvents) /\ Append(out, c) = out \o Append(<<>>, c)
    BY <1>0, <2>3
  <2>10. t \in Seq(Event) /\ a \in Event /\ b \in Event
    BY <1>0, <1>10, <2>1, <2>3
  <2>7. Append(out \o t, a) = out \o Append(t, a) /\ Append(t, a) \in Seq(Event)
    BY <1>0, <2>10, AppendAdds
  <2>8. Append(out \o Append(t, a), b) = out \o Append(Append(t, a), b)
    BY <1>0, <2>7, <2>10, AppendAdds
  <2>9. Append(Append(t, a), b) \in Seq(MiddleEvents)
    BY <2>1, <2>3
  <2> QED
    BY <2>1, <2>4, <2>5, <2>6, <2>7, <2>8, <2>9
<1>3. ASSUME NEW input \in ToolInputs, FeedToolCall(input)
      PROVE  (\E t : Gained(t)) /\ ~finished' /\ (contentStarted => contentStarted')
  <2>1. PICK t \in Seq(MiddleEvents) : CloseBlock(out) = out \o t
    BY CloseBlockAdds
  <2> DEFINE a == BlockStart(nextIndex, "tool_use")
             b == BlockDelta(nextIndex, "input_json_delta", <<PartialJSON(input)>>)
             c == BlockStop(nextIndex)
  <2>2. a \in MiddleEvents /\ b \in MiddleEvents /\ c \in MiddleEvents
    BY <1>0, PartialJSONType, MiddleEventTypes DEF Kinds
  <2>3. out' = Append(Append(Append(CloseBlock(out), a), b), c)
    BY <1>3 DEF FeedToolCall
  <2>4. hasError' = hasError /\ ~finished' /\ contentStarted'
    BY <1>3 DEF FeedToolCall, Take, errorVars
  <2> HIDE DEF a, b, c
  <2>10. t \in Seq(Event) /\ a \in Event /\ b \in Event /\ c \in Event
    BY <1>0, <1>10, <2>1, <2>2
  <2>5. Append(out \o t, a) = out \o Append(t, a) /\ Append(t, a) \in Seq(Event)
    BY <1>0, <2>10, AppendAdds
  <2> DEFINE u == Append(t, a)
             v == Append(u, b)
  <2>6. Append(out \o u, b) = out \o v /\ v \in Seq(Event)
    BY <1>0, <2>5, <2>10, AppendAdds
  <2>7. v \in Seq(MiddleEvents) /\ Append(v, c) \in Seq(MiddleEvents)
    BY <2>1, <2>2
  <2> HIDE DEF u, v
  <2>8. Append(out \o v, c) = out \o Append(v, c)
    BY <1>0, <2>6, <2>10, AppendAdds
  <2>9. out' = Append(Append(out \o u, b), c)
    BY <2>1, <2>3, <2>5 DEF u
  <2> QED
    BY <2>4, <2>6, <2>7, <2>8, <2>9
<1>4. ASSUME NEW m, FeedError(m)
      PROVE  /\ out' = out \o <<ErrorEvent(m)>> /\ hasError'
             /\ ~finished' /\ (contentStarted => contentStarted')
  BY <1>0, <1>4 DEF FeedError, Take, blockVars
<1>5. CASE \/ FeedIgnored
           \/ \E r \in Reasons \cup {None}, u \in OptionalUsage :
                FeedFinishStep(r, u) \/ FeedFinish(r, u)
  <2>1. /\ UNCHANGED <<blockVars, errorVars, out, finished>> /\ ~finished
    BY <1>5, Zenon DEF FeedIgnored, FeedFinishStep, FeedFinish, Take
  <2> QED
    BY <1>1, <2>1 DEF blockVars, errorVars
<1>7. ~FeedErrorWithoutDetail
  BY DEF FeedErrorWithoutDetail
<1> QED
  BY <1>2, <1>3, <1>4, <1>5, <1>7 DEF Feed

\* The events of Finish: none after an error, otherwise the last one says
\* whether the message ended well.
LEMMA FinishAdds ==
  ASSUME TypeOK, Finish
  PROVE  /\ finished' /\ ~panicked' /\ hasError' = hasError
         /\ contentStarted' = contentStarted /\ OutputTokens' = OutputTokens
         /\ \E t, e : /\ t \in Seq(MiddleEvents)
                      /\ \/ hasError /\ out' = out
                         \/ /\ ~hasError /\ out' = out \o Append(t, e)
                            /\ \/ OutputTokens = 0 /\ e = ErrorEvent(ZeroOutput)
                               \/ OutputTokens # 0 /\ e = MessageStop
<1>1. /\ finished' /\ ~panicked' /\ hasError' = hasError
      /\ contentStarted' = contentStarted /\ OutputTokens' = OutputTokens
  BY DEF Finish, errorVars, OutputTokens
<1>2. CASE hasError
  <2>1. out' = out /\ <<>> \in Seq(MiddleEvents)
    BY <1>2 DEF Finish
  <2> QED
    BY <1>1, <1>2, <2>1
<1>3. CASE ~hasError
  <2>1. PICK t \in Seq(MiddleEvents) : CloseBlock(out) = out \o t
    BY CloseBlockAdds
  <2> DEFINE d == MessageDelta(stopReason', DeltaUsage(usage, OutputTokens))
             u == Append(t, d)
             e == IF OutputTokens = 0 THEN ErrorEvent(ZeroOutput) ELSE MessageStop
  <2>2. d \in MiddleEvents
    <3>1. stopReason' \in StopReasons
      BY <1>3 DEF Finish, TypeOK, StopReasons
    <3>2. OutputTokens \in Nat /\ usage \in UsageObject
      BY DEF OutputTokens, TypeOK, UsageObject
    <3> QED
      BY <3>1, <3>2, DeltaUsageType, MiddleEventTypes
  <2>3. out' = IF OutputTokens = 0 THEN Append(CloseBlock(out), e) ELSE Append(Append(CloseBlock(out), d), e)
    BY <1>3 DEF Finish
  <2>4. e = ErrorEvent(ZeroOutput) \/ e = MessageStop
    OBVIOUS
  <2>5. OutputTokens = 0 => e = ErrorEvent(ZeroOutput)
    OBVIOUS
  <2>6. OutputTokens # 0 => e = MessageStop
    OBVIOUS
  <2> HIDE DEF d, e
  <2>7. out \in Seq(Event) /\ t \in Seq(Event) /\ d \in Event /\ e \in Event
    <3>1. MiddleEvents \subseteq Event
      BY DEF MiddleEvents
    <3> QED
      BY <2>1, <2>2, <2>4, <3>1, EventTypes DEF TypeOK
  <2>9. Append(out \o t, e) = out \o Append(t, e)
    BY <2>7, AppendAdds
  <2>10. Append(out \o t, d) = out \o u /\ u \in Seq(Event)
    BY <2>7, AppendAdds
  <2>11. Append(out \o u, e) = out \o Append(u, e)
    BY <2>7, <2>10, AppendAdds
  <2>12. u \in Seq(MiddleEvents)
    BY <2>1, <2>2
  <2>13. CASE OutputTokens = 0
    BY <1>1, <1>3, <2>1, <2>3, <2>5, <2>9, <2>13
  <2>14. CASE OutputTokens # 0
    <3>1. out' = out \o Append(u, e) /\ e = MessageStop
      BY <2>1, <2>3, <2>6, <2>10, <2>11, <2>14
    <3> HIDE DEF u
    <3> QED
      BY <1>1, <1>3, <2>12, <2>14, <3>1
  <2> QED
    BY <2>13, <2>14
<1> QED
  BY <1>2, <1>3

\* NewEvents is what was added.
LEMMA NewEventsAdded ==
  ASSUME TypeOK, NEW t, IsSequence(t), out' = out \o t
  PROVE  NewEvents = t
<1>1. IsSequence(out)
  BY DEF TypeOK, IsSequence
<1> QED
  BY <1>1, TailOfConcatenation DEF NewEvents
============================================================================
