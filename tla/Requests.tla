------------------------------ MODULE Requests ------------------------------
(***************************************************************************)
(* What a growing conversation sends upstream.  A client of the Messages,  *)
(* the Chat or the Responses endpoint resends its history, one item longer *)
(* each turn; the endpoint's handler converts it, the Chat and Responses   *)
(* conversions repair the pairing of calls and results, and BuildCcRequest *)
(* makes the envelope.                                                     *)
(***************************************************************************)
EXTENDS Inbound, Envelope

CONSTANTS Ids,       \* call ids
          MaxItems   \* bound on the items of a history, or its blocks

VARIABLES settings,  \* the endpoint, and what decides on thinking and markers
          history,   \* the client's items; on Messages, its messages
          made,      \* the canonical messages made of them, before the repair
          messages,  \* and after it
          envelope,  \* the messages of the envelope
          key,       \* the session key
          warns,
          settled,   \* every call has been answered in its place, see Settles
          earlier    \* what the last request of a settled history sent

requestVars == <<settings, history, made, messages, envelope, key, warns, settled, earlier>>

\* A configuration of each endpoint that the properties tell apart.
Configuration(endpoint, reasoning, replace, systemMarked) ==
  [endpoint |-> endpoint, reasoning |-> reasoning, replace |-> replace,
   systemMarked |-> systemMarked]

Settings ==
  {Configuration("chat", TRUE, FALSE, FALSE),
   Configuration("responses", TRUE, FALSE, FALSE),
   Configuration("responses", FALSE, FALSE, FALSE),
   Configuration("messages", TRUE, FALSE, FALSE),
   Configuration("messages", FALSE, FALSE, TRUE),
   Configuration("messages", TRUE, TRUE, FALSE)}

FromMessages == settings.endpoint = "messages"

\* Both OpenAI protocols lack markers: SynthesizeTailCacheMarker.
NeedsMarker == ~FromMessages \/ settings.systemMarked

\* A history in which every call has been answered in its place and no id is
\* called twice, and whose last word is the user's.
Settles(msgs) ==
  LET merged == IF FromMessages THEN msgs ELSE MergeSameRole(msgs)
      calls  == OfKind(Blocks(msgs), "tool_use")
  IN /\ msgs # <<>> /\ Last(msgs).role = "user"
     /\ Cardinality(IdsOf(calls)) = Len(calls)
     /\ WellFormed(merged)

-----------------------------------------------------------------------------
Nothing == [sent |-> FALSE]

RequestsInit ==
  /\ settings \in Settings
  /\ history = <<>> /\ made = <<>> /\ messages = <<>> /\ envelope = <<>>
  /\ key = PrefixCacheKey(<<>>, <<>>)
  /\ warns = {}
  /\ settled = FALSE
  /\ earlier = Nothing

\* The request pipeline, given the canonical messages and what has been said of
\* them.  A request without messages is refused.
RunPipeline(system, said) ==
  /\ LET built == BuildCcRequest(messages', NeedsMarker, settings)
     IN /\ envelope' = built.msgs
        /\ warns' = said \cup built.warns
  /\ key'     = PrefixCacheKey(system, messages')
  /\ settled' = Settles(made')
  /\ earlier' = IF settled
                THEN [sent |-> TRUE, messages |-> messages, envelope |-> envelope, key |-> key]
                ELSE earlier
  /\ UNCHANGED settings

\* chatToRequest, responsesToRequest: the history is one item longer.
Resend(m) ==
  /\ Len(history) < MaxItems
  /\ history' = Append(history, m)
  /\ made' = Converted(settings.endpoint, history')
  /\ messages' = RepairToolPairing(made')
  /\ RunPipeline(SystemPrompt(history'),
                 InboundWarnings(settings.endpoint, history') \cup Warnings(made'))

Turn == Len(history) + 1

\* Content that the endpoint takes, and content it takes a part of.
Plain == <<"text">>
Mixed == <<"image", "bad">>

ChatMessage ==
  /\ settings.endpoint = "chat"
  /\ \/ \E parts \in {Plain, Mixed} : Resend(Item("user", Turn, parts, <<>>))
     \/ Resend(Item("other", Turn, Plain, <<>>))
     \/ Resend(Item("system", Turn, <<"text", "bad">>, <<>>))

ChatAssistant ==
  /\ settings.endpoint = "chat"
  /\ \/ \E parts \in {<<>>, Plain},
           calls \in {<<>>, <<NoId>>} \cup {<<id>> : id \in Ids}
                     \cup {both \in Ids \X Ids : both[1] # both[2]} :
          Resend(Item("assistant", Turn, parts, calls))
     \/ \E calls \in {<<>>} \cup {<<id>> : id \in Ids} :
          Resend(Item("assistant", Turn, <<"thinking", "bad">>, calls))

ToolOutput(kind) ==
  \/ \E id \in Ids, parts \in {Plain, Mixed} : Resend(Item(kind, Turn, parts, <<id>>))
  \/ Resend(Item(kind, Turn, Plain, <<NoId>>))

ChatTool == settings.endpoint = "chat" /\ ToolOutput("tool")

ResponsesMessage ==
  /\ settings.endpoint = "responses"
  /\ \/ \E parts \in {Plain, Mixed} : Resend(Item("user", Turn, parts, <<>>))
     \/ \E kind \in {"system", "assistant"} : Resend(Item(kind, Turn, <<"text", "bad">>, <<>>))
     \/ \E kind \in {"other", "unsupported"} : Resend(Item(kind, Turn, Plain, <<>>))
     \/ \E parts \in {<<"thinking">>, <<"bad">>, <<"thinking", "bad">>} :
          Resend(Item("reasoning", Turn, parts, <<>>))

ResponsesCall ==
  /\ settings.endpoint = "responses"
  /\ \E id \in Ids \cup {NoId} : Resend(Item("call", Turn, <<>>, <<id>>))

ResponsesOutput == settings.endpoint = "responses" /\ ToolOutput("output")

\* handleMessages: the history is one block longer, in its last message or in
\* a new one.  Its blocks may carry markers, and it is not repaired.
AddBlock(role, b) ==
  LET msgs == {Append(history, Message(role, <<b>>))} \cup
              (IF history # <<>> /\ Last(history).role = role
               THEN {[history EXCEPT ![Len(history)].blocks = Append(@, b)]} ELSE {})
  IN /\ Len(Blocks(history)) < MaxItems
     /\ history' \in msgs
     /\ made' = history' /\ messages' = history'
     /\ RunPipeline(<<>>, {})

BlockNo == Len(Blocks(history)) + 1

MessagesUser ==
  /\ FromMessages
  /\ \/ \E cc \in BOOLEAN : AddBlock("user", Block("text", NoId, BlockNo, <<>>, cc))
     \/ AddBlock("user", Block("document", NoId, BlockNo, <<>>, TRUE))
     \/ \E id \in Ids, part \in {"text", "image", "document"}, cc \in BOOLEAN :
          /\ cc => part = "text"
          /\ AddBlock("user", Block("tool_result", id, BlockNo, <<part>>, cc))

MessagesAssistant ==
  /\ FromMessages
  /\ \/ \E kind \in {"text", "thinking", "redacted_thinking"} :
          AddBlock("assistant", Block(kind, NoId, BlockNo, <<>>, FALSE))
     \/ \E id \in Ids : AddBlock("assistant", Block("tool_use", id, BlockNo, <<>>, FALSE))

RequestsNext ==
  \/ ChatMessage \/ ChatAssistant \/ ChatTool
  \/ ResponsesMessage \/ ResponsesCall \/ ResponsesOutput
  \/ MessagesUser \/ MessagesAssistant

RequestsSpec == RequestsInit /\ [][RequestsNext]_requestVars

-----------------------------------------------------------------------------
\* The three constraints of the comment at the head of pairing.go, and the
\* order of blocks that the comment on pairAssistant asks for: whatever the
\* client sent, every call that goes upstream is answered by the next message,
\* every result follows its call, and roles alternate.
PairingInvariants == FromMessages \/ WellFormed(messages)

\* Repair moves calls and results and nothing else: contents keep their order,
\* the calls that go upstream are the answered ones in their order, and each
\* result is the latest the client sent for its call.
ContentKept ==
  LET sent     == Blocks(made)
      results  == OfKind(sent, "tool_result")
      answered == IdsOf(results)
      kept     == Blocks(messages)
      others(blocks) == Except(Except(blocks, "tool_use"), "tool_result")
  IN FromMessages \/
     /\ others(kept) = others(sent)
     /\ OfKind(kept, "tool_use") =
          WithIds(OfKind(sent, "tool_use"), answered)
     /\ \A r \in ToSet(OfKind(kept, "tool_result")) :
          r.no = Max({s.no : s \in {s \in ToSet(results) : s.id = r.id}})

\* A history that was well-formed once its messages were merged passes as it
\* is (TestRepairToolPairing_ValidSequenceUntouched), if no id is called twice.
\* A client that numbers its calls anew every turn gets its first result
\* replaced by the last one.
LegalUntouched ==
  LET merged == MergeSameRole(made)
      calls  == OfKind(Blocks(made), "tool_use")
  IN ~FromMessages /\ WellFormed(merged) /\ Cardinality(IdsOf(calls)) = Len(calls)
       => messages = merged /\ \A w \in warns : w[1] \notin {"duplicate", "orphan", "unanswered"}

-----------------------------------------------------------------------------
EnvelopeParts == FlattenSeq([i \in DOMAIN envelope |-> envelope[i].parts])

\* What is sent: contents, calls and results, and the media of the results.
Token(kind, id, no) == [kind |-> kind, id |-> id, no |-> no]
TokensOf(blocks) ==
  {Token(b.kind, b.id, b.no) : b \in ToSet(blocks)}
    \cup UNION {{Token(p, b.id, b.no) : p \in ToSet(b.parts) \ {"text"}} : b \in ToSet(blocks)}

ItemTokens(m) ==
  LET answers == m.kind \in {"tool", "output"}
  IN {Token(IF answers THEN "tool_result" ELSE "tool_use", id, m.no) : id \in ToSet(m.calls)}
       \cup {Token(p, IF answers THEN Head(m.calls) ELSE NoId, m.no) :
               p \in IF answers THEN ToSet(m.parts) \ {"text"} ELSE ToSet(m.parts)}

Sent ==
  IF FromMessages THEN TokensOf(Blocks(history))
  ELSE UNION {ItemTokens(history[i]) : i \in DOMAIN history}

Carried ==
  {Token(p.kind, p.id, p.no) : p \in ToSet(EnvelopeParts)}
    \cup (IF FromMessages THEN {} ELSE TokensOf(SystemPrompt(history)))

\* w tells of the loss of t: it names t's call, its kind, or its item.
Tells(w, t) ==
  CASE w[1] \in {"duplicate", "orphan", "unanswered"} -> w[2] = t.id
    [] w[1] = "kind"                                   -> w[2] = t.kind
    [] w[1] \in {"part", "call", "item"}               -> w[2] = t.no
    [] w[1] \in {"role", "empty"}                      -> FALSE

Lost == IF messages = <<>> THEN {} ELSE Sent \ Carried

Told(t) == \E w \in warns : Tells(w, t)

\* The losses that the code is silent about: toolResultContent skips every block
\* of a result that is neither text nor an image, convertAssistant the thinking
\* that is redacted, and respinReasoningText what a reasoning item has besides
\* its summary or its reasoning text.
SilentlyLost(t) ==
  \/ FromMessages /\ t.kind = "document" /\ t.id # NoId
  \/ FromMessages /\ t.kind = "redacted_thinking"
  \/ settings.endpoint = "responses" /\ t.kind = "bad" /\ history[t.no].kind = "reasoning"

\* Whatever of a history is not in the envelope of a request that is sent, a
\* warning names it, unless it is one of these three losses; and each warning of
\* a loss is about one that happened, and none about these three, whatever else
\* is lost.  (On Messages a result without a call is warned of and sent.)
LossTold ==
  LET lost == Lost
  IN /\ \A t \in lost : Told(t) \/ SilentlyLost(t)
     /\ messages # <<>> =>
          \A w \in warns : \/ w[1] \in {"role", "empty"}
                           \/ FromMessages /\ w[1] = "orphan"
                           \/ \E t \in lost : Tells(w, t) /\ ~SilentlyLost(t)

-----------------------------------------------------------------------------
\* In the envelope of a Chat or Responses request a message with calls is
\* followed by their results, one message each, in their order and under the
\* name of the tool that was called (unless an id is called twice); there are
\* no others.  What the repair promises survives the split into messages.
ResultsFollowCalls ==
  LET due(i) == IF envelope[i].role = "assistant" THEN OfKind(envelope[i].parts, "tool_use") ELSE <<>>
      once   == LET calls == OfKind(Blocks(messages), "tool_use")
                IN Cardinality(IdsOf(calls)) = Len(calls)
      parts  == EnvelopeParts
  IN ~FromMessages =>
       /\ \A i \in DOMAIN envelope : \A k \in DOMAIN due(i) :
            /\ i + k \in DOMAIN envelope
            /\ envelope[i + k].role = "tool"
            /\ LET result == Head(envelope[i + k].parts)
               IN result.id = due(i)[k].id /\ (once => result.name = due(i)[k].name)
       /\ Len(OfKind(parts, "tool_result")) = Len(OfKind(parts, "tool_use"))

\* Images that results hold are seen by the model: on every endpoint each is in
\* a user message behind the result that held it and before the assistant
\* speaks again.
MediaFollowsResults ==
  \A r \in ToSet(Results(messages)) : \A i \in DOMAIN envelope :
    /\ "image" \in ToSet(r.parts)
    /\ \E p \in ToSet(envelope[i].parts) : p.kind = "tool_result" /\ p.no = r.no
    => \E j \in (i + 1)..Len(envelope) :
         /\ envelope[j].role = "user"
         /\ \E p \in ToSet(envelope[j].parts) : p.kind = "image" /\ p.no = r.no
         /\ \A k \in i..j : envelope[k].role # "assistant"

\* Breakpoints of the prompt cache: a client's markers stay where they were put
\* and none joins them; a request that has none and cannot have any gets one,
\* at the last text.
BreakpointPlaced ==
  LET parts   == EnvelopeParts
      marked  == {k \in DOMAIN parts : parts[k].cc}
      texts   == {k \in DOMAIN parts : parts[k].kind = "text"}
      clients == IF settings.replace THEN {}
                 ELSE {k \in DOMAIN parts :
                         \E b \in {b \in ToSet(Blocks(messages)) : b.cc} :
                           b.kind = parts[k].kind /\ b.id = parts[k].id /\ b.no = parts[k].no}
  IN marked = IF clients # {} THEN clients
              ELSE IF (NeedsMarker \/ settings.replace) /\ texts # {} THEN {Max(texts)} ELSE {}

-----------------------------------------------------------------------------
Unmarked(msgs) ==
  LET parts == FlattenSeq([i \in DOMAIN msgs |-> msgs[i].parts])
  IN [k \in DOMAIN parts |-> [parts[k] EXCEPT !.cc = FALSE]]

LastMarked(msgs) ==
  LET parts == FlattenSeq([i \in DOMAIN msgs |-> msgs[i].parts])
  IN Max({0} \cup {k \in DOMAIN parts : parts[k].cc})

\* The prompt cache of the upstream pays off: while the system prompt stays, a
\* request of a settled history begins with all that the last such request
\* sent, the breakpoint the proxy sets never moves back, and once the assistant
\* has answered the first user message it goes to the same session, as the
\* comment on PrefixCacheKey says of one conversation.
CacheGrows ==
  LET answered == \E i, j \in DOMAIN earlier.messages :
                    i < j /\ earlier.messages[i].role = "user" /\ earlier.messages[j].role = "assistant"
  IN settled /\ earlier.sent /\ earlier.key.system = key.system =>
       /\ IsPrefix(Unmarked(earlier.envelope), Unmarked(envelope))
       /\ ~FromMessages \/ settings.replace => LastMarked(earlier.envelope) <= LastMarked(envelope)
       /\ answered => key = earlier.key
=============================================================================
