------------------------------ MODULE Envelope ------------------------------
(***************************************************************************)
(* internal/translate/request.go: BuildCcRequest, which turns the messages *)
(* of a request of any endpoint into those of the upstream's envelope, and *)
(* PrefixCacheKey, which chooses its session.                              *)
(*                                                                         *)
(* The upstream takes a result in a message of its own, of role tool, that *)
(* holds text alone: the images of a result move to a user message behind  *)
(* it.  A part keeps the kind of the block it was made of (tool_use for    *)
(* tool-call, tool_result for tool-result, thinking for reasoning).        *)
(***************************************************************************)
EXTENDS Pairing

CcMessage(role, parts) == [role |-> role, parts |-> parts]

\* `name' is the tool's name, known by the call that gave it.
Part(b) == [kind |-> b.kind, id |-> b.id, no |-> b.no, name |-> b.no, cc |-> b.cc]

\* Mutant: only the last message with calls names them.
LastNames(msgs) ==
  LET calling == Select(msgs, {m \in ToSet(msgs) : OfKind(m.blocks, "tool_use") # <<>>})
      calls   == IF calling = <<>> THEN <<>> ELSE OfKind(Last(calling).blocks, "tool_use")
  IN [id \in IdsOf(calls) |-> Last(WithIds(calls, {id})).no]

\* toolNames: the last call of an id names it.
ToolNames(msgs) ==
  LET calls == OfKind(Blocks(msgs), "tool_use")
  IN [id \in IdsOf(calls) |-> Last(WithIds(calls, {id})).no]

-----------------------------------------------------------------------------
\* The images of a result, each under a label that names its call.
Relocated(b) ==
  LET images == Select(b.parts, {"image"})
      moved(kind) == Part(Block(kind, b.id, b.no, <<>>, FALSE))
  IN FlattenSeq([i \in DOMAIN images |-> <<moved("text"), moved("image")>>])

\* Mutant: the images go behind what the user wrote.
FlushUserLast(acc) ==
  IF acc.user = <<>> THEN acc
  ELSE [acc EXCEPT !.out = Append(@, CcMessage("user", acc.user \o acc.reloc)),
                   !.user = <<>>, !.reloc = <<>>]

\* flushUser: the user segment goes out, with the images that wait for one.
FlushUser(acc) ==
  IF acc.user = <<>> THEN acc
  ELSE [acc EXCEPT !.out = Append(@, CcMessage("user", acc.reloc \o acc.user)),
                   !.user = <<>>, !.reloc = <<>>]

UserBlock(acc, b, toolNames) ==
  CASE b.kind \in {"text", "image"} -> [acc EXCEPT !.user = Append(@, Part(b))]
    [] b.kind = "tool_result" /\ b.id \in DOMAIN toolNames ->
         LET flushed == FlushUser(acc)
         IN [flushed EXCEPT
               !.out   = Append(@, CcMessage("tool", <<[Part(b) EXCEPT !.name = toolNames[b.id]]>>)),
               !.reloc = @ \o Relocated(b)]
    [] b.kind = "tool_result" /\ b.id \notin DOMAIN toolNames ->
         [FlushUser(acc) EXCEPT !.warns = @ \cup {<<"orphan", b.id>>}]
    [] b.kind \notin {"text", "image", "tool_result"} ->
         [acc EXCEPT !.warns = @ \cup {<<"kind", b.kind>>}]

UserBlocks(m, toolNames) ==
  LET after[n \in 0..Len(m.blocks)] ==
        IF n = 0 THEN [out |-> <<>>, user |-> <<>>, reloc |-> <<>>, warns |-> {}]
        ELSE UserBlock(after[n - 1], m.blocks[n], toolNames)
  IN FlushUser(after[Len(m.blocks)])

\* Mutant: images that no user segment follows are left behind.
ImagesForgotten(m, toolNames) ==
  LET done == UserBlocks(m, toolNames)
  IN [msgs |-> done.out, warns |-> done.warns]

\* convertUser: images that no user segment follows make one of their own.
ConvertUser(m, toolNames) ==
  LET done == UserBlocks(m, toolNames)
  IN [msgs  |-> IF done.reloc = <<>> THEN done.out
                ELSE Append(done.out, CcMessage("user", done.reloc)),
      warns |-> done.warns]

\* The kinds of block an assistant part is made of, in the upstream's order.
AssistantKinds(reasoning) ==
  (IF reasoning THEN <<"thinking">> ELSE <<>>) \o <<"text", "tool_use">>

\* Mutant: nothing is said of the thinking that is not replayed.
ThinkingUnsaid(m, reasoning) ==
  {b.kind : b \in ToSet(m.blocks)} \ {"thinking", "text", "tool_use", "redacted_thinking"}

\* Redacted thinking has no text to send and is skipped.
AssistantLost(m, reasoning) ==
  {b.kind : b \in ToSet(m.blocks)} \ (ToSet(AssistantKinds(reasoning)) \cup {"redacted_thinking"})

\* convertAssistant.
ConvertAssistant(m, reasoning) ==
  LET kinds == AssistantKinds(reasoning)
      kept  == FlattenSeq([k \in DOMAIN kinds |-> OfKind(m.blocks, kinds[k])])
  IN [msgs  |-> IF kept = <<>> THEN <<>>
                ELSE <<CcMessage("assistant", [i \in DOMAIN kept |-> Part(kept[i])])>>,
      warns |-> {<<"kind", kind>> : kind \in AssistantLost(m, reasoning)}]

-----------------------------------------------------------------------------
\* CC_CACHE_MARKERS=replace: the markers of the client are taken off.
Stripped(msgs) ==
  [i \in DOMAIN msgs |->
    [msgs[i] EXCEPT !.blocks = [j \in DOMAIN @ |-> [@[j] EXCEPT !.cc = FALSE]]]]

TextsIn(m) == {j \in DOMAIN m.parts : m.parts[j].kind = "text"}

\* Mutant: a marker joins those that are there.
MarkerAdded(msgs, need) ==
  LET texts == {i \in DOMAIN msgs : TextsIn(msgs[i]) # {}}
  IN IF ~need \/ texts = {} THEN msgs
     ELSE [msgs EXCEPT ![Max(texts)].parts[Max(TextsIn(msgs[Max(texts)]))].cc = TRUE]

\* synthesizeCacheMarker: the last text part of the envelope, from its tail,
\* gets a marker if none is there.
SynthesizeCacheMarker(msgs, need) ==
  LET marked == \E i \in DOMAIN msgs : \E j \in DOMAIN msgs[i].parts : msgs[i].parts[j].cc
      texts  == {i \in DOMAIN msgs : TextsIn(msgs[i]) # {}}
  IN IF ~need \/ marked \/ texts = {} THEN msgs
     ELSE [msgs EXCEPT ![Max(texts)].parts[Max(TextsIn(msgs[Max(texts)]))].cc = TRUE]

\* BuildCcRequest.  `need' says that the request has no other way to ask for a
\* breakpoint: its protocol has no markers, or it marked its system prompt or
\* its tools, for which the envelope has none.
BuildCcRequest(msgs, need, settings) ==
  LET parsed  == IF settings.replace THEN Stripped(msgs) ELSE msgs
      names   == ToolNames(parsed)
      made    == [i \in DOMAIN parsed |->
                    IF parsed[i].role = "assistant"
                    THEN ConvertAssistant(parsed[i], settings.reasoning)
                    ELSE ConvertUser(parsed[i], names)]
  IN [msgs  |-> SynthesizeCacheMarker(FlattenSeq([i \in DOMAIN made |-> made[i].msgs]),
                                      need \/ settings.replace),
      warns |-> UNION {made[i].warns : i \in DOMAIN made}]

\* PrefixCacheKey: the session follows the system prompt and the texts of the
\* first user message (and the tools, which stay the same here).
PrefixCacheKey(system, msgs) ==
  LET users == Select(msgs, {m \in ToSet(msgs) : m.role = "user"})
      texts == IF users = <<>> THEN <<>> ELSE OfKind(Head(users).blocks, "text")
  IN [system |-> system, first |-> [i \in DOMAIN texts |-> texts[i].no]]
=============================================================================
