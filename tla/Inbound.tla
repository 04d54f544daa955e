------------------------------ MODULE Inbound ------------------------------
(***************************************************************************)
(* internal/translate/chatin.go and respin.go: what the messages of a Chat *)
(* request, or the input items of a Responses request, become before       *)
(* RepairToolPairing sees them.                                            *)
(*                                                                         *)
(* A client item has a kind (the role of a Chat message; the type, or the  *)
(* role, of a Responses item), content parts, and call ids: those of its   *)
(* calls, or the one it answers.  The part "bad" is one the endpoint does  *)
(* not take: of an unknown type, an image without a usable URL, or a       *)
(* content that is neither a string nor an array; in a reasoning item, what*)
(* is beside its summary or its reasoning text.  A call without a name is  *)
(* dropped like a call without an id, NoId.                                *)
(*                                                                         *)
(* A warning is a pair: why, and the item, the call or the kind of block   *)
(* it is about.                                                            *)
(***************************************************************************)
EXTENDS Pairing

Item(kind, no, parts, calls) == [kind |-> kind, no |-> no, parts |-> parts, calls |-> calls]

\* The parts of m of the given kinds, as blocks, in their order.
Contents(m, kinds) ==
  LET kept == Select(m.parts, kinds)
  IN [i \in DOMAIN kept |-> Content(kept[i], m.no)]

\* Calls that can be paired; the others are dropped.
ToolUses(m) ==
  LET kept == Select(m.calls, ToSet(m.calls) \ {NoId})
  IN [i \in DOMAIN kept |-> Call(kept[i], m.no)]

\* chatToolResultMessage, convertToolOutputItem: a result without a call id is
\* dropped, content that cannot be used is left out.
ToolResult(m) ==
  IF Head(m.calls) = NoId THEN <<>>
  ELSE <<Result(Head(m.calls), m.no, Select(m.parts, {"text", "image"}))>>

UnusableParts(m, kinds) == {<<"part", m.no>> : p \in ToSet(m.parts) \ kinds}
UnpairableCalls(m) == {<<"call", m.no>> : id \in ToSet(m.calls) \cap {NoId}}

-----------------------------------------------------------------------------
\* Chat: system and developer messages go to the system prompt; a message of
\* an unknown role becomes a user message.

\* chatUserBlocks.
ChatUserBlocks(m) == Contents(m, {"text", "image"})

\* chatAssistantBlocks: thinking, texts and calls, in this order.
ChatAssistantBlocks(m) == Contents(m, {"thinking"}) \o Contents(m, {"text"}) \o ToolUses(m)

ChatBlocks(m) ==
  CASE m.kind = "system"            -> <<>>
    [] m.kind \in {"user", "other"} -> ChatUserBlocks(m)
    [] m.kind = "assistant"         -> ChatAssistantBlocks(m)
    [] m.kind = "tool"              -> ToolResult(m)

ChatDropped(m) ==
  UnpairableCalls(m) \cup
  CASE m.kind = "system"            -> UnusableParts(m, {"text"})
    [] m.kind \in {"user", "other"} -> UnusableParts(m, {"text", "image"})
    [] m.kind = "assistant"         -> UnusableParts(m, {"thinking", "text"})
    [] m.kind = "tool"              ->
         IF ToolResult(m) = <<>> THEN {} ELSE UnusableParts(m, {"text", "image"})

\* Chat says so when nothing of a message is left and nothing else was said.
ChatWarnings(m) ==
  ChatDropped(m)
    \cup {<<"role", m.no>> : k \in {m.kind} \cap {"other"}}
    \cup (IF m.kind \in {"user", "other", "assistant"} /\ ChatBlocks(m) = <<>> /\ ChatDropped(m) = {}
          THEN {<<"empty", m.no>>} ELSE {})

-----------------------------------------------------------------------------
\* Responses: a call, an output and a reasoning are items of their own, and an
\* item of an unsupported type is dropped.  Of a reasoning the thinking alone is
\* kept, and nothing is said of the rest (respinReasoningText).

\* convertItem, convertMessageItem.
ResponsesBlocks(m) ==
  CASE m.kind \in {"system", "unsupported"} -> <<>>
    [] m.kind \in {"user", "other"}         -> Contents(m, {"text", "image"})
    [] m.kind = "assistant"                 -> Contents(m, {"text"})
    [] m.kind = "call"                      -> ToolUses(m)
    [] m.kind = "output"                    -> ToolResult(m)
    [] m.kind = "reasoning"                 -> Contents(m, {"thinking"})

ResponsesWarnings(m) ==
  UnpairableCalls(m) \cup
  CASE m.kind = "unsupported" -> {<<"item", m.no>>}
    [] m.kind = "user"        -> UnusableParts(m, {"text", "image"})
    [] m.kind = "other"       -> {<<"role", m.no>>} \cup UnusableParts(m, {"text", "image"})
    [] m.kind = "output"      ->
         IF ToolResult(m) = <<>> THEN {} ELSE UnusableParts(m, {"text", "image"})
    [] m.kind \in {"system", "assistant"} -> UnusableParts(m, {"text"})
    [] m.kind \in {"call", "reasoning"}   -> {}

-----------------------------------------------------------------------------
RoleOf(m) == IF m.kind \in {"assistant", "call", "reasoning"} THEN "assistant" ELSE "user"

BlocksOf(endpoint, m) == IF endpoint = "chat" THEN ChatBlocks(m) ELSE ResponsesBlocks(m)

\* chatToRequest, responsesToRequest: the messages made of the items, ...
Converted(endpoint, items) ==
  FlattenSeq([i \in DOMAIN items |->
    LET blocks == BlocksOf(endpoint, items[i])
    IN IF blocks = <<>> THEN <<>> ELSE <<Message(RoleOf(items[i]), blocks)>>])

\* ... the texts of the system prompt, ...
SystemPrompt(items) ==
  FlattenSeq([i \in DOMAIN items |->
    IF items[i].kind = "system" THEN Contents(items[i], {"text"}) ELSE <<>>])

\* ... and what is said of them.
InboundWarnings(endpoint, items) ==
  UNION {IF endpoint = "chat" THEN ChatWarnings(items[i]) ELSE ResponsesWarnings(items[i]) :
           i \in DOMAIN items}
=============================================================================
