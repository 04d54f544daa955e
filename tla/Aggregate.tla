----------------------------- MODULE Aggregate -----------------------------
(***************************************************************************)
(* internal/translate/aggregate.go: the Aggregator, which folds the same   *)
(* Anthropic events the streaming path sends into the one Message of a     *)
(* non-streaming answer.  Here it consumes the events of the translator,   *)
(* as the shared pipeline makes it do.                                     *)
(***************************************************************************)
EXTENDS StreamTranslator

VARIABLE agg  \* the Aggregator: content, inputJSON, stop_reason, usage

EmptyBlock(kind) == [type |-> kind, text |-> <<>>, signature |-> <<>>, input |-> "emptyObject"]

NewAggregator ==
  [content |-> <<>>, inputJSON |-> <<>>, stop_reason |-> None, usage |-> NoTokens]

\* inputJSON is a map from block index to the fragments written so far.
WithInput(inputs, i, fragments) ==
  [k \in DOMAIN inputs \cup {i} |-> IF k = i THEN fragments ELSE inputs[k]]

\* A start appends a block; a tool_use block gets a buffer for its input.
AggregateStart(a, e) ==
  [a EXCEPT !.content = Append(@, EmptyBlock(e.kind)),
            !.inputJSON = IF e.kind = "tool_use" THEN WithInput(@, e.index, <<>>) ELSE @]

\* Mutant: a chunk replaces what was written before.
WrittenOver(buffer, chunk) == chunk

\* blk.Text += and WriteString.
Written(buffer, chunk) == buffer \o chunk

\* A delta joins the latest block, whatever its index; only the fragments of
\* a tool input go by index.
AggregateDelta(a, e) ==
  LET last == Len(a.content)
  IN CASE last = 0 -> a
       [] last > 0 /\ e.delta \in {"text_delta", "thinking_delta"} ->
            [a EXCEPT !.content[last].text = Written(@, e.payload)]
       [] last > 0 /\ e.delta = "signature_delta" ->
            [a EXCEPT !.content[last].signature = e.payload]
       [] last > 0 /\ e.delta = "input_json_delta" ->
            IF e.index \in DOMAIN a.inputJSON
            THEN [a EXCEPT !.inputJSON[e.index] = Written(@, e.payload)]
            ELSE a

\* Feed.  Errors, stops and message_stop leave the aggregator as it is.
AggregateFeed(a, e) ==
  CASE e.name = "content_block_start" -> AggregateStart(a, e)
    [] e.name = "content_block_delta" -> AggregateDelta(a, e)
    [] e.name = "message_delta" ->
         [a EXCEPT !.stop_reason = e.stop_reason, !.usage = e.usage]
    [] OTHER -> a

\* Whether the fragments of one input make a JSON text.
ValidJSON(fragments) == fragments \in {<<"emptyObject">>, <<"json">>}

\* Mutant: a broken input reaches the message.
MessageInputUnchecked(fragments) == IF fragments = <<>> THEN "emptyObject" ELSE fragments[1]

MessageInput(fragments) == IF ValidJSON(fragments) THEN fragments[1] ELSE "emptyObject"

\* Message(): the input collected under index i goes to the block at that
\* position, an index beyond the content is skipped.
Message(a) ==
  [content |-> [p \in DOMAIN a.content |->
      IF p - 1 \in DOMAIN a.inputJSON
      THEN [a.content[p] EXCEPT !.input = MessageInput(a.inputJSON[p - 1])]
      ELSE a.content[p]],
   stop_reason |-> a.stop_reason, usage |-> a.usage]

---------------------------------------------------------------------------
(* Properties. *)

Starts(s) == {i \in 1..Len(s) : IsStart(s[i])}

\* The deltas of block b in stream s: those of its text, those of its input.
TextDeltas(s, b) ==
  {i \in 1..Len(s) :
     IsDelta(s[i]) /\ s[i].index = b /\ s[i].delta \in {"text_delta", "thinking_delta"}}

InputDeltas(s, b) ==
  {i \in 1..Len(s) : IsDelta(s[i]) /\ s[i].index = b /\ s[i].delta = "input_json_delta"}

\* The chunks are the ones the events at the positions P of s carry, one each.
Carried(chunks, s, P) ==
  /\ Len(chunks) = Cardinality(P)
  /\ \A i \in P : s[i].payload = <<chunks[Place(P, i)]>>

\* Block b of the message is what a client SDK assembles from stream s for the
\* block that event i starts: every delta goes to the block it names, by index.
Assembled(b, s, i) ==
  /\ b.type = s[i].kind
  /\ Carried(b.text, s, TextDeltas(s, s[i].index))
  /\ \A k \in InputDeltas(s, s[i].index) :
       InputDeltas(s, s[i].index) = {k} /\ ValidJSON(s[k].payload) => b.input = s[k].payload[1]

\* At every point of the stream, the message built so far is what a client
\* assembles from the events: same blocks at the same positions, same text,
\* although Feed appends to the latest block without looking at the index.
MessageMatchesStream ==
  LET blocks == Message(agg).content
  IN /\ Len(blocks) = Cardinality(Starts(out))
     /\ \A i \in Starts(out) :
          out[i].index < Len(blocks) /\ Assembled(blocks[out[i].index + 1], out, i)

\* The n-th tool call of the upstream is the n-th tool_use block of the
\* message and carries its own input, or the empty object when that input is
\* not JSON: no tool gets another one's input, and no broken JSON enters the
\* client's history.
ToolInputsKeptApart ==
  LET blocks == Message(agg).content
      calls  == ToolLines(fed)
      tools  == {p \in 1..Len(blocks) : blocks[p].type = "tool_use"}
  IN /\ Cardinality(tools) = Cardinality(calls)
     /\ \A i \in calls, p \in tools : Place(calls, i) = Place(tools, p) =>
          blocks[p].input = IF fed[i].input \in {"object", "jsonString"}
                            THEN "json" ELSE "emptyObject"
=============================================================================
