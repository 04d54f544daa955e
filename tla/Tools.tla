------------------------------- MODULE Tools -------------------------------
(***************************************************************************)
(* What a request asks of the tools, and what of it reaches the upstream:  *)
(* the declarations, tool_choice, parallel_tool_calls, the thinking effort *)
(* and max_tokens, on the way from each of the three endpoints through its *)
(* conversion (chatin.go, respin.go) and BuildCcRequest (request.go).  A   *)
(* request grows by one declaration or one setting a step; it is converted *)
(* anew each time.                                                         *)
(***************************************************************************)
EXTENDS ToolSet

CONSTANTS Declarable,    \* the tools a Responses client may declare
          Discoverable,  \* and those a search may find for it
          Functions,     \* the tools of the other two endpoints
          MaxFields      \* bound on declarations and settings of a request

VARIABLES
  request,   \* what the client sends
  toolSet,   \* the Responses conversion's tools and mapping
  sent       \* the part of the envelope this is about, and what was said

toolVars == <<request, toolSet, sent>>

\* What a request can be made of: a namespace's children have none themselves.
PlainTools == [type : STRING, name : Seq(STRING), schema : STRING, children : {<<>>}]
AllTools   == [type : STRING, name : Seq(STRING), schema : STRING, children : Seq(PlainTools)]

ASSUME ToolsAssumption == Declarable \cup Discoverable \cup Functions \subseteq AllTools

Absent == "absent"

\* tool_choice as a string, as an object, and as something else.
Word(type)          == [form |-> "string", type |-> type, name |-> NoName, disable |-> Absent]
Object(type, name)  == [form |-> "object", type |-> type, name |-> name, disable |-> Absent]
Unparsable          == [form |-> "other", type |-> Absent, name |-> NoName, disable |-> Absent]
NoChoice            == [form |-> "none", type |-> Absent, name |-> NoName, disable |-> Absent]

-----------------------------------------------------------------------------
(* The conversions.  Each gives its result and what it says. *)

Outcome(value, warns) == [value |-> value, warns |-> warns]

Fallback == Outcome(Object("auto", NoName), {<<"choice", "fallback">>})

\* chatToolChoice and responsesToolChoice, which differ in the types that name
\* a tool.  Without tools the field is not set.
ToolChoice(choice, hasTools, named) ==
  CASE choice = NoChoice -> Outcome(NoChoice, {})
    [] choice # NoChoice /\ ~hasTools -> Outcome(NoChoice, {<<"choice", "ignored">>})
    [] choice # NoChoice /\ hasTools ->
         CASE choice.type \in {"auto", "none"} -> Outcome(Object(choice.type, NoName), {})
           [] \/ choice.type = "required"
              \/ choice.type = "any" /\ choice.form = "object" -> Outcome(Object("any", NoName), {})
           [] choice.form = "object" /\ choice.type \in named /\ choice.name # NoName ->
                Outcome(Object("tool", choice.name), {})
           [] OTHER -> Fallback

\* Mutant: the flag is only put into a tool_choice that is there.
ParallelMerged(parallel, hasTools, choice) ==
  IF parallel = "false" /\ hasTools /\ choice # NoChoice
  THEN Outcome([choice EXCEPT !.disable = "true"], {})
  ELSE Outcome(choice, IF parallel = "false" /\ ~hasTools THEN {<<"parallel", "ignored">>} ELSE {})

\* chatApplyParallelToolCalls, whose tool_choice is none or an object of
\* ToolChoice, with the warning of its two callers.
ApplyParallel(parallel, hasTools, choice) ==
  CASE parallel # "false" -> Outcome(choice, {})
    [] parallel = "false" /\ ~hasTools -> Outcome(choice, {<<"parallel", "ignored">>})
    [] parallel = "false" /\ hasTools ->
         LET present == IF choice = NoChoice THEN Object("auto", NoName) ELSE choice
         IN Outcome([present EXCEPT !.disable = "true"], {})

\* chatReasoningEffort, for both protocols.
ReasoningEffort(effort) ==
  CASE effort \in {Absent, "none"} -> Outcome(Absent, {})
    [] effort \in {"low", "high"}  -> Outcome(effort, {})
    [] effort = "minimal"          -> Outcome("low", {})
    [] effort = "unknown"          -> Outcome(Absent, {<<"effort", "unknown">>})

\* chatTools keeps functions that have a name, and no others.
ChatTools(tools) ==
  LET kept == SelectSeq(tools, LAMBDA t : Usable(t, "function"))
  IN Outcome(kept, {<<"dropped", t>> : t \in ToSet(tools) \ ToSet(kept)})

-----------------------------------------------------------------------------
(* BuildCcRequest. *)

\* convertTools.
ConvertTools(tools) ==
  Outcome([k \in DOMAIN tools |-> [name |-> tools[k].name, schema |-> NormalizeSchema(tools[k].schema)]],
         {<<"replaced", t.name>> : t \in {t \in ToSet(tools) : NormalizeSchema(t.schema) # t.schema}})

\* convertToolChoice: what is no object with a type is passed over in silence.
ConvertToolChoice(choice) ==
  LET legal == choice.type \in {"auto", "any", "tool", "none"}
  IN IF choice.form # "object" THEN Outcome(NoChoice, {})
     ELSE Outcome(IF legal THEN choice ELSE [Object("auto", NoName) EXCEPT !.disable = choice.disable],
                 IF ~legal \/ (choice.type = "tool" /\ choice.name = NoName)
                 THEN {<<"choice", "fallback">>} ELSE {})

\* thinkingEffort.  The OpenAI endpoints make an adaptive thinking of their
\* effort; a budget is one of the Messages endpoint's.
ThinkingEffort(thinking) ==
  CASE thinking \in {Absent, "disabled", "budget0"} -> Absent
    [] thinking \in {"low", "high"}  -> thinking
    [] thinking = "adaptive"         -> "medium"
    [] thinking = "budget1"          -> "low"
    [] thinking = "budget5000"       -> "medium"
    [] thinking = "budget10000"      -> "high"

DefaultTokens == 64000
CeilingTokens == 200000

\* A limit that is not positive is none; a high one is clamped.
MaxTokens(n) ==
  Outcome(IF n <= 0 THEN DefaultTokens ELSE IF n > CeilingTokens THEN CeilingTokens ELSE n,
         IF n > CeilingTokens THEN {<<"max_tokens", "clamped">>} ELSE {})

CcParams(tools, choice, effort, n, warns) ==
  LET made   == ConvertTools(tools)
      chosen == ConvertToolChoice(choice)
      tokens == MaxTokens(n)
  IN [refused |-> None, tools |-> made.value, choice |-> chosen.value,
      effort |-> ThinkingEffort(effort), max_tokens |-> tokens.value,
      warns |-> warns \cup made.warns \cup chosen.warns \cup tokens.warns]

Refusal(error) ==
  [refused |-> error, tools |-> <<>>, choice |-> NoChoice, effort |-> Absent,
   max_tokens |-> 0, warns |-> {}]

-----------------------------------------------------------------------------
(* The three endpoints. *)

\* chatToRequest and responsesToRequest, once they have the tools.
OpenAIRequest(r, tools, named, warns) ==
  LET hasTools == tools # <<>>
      choice   == ToolChoice(r.choice, hasTools, named)
      merged   == ApplyParallel(r.parallel, hasTools, choice.value)
      effort   == ReasoningEffort(r.effort)
  IN CcParams(tools, merged.value, effort.value, r.max_tokens,
              warns \cup choice.warns \cup merged.warns \cup effort.warns)

ChatRequest(r) ==
  LET tools == ChatTools(r.top) IN OpenAIRequest(r, tools.value, {"function"}, tools.warns)

\* declaresToolSearch, collectToolDeclarations.
DeclaresToolSearch(tools) == \E k \in DOMAIN tools : tools[k].type = "tool_search"
ToolSearch(r) == DeclaresToolSearch(r.top) \/ DeclaresToolSearch(r.additional)

ResponsesToolSet(r) == ResponsesTools(r.top, r.additional, r.outputs, ToolSearch(r))

ResponsesRequest(r, set) ==
  IF set.error # None THEN Refusal(set.error)
  ELSE OpenAIRequest(r, set.tools, {"function", "custom"},
         set.warns \cup {<<"notPromoted", output>> :
                           output \in {o \in ToSet(r.outputs) : ~Promotable(ToolSearch(r), o)}})

\* handleMessages gives the request to BuildCcRequest as it is.
MessagesRequest(r) == CcParams(r.top, r.choice, r.effort, r.max_tokens, {})

-----------------------------------------------------------------------------
Endpoints == {"messages", "chat", "responses"}

\* What clients may put into the fields, apart from the tools.
ChoicesOf(endpoint) ==
  IF endpoint = "messages"
  THEN [form : {"object"}, type : {"auto", "any", "none", "unknown"}, name : {NoName},
        disable : {Absent, "true", "false"}]
       \cup [form : {"object"}, type : {"tool"}, name : {NoName, <<"a">>}, disable : {Absent, "true"}]
  ELSE {Word(type) : type \in {"auto", "none", "required", "any"}}
       \cup {Object(type, NoName) : type \in {"auto", "none", "required", "any", "allowed_tools"}}
       \cup {Object(type, name) : type \in {"function", "custom"}, name \in {NoName, <<"a">>}}
       \cup {Unparsable}

Efforts(endpoint) ==
  IF endpoint = "messages"
  THEN {"disabled", "adaptive", "budget0", "budget1", "budget5000", "budget10000"}
  ELSE {"none", "minimal", "low", "high", "unknown"}

Limits == {1, CeilingTokens, CeilingTokens + 1}

Outputs ==
  {[status |-> status, tools |-> <<tool>>] : status \in {"completed", "incomplete"}, tool \in Discoverable}
    \cup {[status |-> "completed", tools |-> <<>>]}

NewRequest(endpoint) ==
  [endpoint |-> endpoint, top |-> <<>>, additional |-> <<>>, outputs |-> <<>>,
   choice |-> NoChoice, parallel |-> Absent, effort |-> Absent, max_tokens |-> 0]

Fields(r) ==
  Len(r.top) + Len(r.additional) + Len(r.outputs)
    + Cardinality({f \in {"choice", "parallel", "effort", "max_tokens"} :
                     r[f] # NewRequest(r.endpoint)[f]})

Conversion(r, set) ==
  CASE r.endpoint = "messages"  -> MessagesRequest(r)
    [] r.endpoint = "chat"      -> ChatRequest(r)
    [] r.endpoint = "responses" -> ResponsesRequest(r, set)

ToolsInit ==
  /\ request \in {NewRequest(endpoint) : endpoint \in Endpoints}
  /\ toolSet = ResponsesToolSet(request)
  /\ sent = Conversion(request, toolSet)

\* The request r is converted and, if it is accepted, sent.
Converts(r) ==
  /\ Fields(r) <= MaxFields
  /\ request' = r
  /\ toolSet' = IF r.endpoint = "responses" THEN ResponsesToolSet(r) ELSE toolSet
  /\ sent' = Conversion(r, toolSet')

DeclareOnTop ==
  \E tool \in IF request.endpoint = "responses" THEN Declarable ELSE Functions :
    Converts([request EXCEPT !.top = Append(@, tool)])

\* additional_tools and tool_search_output items of the input.
DeclareInItem ==
  /\ request.endpoint = "responses"
  /\ \E tool \in Declarable : Converts([request EXCEPT !.additional = Append(@, tool)])

ShowDiscovered ==
  /\ request.endpoint = "responses"
  /\ \E output \in Outputs : Converts([request EXCEPT !.outputs = Append(@, output)])

Choose ==
  /\ request.choice = NoChoice
  /\ \E choice \in ChoicesOf(request.endpoint) : Converts([request EXCEPT !.choice = choice])

SetParallel ==
  /\ request.endpoint # "messages" /\ request.parallel = Absent
  /\ \E parallel \in {"true", "false"} : Converts([request EXCEPT !.parallel = parallel])

SetEffort ==
  /\ request.effort = Absent
  /\ \E effort \in Efforts(request.endpoint) : Converts([request EXCEPT !.effort = effort])

SetLimit ==
  /\ request.max_tokens = 0
  /\ \E n \in Limits : Converts([request EXCEPT !.max_tokens = n])

ToolsNext ==
  DeclareOnTop \/ DeclareInItem \/ ShowDiscovered \/ Choose \/ SetParallel \/ SetEffort \/ SetLimit

ToolsSpec == ToolsInit /\ [][ToolsNext]_toolVars

-----------------------------------------------------------------------------
(* Properties. *)

\* The tools that the client declared one by one, a namespace's among them, as
\* the client knows them; `flat' is the name that the upstream knows.
Leaf(tool, ns) ==
  LET custom == tool.type = "custom" search == tool.type = "tool_search"
  IN [type |-> tool.type, name |-> tool.name, namespace |-> ns,
      flat   |-> IF search THEN SearchName ELSE Flatten(ns, tool.name),
      schema |-> IF custom THEN CustomSchema ELSE IF search THEN SearchSchema
                 ELSE NormalizeSchema(tool.schema)]

Callable(tool)  == Usable(tool, "function") \/ Usable(tool, "custom")
NamedLeaf(tool) == tool.type = "tool_search" \/ Callable(tool)

LeavesOf(tool) ==
  IF NamedLeaf(tool) THEN {Leaf(tool, NoName)}
  ELSE IF Usable(tool, "namespace")
       THEN {Leaf(c, tool.name) : c \in {c \in ToSet(tool.children) : Callable(c)}}
       ELSE {}

UnusableOf(tool) ==
  IF NamedLeaf(tool) THEN {}
  ELSE IF Usable(tool, "namespace") THEN {c \in ToSet(tool.children) : ~Callable(c)}
  ELSE {tool}

Declarations == ToSet(request.top) \cup ToSet(request.additional)
Shown == UNION {ToSet(o.tools) : o \in {o \in ToSet(request.outputs) : Promotable(ToolSearch(request), o)}}

Leaves ==
  (UNION {LeavesOf(t) : t \in Declarations}) \cup {Leaf(t, NoName) : t \in {t \in Shown : Callable(t)}}

Unusable ==
  (UNION {UnusableOf(t) : t \in Declarations}) \cup {t \in Shown : ~Callable(t)}

\* A client's own tool is among the tools of the request more than once, as it is
\* or within a namespace; the proxy's tool may be.
ChildTwice(tool) ==
  /\ ~NamedLeaf(tool) /\ Usable(tool, "namespace")
  /\ \E j, k \in DOMAIN tool.children :
       /\ j # k /\ Callable(tool.children[j]) /\ Callable(tool.children[k])
       /\ Leaf(tool.children[j], tool.name) = Leaf(tool.children[k], tool.name)

DeclaredTwice(tools) ==
  \/ \E k \in DOMAIN tools : ChildTwice(tools[k])
  \/ \E j, k \in DOMAIN tools : j # k /\ \E l \in LeavesOf(tools[j]) \cap LeavesOf(tools[k]) :
       l.type # "tool_search"

Clash(leaves) == \E l, m \in leaves : l # m /\ l.flat = m.flat

OnResponses == request.endpoint = "responses" /\ sent.refused = None

AsTool(l) == [name |-> l.flat, schema |-> l.schema]

\* No declaration is lost or replaced in silence, which the head of respin.go
\* calls the risk of the downgrade: in a request that is accepted every tool is
\* there for the model under its flattened name and with its own schema, no two
\* tools have one name, nothing else is there, and of the rest each was told.  A
\* request is only refused for two tools that flatten to one name, or one tool
\* that its tools declare twice.
EveryToolReachable ==
  /\ OnResponses =>
       /\ \A l \in Leaves : AsTool(l) \in ToSet(sent.tools)
       /\ \A t \in ToSet(sent.tools) : \E l \in Leaves : t = AsTool(l)
       /\ \A j, k \in DOMAIN sent.tools : sent.tools[j].name = sent.tools[k].name => j = k
       /\ \A t \in Unusable : <<"dropped", t>> \in sent.warns
  /\ sent.refused # None => Clash(Leaves) \/ DeclaredTwice(request.top)

\* The items that a call of l should come back as.
AsDeclared(l) ==
  CASE l.type = "tool_search" -> CallItem("tool_search_call", NoName, NoName)
    [] l.type = "custom"      -> CallItem("custom_tool_call", l.name, l.namespace)
    [] l.type = "function"    -> CallItem("function_call", l.name, l.namespace)

\* The call of a tool comes back as the call of one the client declared under
\* that name, whatever else the request declares: the kind of item, the name and
\* the namespace are those of one declaration.  Left out are the free-text tools
\* of a namespace, see CallsReturnAsDeclared.
CallsComeBack ==
  OnResponses => \A t \in ToSet(sent.tools) :
    LET declared == {l \in Leaves : l.flat = t.name}
    IN \/ \E l \in declared : l.type = "custom" /\ l.namespace # NoName
       \/ \E l \in declared : Restore(toolSet, t.name) = AsDeclared(l)

\* The comment on ResponsesToolMapping (responses_mapping.go:5) says that a call
\* whose name is in the mapping is restored to the item Codex expects, since
\* Codex aborts the turn when the item does not match the declaration.
CallsReturnAsDeclared ==
  OnResponses => \A t \in ToSet(sent.tools) :
    \E l \in Leaves : l.flat = t.name /\ Restore(toolSet, t.name) = AsDeclared(l)

\* What a tool_choice means: the types that each protocol defines.
Wish(choice) ==
  CASE choice.form = "none" \/ choice.type = "auto" -> "free"
    [] choice.type = "none"                          -> "none"
    [] choice.type \in {"any", "required"}           -> "some"
    [] choice.type \in {"tool", "function", "custom"} -> "named"
    [] OTHER                                         -> "other"

Told(field) == \E w \in sent.warns : w[1] = field

\* What the client asked for reaches the upstream or is told to have been given
\* up: the constraint on the choice with the tool it names, and with it calls
\* one at a time, whether the constraint was given as a string or an object or
\* not at all and whether any tool was left to choose; thinking, and a limit.
\* And no constraint is sent that nobody asked for.
SettingsHonoured ==
  LET asked == IF request.endpoint = "messages" THEN request.choice.disable = "true"
               ELSE request.parallel = "false"
      deep  == request.effort \notin {Absent, "none", "disabled", "budget0"}
  IN sent.refused = None =>
       /\ \/ Told("choice")
          \/ /\ Wish(sent.choice) = Wish(request.choice)
             /\ Wish(request.choice) = "named" => sent.choice.name = request.choice.name
       /\ Wish(sent.choice) \in {"free", Wish(request.choice)}
       /\ (sent.choice.disable = "true") <=> (asked /\ ~Told("parallel"))
       /\ (sent.effort # Absent \/ Told("effort")) <=> deep
       /\ sent.max_tokens \in 1..CeilingTokens
       /\ request.max_tokens \in {0, sent.max_tokens} \/ Told("max_tokens")
=============================================================================
