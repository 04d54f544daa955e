------------------------------ MODULE ToolSet ------------------------------
(***************************************************************************)
(* internal/translate/respin.go: how the Responses endpoint makes one list *)
(* of plain functions out of a client's tools, and respout.go: how a call  *)
(* of one of them goes back as the call of what the client declared.       *)
(*                                                                         *)
(* A name is the sequence of its parts, as `a__b' of <<"a", "b">>, so that *)
(* a flattened name can be one the client chose.  The hash that shortens   *)
(* long names is taken to have no collisions.  A schema is one of a few    *)
(* texts, among them the two the code has of its own.                      *)
(***************************************************************************)
EXTENDS Integers, FiniteSets, SequencesExt

None       == "none"
NoName     == <<>>
SearchName == <<"tool_search">>   \* responsesToolSearchName

\* What a client declares; `children' are a namespace's.
Tool(type, name, schema) == [type |-> type, name |-> name, schema |-> schema, children |-> <<>>]
Namespace(name, children) ==
  [type |-> "namespace", name |-> name, schema |-> None, children |-> children]

\* normalizeSchemaReport: what is not an object schema becomes the empty one.
NormalizeSchema(schema) == IF schema = "notObject" THEN "emptyObject" ELSE schema

\* responsesCustomSchema, respinToolSearchSchema: schemas of the proxy's own.
CustomSchema == "inputString"
SearchSchema == "searchQuery"

-----------------------------------------------------------------------------
\* respinToolSet and ResponsesToolMapping.  `search': the proxy tool is among
\* the tools; `toolSearch': the request declares it somewhere.
NewToolSet(toolSearch) ==
  [tools |-> <<>>, search |-> FALSE, custom |-> {}, namespace |-> <<>>,
   toolSearch |-> toolSearch, error |-> None, warns |-> {}]

Has(set, name) == \E k \in DOMAIN set.tools : set.tools[k].name = name

HasSame(set, name, schema) ==
  [name |-> name, schema |-> NormalizeSchema(schema)] \in ToSet(set.tools)

WarnOf(set, what, tool) == [set EXCEPT !.warns = @ \cup {<<what, tool>>}]

\* Mutant: any tool of the name counts as the same declaration sent again.
AddFirstWins(set, name, schema, dedupe) ==
  CASE ~Has(set, name) ->
         [set EXCEPT !.tools = Append(@, [name |-> name, schema |-> NormalizeSchema(schema)])]
    [] Has(set, name) /\ dedupe  -> set
    [] Has(set, name) /\ ~dedupe -> [set EXCEPT !.error = "duplicate"]

\* respinToolSet.add: a second tool of a name is an error, unless it is the
\* same declaration sent again and the place allows it.
Add(set, name, schema, dedupe) ==
  CASE ~Has(set, name) ->
         [set EXCEPT !.tools = Append(@, [name |-> name, schema |-> NormalizeSchema(schema)]),
                     !.warns = IF schema = NormalizeSchema(schema) THEN @
                               ELSE @ \cup {<<"replaced", name>>}]
    [] Has(set, name) /\ dedupe /\ HasSame(set, name, schema) -> set
    [] OTHER -> [set EXCEPT !.error = IF name = SearchName THEN "reserved" ELSE "duplicate"]

\* The caller's next step, if add did not fail.
MarkCustom(set, name) ==
  IF set.error = None THEN [set EXCEPT !.custom = @ \cup {name}] ELSE set

MarkNamespace(set, flat, original) ==
  IF set.error # None THEN set
  ELSE [set EXCEPT !.namespace = [n \in DOMAIN @ \cup {flat} |-> IF n = flat THEN original ELSE @[n]]]

\* flattenNamespaceToolName.
Flatten(ns, child) == ns \o child

\* A declaration without a name, or of a type the upstream has nothing for, is
\* dropped with a warning.
Usable(tool, type) == tool.type = type /\ tool.name # NoName
Dropped(set, tool) == WarnOf(set, "dropped", tool)

\* declareNamespace, one child.
DeclareChild(set, ns, child, dedupe) ==
  LET flat      == Flatten(ns.name, child.name)
      marked(s) == MarkNamespace(s, flat, [namespace |-> ns.name, name |-> child.name])
  IN IF set.error # None THEN set
     ELSE CASE Usable(child, "function") -> marked(Add(set, flat, child.schema, dedupe))
            [] Usable(child, "custom") ->
                 MarkCustom(marked(Add(set, flat, CustomSchema, dedupe)), flat)
            [] OTHER -> Dropped(set, child)

\* declareNamespace: the children one after the other.
DeclareChildren(set, ns, dedupe) ==
  LET declared[n \in 0..Len(ns.children)] ==
        IF n = 0 THEN set ELSE DeclareChild(declared[n - 1], ns, ns.children[n], dedupe)
  IN declared[Len(ns.children)]

\* declare, one tool.  After an error there is no next one.
DeclareTool(set, tool, dedupe) ==
  IF set.error # None THEN set
  ELSE CASE tool.type = "tool_search" ->
              IF set.search THEN set
              ELSE [Add(set, SearchName, SearchSchema, dedupe) EXCEPT !.search = TRUE]
         [] Usable(tool, "function") -> Add(set, tool.name, tool.schema, dedupe)
         [] Usable(tool, "custom") ->
              MarkCustom(Add(set, tool.name, CustomSchema, dedupe), tool.name)
         [] Usable(tool, "namespace") -> DeclareChildren(set, tool, dedupe)
         [] OTHER -> Dropped(set, tool)

Declare(set, tools, dedupe) ==
  LET declared[n \in 0..Len(tools)] ==
        IF n = 0 THEN set ELSE DeclareTool(declared[n - 1], tools[n], dedupe)
  IN declared[Len(tools)]

\* promote, one tool that a search discovered.
Promote(set, tool) ==
  LET schema == IF tool.type = "custom" THEN CustomSchema ELSE tool.schema
      added  == Add(set, tool.name, schema, FALSE)
  IN IF set.error # None THEN set
     ELSE IF ~Usable(tool, "function") /\ ~Usable(tool, "custom") THEN Dropped(set, tool)
     ELSE CASE HasSame(set, tool.name, schema) -> WarnOf(set, "declared", tool)
            [] Has(set, tool.name) /\ ~HasSame(set, tool.name, schema) ->
                 [set EXCEPT !.error = "conflict"]
            [] ~Has(set, tool.name) ->
                 IF tool.type = "custom" THEN MarkCustom(added, tool.name) ELSE added

PromoteTools(set, tools) ==
  LET promoted[n \in 0..Len(tools)] ==
        IF n = 0 THEN set ELSE Promote(promoted[n - 1], tools[n])
  IN promoted[Len(tools)]

\* convertToolSearchOutput: only completed results with tools in them, of a
\* request that declares the search.
Promotable(toolSearch, output) ==
  toolSearch /\ output.status = "completed" /\ output.tools # <<>>

PromoteOutputs(set, outputs) ==
  LET promoted[n \in 0..Len(outputs)] ==
        IF n = 0 THEN set
        ELSE IF Promotable(set.toolSearch, outputs[n])
             THEN PromoteTools(promoted[n - 1], outputs[n].tools) ELSE promoted[n - 1]
  IN promoted[Len(outputs)]

\* responsesTools: the tools of the request, then those of its additional_tools
\* items, which may repeat some, then what was discovered.
ResponsesTools(top, additional, outputs, toolSearch) ==
  PromoteOutputs(Declare(Declare(NewToolSet(toolSearch), top, FALSE), additional, TRUE), outputs)

-----------------------------------------------------------------------------
\* The items a call can be for the client.
CallItem(item, name, namespace) == [item |-> item, name |-> name, namespace |-> namespace]

\* Mutant: a function of the client's that has the reserved name is taken for
\* the proxy tool.
RestoreByName(set, name) ==
  CASE name = SearchName -> CallItem("tool_search_call", NoName, NoName)
    [] name # SearchName /\ name \in set.custom -> CallItem("custom_tool_call", name, NoName)
    [] name # SearchName /\ name \notin set.custom ->
         IF name \in DOMAIN set.namespace
         THEN CallItem("function_call", set.namespace[name].name, set.namespace[name].namespace)
         ELSE CallItem("function_call", name, NoName)

\* startToolCall: the item that the call of the upstream's tool `name' opens.
Restore(set, name) ==
  CASE set.toolSearch /\ name = SearchName -> CallItem("tool_search_call", NoName, NoName)
    [] ~(set.toolSearch /\ name = SearchName) /\ name \in set.custom ->
         CallItem("custom_tool_call", name, NoName)
    [] OTHER ->
         IF name \in DOMAIN set.namespace
         THEN CallItem("function_call", set.namespace[name].name, set.namespace[name].namespace)
         ELSE CallItem("function_call", name, NoName)
=============================================================================
