------------------------------ MODULE MCTools ------------------------------
(***************************************************************************)
(* Requests of up to MaxFields declarations and settings.  The tools are   *)
(* chosen to meet: <<"a", "b">> is a tool's own name and the flattened one *)
(* of a namespace's child, a function has the schema or the name that the  *)
(* code gives to a tool of its own, a discovered tool repeats or           *)
(* contradicts a declared one.                                             *)
(***************************************************************************)
EXTENDS Tools

A  == <<"a">>
B  == <<"b">>
AB == <<"a", "b">>

MCFunctions ==
  {Tool("function", A, "schema"), Tool("function", AB, "notObject"),
   Tool("function", NoName, "schema"), Tool("other", A, None)}

MCDeclared ==
  {Tool("function", A, "schema"), Tool("function", AB, "schema"), Tool("function", AB, CustomSchema),
   Tool("function", AB, "notObject"), Tool("function", NoName, "schema"),
   Tool("function", SearchName, "schema"), Tool("function", SearchName, SearchSchema),
   Tool("custom", AB, None), Tool("custom", NoName, None),
   Tool("tool_search", NoName, None), Tool("other", A, None),
   Namespace(A, <<Tool("function", B, "schema")>>),
   Namespace(A, <<Tool("custom", B, None), Tool("other", B, None)>>),
   Namespace(A, <<Tool("function", B, "schema"), Tool("function", B, CustomSchema)>>),
   Namespace(A, <<Tool("function", NoName, "schema"), Tool("function", B, "emptyObject")>>),
   Namespace(NoName, <<Tool("function", B, "schema")>>)}

MCDiscovered ==
  {Tool("function", A, "schema"), Tool("function", AB, CustomSchema), Tool("custom", AB, None),
   Tool("function", SearchName, SearchSchema), Tool("function", NoName, "schema"),
   Tool("other", A, None)}
=============================================================================
