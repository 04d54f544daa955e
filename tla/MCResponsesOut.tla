--------------------------- MODULE MCResponsesOut ---------------------------
(***************************************************************************)
(* The Responses state machine on streams of up to MaxEvents events, with  *)
(* every kind of tool, and tool inputs that are whole, truncated, empty    *)
(* and going on after an object.                                           *)
(***************************************************************************)
EXTENDS ResponsesOut

MCTexts   == {<<"a">>}
MCKinds   == {"function_call", "custom_tool_call", "tool_search_call"}
MCInputs  == {<<"{", "x", "y", "z", "}">>, <<"{", "x">>, <<>>, <<"{", "x", "}", "y">>}
MCReasons == {"end_turn", "max_tokens", None}
=============================================================================
