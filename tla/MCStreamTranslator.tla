------------------------ MODULE MCStreamTranslator ------------------------
(***************************************************************************)
(* StreamTranslator alone, on a small instance: enough for what a single   *)
(* line can do.                                                            *)
(***************************************************************************)
EXTENDS StreamTranslator

MCTexts    == {"a", "b"}
MCReasons  == {"length", "tool-calls"}
MCUsages   == {NoUsage, [NoUsage EXCEPT !.outputTokens = 7]}
MCInputs   == {"object"}
MCMessages == {"boom"}
=============================================================================
