----------------------------- MODULE MCAnswers -----------------------------
(***************************************************************************)
(* All answers to streams of up to MaxLines lines.  Two texts, so that a   *)
(* reordering shows; two reasons that map to different stop reasons; a     *)
(* usage object without output tokens, one that counts the tokens outside  *)
(* the cache itself, and one whose total is less than its cached tokens; a *)
(* tool input of each class.  Two runes to a fragment make an input of     *)
(* several fragments, the last one shorter.                                *)
(***************************************************************************)
EXTENDS Answers, TLC

CONSTANTS a, b

MCTexts    == {a, b}
MCReasons  == {"length", "tool-calls"}
MCUsages   ==
  {[NoUsage EXCEPT !.inputTokens = 9],
   [inputTokens |-> 9, outputTokens |-> 7, cachedInputTokens |-> 4,
    details |-> [noCache |-> 6, cacheRead |-> 4, cacheWrite |-> 2]],
   [inputTokens |-> 3, outputTokens |-> 7, cachedInputTokens |-> 0,
    details |-> [noCache |-> -1, cacheRead |-> 4, cacheWrite |-> 0]]}
MCInputs   == {"object", "badString", "emptyString"}
MCMessages == {"boom"}

\* No text is treated differently from another.
MCSymmetry == Permutations(MCTexts)
=============================================================================
