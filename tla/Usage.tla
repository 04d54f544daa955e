------------------------------- MODULE Usage -------------------------------
(***************************************************************************)
(* The accounting of tokens: what becomes of an upstream usage object      *)
(* (types/cmdc.go, Normalize; stream.go, DeltaUsage) and how the two       *)
(* OpenAI endpoints tell it (chatout.go, chatUsageFrom; types/responses.go,*)
(* ResponsesUsageFromDelta).  Inside, input tokens are those that no cache *)
(* served; OpenAI's count the cached ones too.                             *)
(***************************************************************************)
EXTENDS Integers

\* types.CcUsage.  An object without inputTokenDetails, or without the count in
\* it, is one with the details NoDetails: that is what the code makes of both.
Details == [noCache : Nat \cup {-1}, cacheRead : Nat, cacheWrite : Nat]

NoDetails == [noCache |-> -1, cacheRead |-> 0, cacheWrite |-> 0]

UsageObject ==
  [inputTokens : Nat, outputTokens : Nat, cachedInputTokens : Nat, details : Details]

NoUsage ==
  [inputTokens |-> 0, outputTokens |-> 0, cachedInputTokens |-> 0, details |-> NoDetails]

\* types.DeltaUsage.  Cache writes are a pointer in the code, nil for none;
\* every reader treats nil and 0 alike.
TokenCounts == [input : Nat, output : Nat, cacheRead : Nat, cacheCreation : Nat]

NoTokens == [input |-> 0, output |-> 0, cacheRead |-> 0, cacheCreation |-> 0]

\* Normalize: an object without output tokens bills nothing.
Normalize(u) == IF u.outputTokens = 0 THEN NoUsage ELSE u

\* The cached tokens are told in one of two places.
CacheRead(u) == IF u.cachedInputTokens = 0 THEN u.details.cacheRead ELSE u.cachedInputTokens

\* Mutant: the total is taken for the tokens outside the cache.
UncachedTotal(u) == u.inputTokens

\* The upstream's own count wins over the difference.
Uncached(u) ==
  IF u.details.noCache >= 0 THEN u.details.noCache
  ELSE IF u.inputTokens >= CacheRead(u) THEN u.inputTokens - CacheRead(u) ELSE 0

\* StreamTranslator.DeltaUsage, for the latest usage object if there was one.
\* Without one (u is NoUsage) only the output is estimated.
DeltaUsage(u, output) ==
  LET n == Normalize(u)
  IN [input |-> Uncached(n), output |-> output,
      cacheRead |-> CacheRead(n), cacheCreation |-> n.details.cacheWrite]

\* chatUsageFrom.
ChatUsageFrom(d) ==
  LET prompt == d.input + d.cacheRead + d.cacheCreation
  IN [prompt_tokens |-> prompt, completion_tokens |-> d.output,
      total_tokens |-> prompt + d.output, cached_tokens |-> d.cacheRead]

\* ResponsesUsageFromDelta, NewResponsesUsage.
ResponsesUsageFromDelta(d) ==
  LET input == d.cacheCreation + d.cacheRead + d.input
  IN [input_tokens |-> input, output_tokens |-> d.output,
      total_tokens |-> input + d.output, cached_tokens |-> d.cacheRead]
=============================================================================
