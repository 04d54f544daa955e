----------------------------- MODULE Fragments -----------------------------
(***************************************************************************)
(* chatout.go, chatSplitRunes: how both OpenAI endpoints cut the text of a *)
(* tool input into fragments.                                              *)
(***************************************************************************)
EXTENDS Integers, Sequences

CONSTANT ArgChunkSize  \* chatArgChunkSize, responsesArgChunkSize: runes per fragment

ASSUME ChunkAssumption == ArgChunkSize \in Nat \ {0}

\* Mutant: the runes left over after the last full fragment are lost.
ChatSplitRunesWhole(s, size) ==
  [k \in 1..(Len(s) \div size) |-> SubSeq(s, (k - 1) * size + 1, k * size)]

\* chatSplitRunes: fragments of `size' runes, the last one shorter; no fragment
\* of the empty string.
ChatSplitRunes(s, size) ==
  [k \in 1..((Len(s) + size - 1) \div size) |->
     SubSeq(s, (k - 1) * size + 1, IF k * size > Len(s) THEN Len(s) ELSE k * size)]
=============================================================================
