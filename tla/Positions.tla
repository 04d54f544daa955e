----------------------------- MODULE Positions -----------------------------
(***************************************************************************)
(* The positions of a sequence, by which properties relate what went in to *)
(* what came out.                                                          *)
(***************************************************************************)
EXTENDS Integers, Sequences, FiniteSets

\* The place of i among the positions P, or how many of them come up to it.
Place(P, i) == Cardinality({j \in P : j <= i})

\* How many of the positions P come before i.
Before(P, i) == Cardinality({j \in P : j < i})

\* What the records of fs at the positions P carry, put together.
Data(fs, P) ==
  LET upTo[n \in 0..Len(fs)] ==
        IF n = 0 THEN <<>>
        ELSE IF n \in P THEN upTo[n - 1] \o fs[n].data ELSE upTo[n - 1]
  IN upTo[Len(fs)]
=============================================================================
