--------------------------- MODULE RequestProofs ---------------------------
(***************************************************************************)
(* What holds of every request of a growing conversation, for any ids and  *)
(* any length of the history.                                              *)
(*                                                                         *)
(* A step repairs the whole history anew, so that HistoryRepaired, that    *)
(* what is sent is the repair of what was made of a client's items, is     *)
(* inductive.  The properties then are of the repair: its second pass      *)
(* makes messages that are Paired (the calls of a message are followed by  *)
(* their results) and KeptOf those that came; a merge keeps the blocks     *)
(* (MergingKeepsBlocks) and makes of paired messages well-formed ones, by  *)
(* induction over the messages merged (Regrown).  Messages that are        *)
(* well-formed already are taken apart by the second pass and put together *)
(* again by the last merge (Regained), and nothing is said of them.        *)
(*                                                                         *)
(* RequestBuilt adds the envelope, into which BuildCcRequest splits the    *)
(* messages.  It is Whole, every call followed by its result: so is what   *)
(* a message with calls and the one that answers it become (PairIsWhole),  *)
(* because the results of a user message lead its conversion               *)
(* (ResultsLead), and whole envelopes in a row are whole.  And it is Cared *)
(* for any numbers whose results hold images: behind each such result the  *)
(* image is shown before the model speaks; on Messages the client numbers  *)
(* its blocks itself, each by its place (BlocksInOrder).  It is DrawnIn    *)
(* the blocks of the messages, so that its marks are the client's, but for *)
(* the one that is made (MarkerPlaced).                                    *)
(***************************************************************************)
EXTENDS Requests, SequenceLemmas

---------------------------------------------------------------------------
(* Sequences that are filtered, and put together. *)

\* Two sequences are the same if their elements are.
LEMMA SameSequence ==
  ASSUME NEW s, NEW t, IsSequence(s), IsSequence(t), Len(s) = Len(t),
         \A i \in 1..Len(s) : s[i] = t[i]
  PROVE  s = t
<1>1. PICK S, T : s \in Seq(S) /\ t \in Seq(T)
  BY DEF IsSequence
<1>2. s \in Seq(S \cup T) /\ t \in Seq(S \cup T)
  BY <1>1
<1> QED
  BY <1>2

\* The places of a sequence.
LEMMA SequenceDomain == ASSUME NEW s, IsSequence(s) PROVE DOMAIN s = 1..Len(s) /\ Len(s) \in Nat
BY DEF IsSequence

\* A sequence of elements of T, from what they are.
LEMMA TypedSequence ==
  ASSUME NEW s, IsSequence(s), NEW T, ToSet(s) \subseteq T PROVE s \in Seq(T)
<1>1. PICK S : s \in Seq(S)
  BY DEF IsSequence
<1>2. \A i \in 1..Len(s) : s[i] \in T
  BY <1>1 DEF ToSet
<1> QED
  BY <1>1, <1>2

Selects(f, s, S) ==
  /\ f[0] = <<>>
  /\ \A n \in 1..Len(s) : f[n] = IF s[n] \in S THEN Append(f[n - 1], s[n]) ELSE f[n - 1]

\* Select, by the table of what it has after each element.
LEMMA SelectIs ==
  ASSUME NEW s, IsSequence(s), NEW T
  PROVE  \E f : Selects(f, s, T) /\ Select(s, T) = f[Len(s)]
<1> DEFINE Step(p, n) == IF s[n] \in T THEN Append(p, s[n]) ELSE p
           F(f, m) == f = [n \in 0..m |-> IF n = 0 THEN <<>> ELSE Step(f[n - 1], n)]
           S == {m \in Nat : \E f : F(f, m)}
<1>1. 0 \in S
  <2> DEFINE f == [n \in 0..0 |-> <<>>]
  <2>1. F(f, 0)
    OBVIOUS
  <2> QED
    BY <2>1
<1>2. ASSUME NEW m \in Nat, m \in S PROVE m + 1 \in S
  <2> HIDE DEF Step
  <2>1. PICK f : F(f, m)
    BY <1>2
  <2> DEFINE g == [n \in 0..(m + 1) |-> IF n = m + 1 THEN Step(f[m], m + 1) ELSE f[n]]
  <2>2. \A n \in 0..m : f[n] = IF n = 0 THEN <<>> ELSE Step(f[n - 1], n)
    BY <2>1
  <2>3. \A n \in 0..(m + 1) : g[n] = IF n = 0 THEN <<>> ELSE Step(g[n - 1], n)
    BY <2>2
  <2>4. g = [n \in 0..(m + 1) |-> g[n]]
    OBVIOUS
  <2> HIDE DEF g
  <2>5. F(g, m + 1)
    BY <2>3, <2>4
  <2> QED
    BY <2>5
<1> HIDE DEF S
<1>3. Len(s) \in S /\ Len(s) \in Nat
  <2>1. Len(s) \in Nat
    BY SequenceLen
  <2> QED
    BY <1>1, <1>2, <2>1, Induction
<1> DEFINE f == CHOOSE f : F(f, Len(s))
<1>4. F(f, Len(s))
  BY <1>3 DEF S
<1>5. Select(s, T) = f[Len(s)]
  <2>1. f = CHOOSE g : g = [n \in 0..Len(s) |->
              IF n = 0 THEN <<>>
              ELSE IF s[n] \in T THEN Append(g[n - 1], s[n]) ELSE g[n - 1]]
    OBVIOUS
  <2> HIDE DEF f
  <2> QED
    BY <2>1 DEF Select
<1> HIDE DEF f, Step
<1>6. f[0] = <<>> /\ \A n \in 1..Len(s) : f[n] = Step(f[n - 1], n)
  BY <1>4, <1>3
<1>7. Selects(f, s, T)
  BY <1>6 DEF Selects, Step
<1> QED
  BY <1>5, <1>7

\* What is selected are the elements that belong to the set.
LEMMA Selected ==
  ASSUME NEW s, IsSequence(s), NEW T
  PROVE  IsSequence(Select(s, T)) /\ ToSet(Select(s, T)) = ToSet(s) \cap T
<1>1. PICK f : Selects(f, s, T) /\ Select(s, T) = f[Len(s)]
  BY SelectIs
<1> DEFINE Upto(n) == {s[i] : i \in 1..n}
           S == {n \in Nat : n <= Len(s) => f[n] \in Seq(Upto(n) \cap T)
                                             /\ \A x \in Upto(n) \cap T : \E i \in DOMAIN f[n] : f[n][i] = x}
<1>2. 0 \in S
  <2>1. f[0] = <<>> /\ Upto(0) = {}
    BY <1>1 DEF Selects
  <2> DEFINE p == f[0]
             U == Upto(0)
  <2>2. p = <<>> /\ U = {}
    BY <2>1
  <2> HIDE DEF p, U, Upto
  <2>3. p \in Seq(U \cap T) /\ \A x \in U \cap T : \E i \in DOMAIN p : p[i] = x
    BY <2>2
  <2> QED
    BY <2>3 DEF p, U
<1>3. ASSUME NEW n \in Nat, n \in S PROVE n + 1 \in S
  <2> SUFFICES ASSUME n + 1 <= Len(s)
               PROVE  f[n + 1] \in Seq(Upto(n + 1) \cap T)
                      /\ \A x \in Upto(n + 1) \cap T : \E i \in DOMAIN f[n + 1] : f[n + 1][i] = x
    OBVIOUS
  <2>1. n + 1 \in 1..Len(s) /\ (n + 1) - 1 = n
    BY SequenceLen
  <2>2. /\ f[n] \in Seq(Upto(n) \cap T)
        /\ \A x \in Upto(n) \cap T : \E i \in DOMAIN f[n] : f[n][i] = x
    BY <1>3, <2>1, SequenceLen
  <2>3. f[n + 1] = IF s[n + 1] \in T THEN Append(f[n], s[n + 1]) ELSE f[n]
    BY <1>1, <2>1 DEF Selects
  <2>4. Upto(n + 1) = Upto(n) \cup {s[n + 1]}
    OBVIOUS
  <2> DEFINE U == Upto(n)
             V == Upto(n + 1)
  <2>5. V = U \cup {s[n + 1]} /\ f[n] \in Seq(U \cap T) /\ \A x \in U \cap T : \E i \in DOMAIN f[n] : f[n][i] = x
    BY <2>2, <2>4
  <2> HIDE DEF U, V, Upto
  <2>6. CASE s[n + 1] \in T
    <3> DEFINE p == f[n]
               q == f[n + 1]
               x == s[n + 1]
    <3>1. q = Append(p, x) /\ x \in V \cap T /\ p \in Seq(V \cap T)
      BY <2>3, <2>5, <2>6
    <3>2. \A y \in U \cap T : \E i \in DOMAIN p : p[i] = y
      BY <2>5
    <3> HIDE DEF p, q, x
    <3>3. q \in Seq(V \cap T) /\ q[Len(p) + 1] = x /\ Len(q) = Len(p) + 1 /\ Len(p) \in Nat
          /\ \A i \in 1..Len(p) : q[i] = p[i]
      BY <3>1
    <3>4. \A y \in V \cap T : \E i \in DOMAIN q : q[i] = y
      <4> TAKE y \in V \cap T
      <4>1. CASE y = x
        BY <3>3, <4>1
      <4>2. CASE y # x
        <5>1. y \in U \cap T
          BY <2>5, <4>2 DEF x
        <5>2. PICK i \in DOMAIN p : p[i] = y
          BY <3>2, <5>1
        <5>3. i \in 1..Len(p)
          BY <3>1, <5>2
        <5>4. i \in DOMAIN q /\ q[i] = y
          BY <3>3, <5>2, <5>3
        <5> QED
          BY <5>4
      <4> QED
        BY <4>1, <4>2
    <3> QED
      BY <3>3, <3>4 DEF q, V
  <2>7. CASE s[n + 1] \notin T
    <3>1. f[n + 1] = f[n] /\ V \cap T = U \cap T
      BY <2>3, <2>5, <2>7
    <3> QED
      BY <2>5, <3>1 DEF V
  <2> QED
    BY <2>6, <2>7
<1> HIDE DEF S
<1>4. Len(s) \in S /\ Len(s) \in Nat
  BY <1>2, <1>3, SequenceLen, Induction
<1> DEFINE r == Select(s, T)
           U == Upto(Len(s))
<1>5. r \in Seq(U \cap T) /\ \A x \in U \cap T : \E i \in DOMAIN r : r[i] = x
  BY <1>1, <1>4 DEF S
<1>6. ToSet(s) = U
  BY SequenceDomain DEF ToSet
<1> HIDE DEF r, U, Upto
<1>7. ToSet(r) = U \cap T
  BY <1>5 DEF ToSet
<1> QED
  BY <1>5, <1>6, <1>7 DEF r, IsSequence

\* What is selected depends on which elements belong to the set.
LEMMA SelectSame ==
  ASSUME NEW s, IsSequence(s), NEW T, NEW U, ToSet(s) \cap T = ToSet(s) \cap U
  PROVE  Select(s, T) = Select(s, U)
<1>1. PICK f : Selects(f, s, T) /\ Select(s, T) = f[Len(s)]
  BY SelectIs
<1>2. PICK g : Selects(g, s, U) /\ Select(s, U) = g[Len(s)]
  BY SelectIs
<1>3. \A i \in 1..Len(s) : s[i] \in T <=> s[i] \in U
  <2>1. \A i \in 1..Len(s) : s[i] \in ToSet(s)
    BY SequenceDomain DEF ToSet
  <2> QED
    BY <2>1
<1> DEFINE S == {n \in Nat : n <= Len(s) => f[n] = g[n]}
<1>4. 0 \in S
  BY <1>1, <1>2 DEF Selects
<1>5. ASSUME NEW n \in Nat, n \in S PROVE n + 1 \in S
  <2> SUFFICES ASSUME n + 1 <= Len(s) PROVE f[n + 1] = g[n + 1]
    OBVIOUS
  <2>1. n + 1 \in 1..Len(s) /\ (n + 1) - 1 = n /\ f[n] = g[n]
    BY <1>5, SequenceLen
  <2> QED
    BY <1>1, <1>2, <1>3, <2>1 DEF Selects
<1> HIDE DEF S
<1>6. Len(s) \in S /\ Len(s) \in Nat
  BY <1>4, <1>5, SequenceLen, Induction
<1> QED
  BY <1>1, <1>2, <1>6 DEF S

\* The selection of two sequences in a row.
LEMMA SelectConcatenation ==
  ASSUME NEW s, NEW t, IsSequence(s), IsSequence(t), NEW T
  PROVE  Select(s \o t, T) = Select(s, T) \o Select(t, T)
<1> DEFINE u == s \o t
<1>0. /\ IsSequence(u) /\ Len(u) = Len(s) + Len(t) /\ Len(s) \in Nat /\ Len(t) \in Nat
      /\ \A i \in 1..Len(s) : u[i] = s[i]
      /\ \A i \in 1..Len(t) : u[Len(s) + i] = t[i]
  BY Concatenation, SequenceLen
<1> HIDE DEF u
<1>1. PICK f : Selects(f, s, T) /\ Select(s, T) = f[Len(s)]
  BY SelectIs
<1>2. PICK g : Selects(g, t, T) /\ Select(t, T) = g[Len(t)]
  BY SelectIs
<1>3. PICK h : Selects(h, u, T) /\ Select(u, T) = h[Len(u)]
  BY <1>0, SelectIs
<1> DEFINE a == Select(s, T)
<1>a. IsSequence(a)
  BY Selected
<1> DEFINE S == {n \in Nat : n <= Len(s) => h[n] = f[n]}
           R == {n \in Nat : n <= Len(t) => IsSequence(g[n]) /\ h[Len(s) + n] = a \o g[n]}
<1>4. 0 \in S
  BY <1>1, <1>3 DEF Selects
<1>5. ASSUME NEW n \in Nat, n \in S PROVE n + 1 \in S
  <2> SUFFICES ASSUME n + 1 <= Len(s) PROVE h[n + 1] = f[n + 1]
    OBVIOUS
  <2>1. n + 1 \in 1..Len(s) /\ n + 1 \in 1..Len(u) /\ (n + 1) - 1 = n /\ h[n] = f[n] /\ u[n + 1] = s[n + 1]
    BY <1>0, <1>5
  <2> QED
    BY <1>1, <1>3, <2>1 DEF Selects
<1> HIDE DEF S
<1>6. Len(s) \in S
  BY <1>0, <1>4, <1>5, Induction
<1> HIDE DEF a
<1>7. h[Len(s)] = a
  BY <1>0, <1>1, <1>6 DEF S, a
<1>8. 0 \in R
  <2>1. g[0] = <<>> /\ Len(s) + 0 = Len(s)
    BY <1>0, <1>2 DEF Selects
  <2>2. IsSequence(<<>>) /\ a \o <<>> = a
    BY <1>a, ShortSequences, EmptyConcatenation
  <2> QED
    BY <1>7, <2>1, <2>2
<1>9. ASSUME NEW n \in Nat, n \in R PROVE n + 1 \in R
  <2> SUFFICES ASSUME n + 1 <= Len(t)
               PROVE  IsSequence(g[n + 1]) /\ h[Len(s) + (n + 1)] = a \o g[n + 1]
    OBVIOUS
  <2> DEFINE k == Len(s) + (n + 1)
             p == g[n]
             x == t[n + 1]
  <2>1. n + 1 \in 1..Len(t) /\ k \in 1..Len(u) /\ (n + 1) - 1 = n /\ k - 1 = Len(s) + n
        /\ IsSequence(p) /\ h[Len(s) + n] = a \o p
    BY <1>0, <1>9
  <2>2. u[k] = x
    BY <1>0, <2>1
  <2>3. g[n + 1] = IF x \in T THEN Append(p, x) ELSE p
    BY <1>2, <2>1 DEF Selects
  <2>4. h[k] = IF x \in T THEN Append(a \o p, x) ELSE a \o p
    <3>1. h[k] = IF u[k] \in T THEN Append(h[k - 1], u[k]) ELSE h[k - 1]
      BY <1>3, <2>1 DEF Selects
    <3> HIDE DEF k
    <3> QED
      BY <2>1, <2>2, <3>1
  <2> HIDE DEF k, p, x
  <2>5. CASE x \in T
    <3>1. IsSequence(Append(p, x)) /\ Append(p, x) = p \o <<x>> /\ IsSequence(<<x>>)
      BY <2>1, Appended, AppendIs, ShortSequences
    <3>2. IsSequence(a \o p)
      BY <1>a, <2>1, Concatenation
    <3>3. Append(a \o p, x) = (a \o p) \o <<x>>
      BY <3>2, AppendIs
    <3>4. (a \o p) \o <<x>> = a \o (p \o <<x>>)
      <4> DEFINE one == <<x>>
      <4>1. IsSequence(a) /\ IsSequence(p) /\ IsSequence(one)
        BY <1>a, <2>1, <3>1
      <4> HIDE DEF one
      <4>2. (a \o p) \o one = a \o (p \o one)
        BY ONLY <4>1, ConcatenationAssociates
      <4> QED
        BY <4>2 DEF one
    <3> QED
      BY <2>3, <2>4, <2>5, <3>1, <3>3, <3>4 DEF k
  <2>6. CASE x \notin T
    BY <2>1, <2>3, <2>4, <2>6 DEF k
  <2> QED
    BY <2>5, <2>6
<1> HIDE DEF R
<1>10. Len(t) \in R
  BY <1>0, <1>8, <1>9, Induction
<1>11. h[Len(s) + Len(t)] = a \o g[Len(t)]
  BY <1>0, <1>10 DEF R
<1> QED
  BY <1>0, <1>2, <1>3, <1>11 DEF a, u

\* Nothing is selected where nothing belongs to the set, and all where all does.
LEMMA SelectNone ==
  ASSUME NEW s, IsSequence(s), NEW T, ToSet(s) \cap T = {}
  PROVE  Select(s, T) = <<>>
<1> DEFINE r == Select(s, T)
<1>1. IsSequence(r) /\ ToSet(r) = {}
  BY Selected
<1> HIDE DEF r
<1>2. r \in Seq({})
  BY <1>1, TypedSequence
<1>3. r = <<>>
  BY <1>2
<1> QED
  BY <1>3 DEF r

\* Nothing is left out if all is asked for.
LEMMA SelectAll ==
  ASSUME NEW s, IsSequence(s), NEW T, ToSet(s) \subseteq T
  PROVE  Select(s, T) = s
<1>1. PICK f : Selects(f, s, T) /\ Select(s, T) = f[Len(s)]
  BY SelectIs
<1>2. \A i \in 1..Len(s) : s[i] \in T
  BY SequenceDomain DEF ToSet
<1>3. PICK V : s \in Seq(V)
  BY DEF IsSequence
<1> DEFINE Whole(p, n) == p \in Seq(V) /\ Len(p) = n /\ \A i \in 1..n : p[i] = s[i]
           S == {n \in Nat : n <= Len(s) => Whole(f[n], n)}
<1>4. 0 \in S
  <2>1. f[0] = <<>> /\ Whole(<<>>, 0)
    BY <1>1 DEF Selects
  <2> HIDE DEF Whole
  <2> QED
    BY <2>1
<1>5. ASSUME NEW n \in Nat, n \in S PROVE n + 1 \in S
  <2> SUFFICES ASSUME n + 1 <= Len(s)
               PROVE Whole(f[n + 1], n + 1)
    OBVIOUS
  <2>1. n + 1 \in 1..Len(s) /\ (n + 1) - 1 = n
    BY SequenceLen
  <2>2. Whole(f[n], n)
    BY <1>5, <2>1, SequenceLen
  <2> DEFINE p == f[n]
             q == f[n + 1]
             x == s[n + 1]
  <2>3. q = Append(p, x) /\ x \in V
    <3>1. f[n + 1] = IF s[n + 1] \in T THEN Append(f[n], s[n + 1]) ELSE f[n]
      BY <1>1, <2>1 DEF Selects
    <3>2. s[n + 1] \in T /\ s[n + 1] \in V
      BY <1>2, <1>3, <2>1
    <3> QED
      BY <3>1, <3>2
  <2>4. p \in Seq(V) /\ Len(p) = n /\ \A i \in 1..n : p[i] = s[i]
    BY <2>2
  <2> HIDE DEF p, q
  <2>5. q \in Seq(V) /\ Len(q) = n + 1 /\ \A i \in 1..(n + 1) : q[i] = s[i]
    BY <2>3, <2>4
  <2> QED
    BY <2>5 DEF q
<1> HIDE DEF S
<1>6. Len(s) \in S /\ Len(s) \in Nat
  BY <1>4, <1>5, SequenceLen, Induction
<1>7. f[Len(s)] \in Seq(V) /\ Len(f[Len(s)]) = Len(s) /\ \A i \in 1..Len(s) : f[Len(s)][i] = s[i]
  BY <1>6 DEF S
<1>8. f[Len(s)] = s
  BY <1>3, <1>7
<1> QED
  BY <1>1, <1>8

\* Empty sequences are those without elements.
LEMMA NoElements ==
  ASSUME NEW s, IsSequence(s) PROVE s = <<>> <=> ToSet(s) = {}
<1>1. ASSUME ToSet(s) = {} PROVE s = <<>>
  <2>1. s \in Seq({})
    BY <1>1, TypedSequence
  <2> QED
    BY <2>1
<1>2. ASSUME s = <<>> PROVE ToSet(s) = {}
  BY <1>2 DEF ToSet
<1> QED
  BY <1>1, <1>2

\* What is in two sequences in a row.
LEMMA ElementsOfConcatenation ==
  ASSUME NEW s, NEW t, IsSequence(s), IsSequence(t)
  PROVE  ToSet(s \o t) = ToSet(s) \cup ToSet(t)
<1> DEFINE u == s \o t
<1>0. /\ IsSequence(u) /\ Len(u) = Len(s) + Len(t) /\ Len(s) \in Nat /\ Len(t) \in Nat
      /\ \A i \in 1..Len(s) : u[i] = s[i]
      /\ \A i \in 1..Len(t) : u[Len(s) + i] = t[i]
  BY Concatenation, SequenceLen
<1> HIDE DEF u
<1>1. DOMAIN s = 1..Len(s) /\ DOMAIN t = 1..Len(t) /\ DOMAIN u = 1..Len(u)
  BY <1>0, SequenceDomain
<1>2. ASSUME NEW i \in 1..Len(u) PROVE u[i] \in ToSet(s) \cup ToSet(t)
  <2>1. CASE i <= Len(s)
    <3>1. i \in DOMAIN s /\ u[i] = s[i]
      BY <1>0, <1>1, <2>1
    <3> QED
      BY <3>1 DEF ToSet
  <2>2. CASE i > Len(s)
    <3>1. i - Len(s) \in 1..Len(t) /\ i = Len(s) + (i - Len(s))
      BY <1>0, <2>2
    <3>2. u[i] = t[i - Len(s)]
      BY <1>0, <3>1
    <3> QED
      BY <1>1, <3>1, <3>2 DEF ToSet
  <2> QED
    BY <1>0, <2>1, <2>2
<1>3. ASSUME NEW i \in 1..Len(s) PROVE s[i] \in ToSet(u)
  <2>1. i \in DOMAIN u /\ u[i] = s[i]
    BY <1>0, <1>1
  <2> QED
    BY <2>1 DEF ToSet
<1>4. ASSUME NEW i \in 1..Len(t) PROVE t[i] \in ToSet(u)
  <2>1. Len(s) + i \in DOMAIN u /\ u[Len(s) + i] = t[i]
    BY <1>0, <1>1
  <2> QED
    BY <2>1 DEF ToSet
<1> QED
  BY <1>1, <1>2, <1>3, <1>4 DEF ToSet, u

---------------------------------------------------------------------------
(* Sequences put together. *)

Flattens(f, ss) ==
  /\ f[0] = <<>>
  /\ \A n \in 1..Len(ss) : f[n] = f[n - 1] \o ss[n]
  /\ \A n \in 0..Len(ss) : IsSequence(f[n])

\* FlattenSeq, by the table of what it has after each sequence.
LEMMA FlattenIs ==
  ASSUME NEW ss, IsSequence(ss), \A i \in 1..Len(ss) : IsSequence(ss[i])
  PROVE  \E f : Flattens(f, ss) /\ FlattenSeq(ss) = f[Len(ss)]
<1> DEFINE F(f, m) == f = [i \in 1..m |-> IF i = 1 THEN ss[i] ELSE f[i - 1] \o ss[i]]
           S == {m \in Nat : m = 0 \/ \E f : F(f, m)}
<1>0. Len(ss) \in Nat
  BY SequenceLen
<1>1. 0 \in S
  OBVIOUS
<1>2. ASSUME NEW m \in Nat, m \in S PROVE m + 1 \in S
  <2>1. CASE m = 0
    <3> DEFINE g == [i \in 1..(m + 1) |-> ss[1]]
    <3>1. F(g, m + 1)
      BY <2>1
    <3> HIDE DEF F, g
    <3>2. m + 1 \in Nat
      OBVIOUS
    <3> QED
      BY <3>1, <3>2
  <2>2. CASE m # 0
    <3>1. PICK f : F(f, m)
      BY <1>2, <2>2
    <3> DEFINE g == [i \in 1..(m + 1) |-> IF i = m + 1 THEN f[m] \o ss[m + 1] ELSE f[i]]
    <3>2. \A i \in 1..m : f[i] = IF i = 1 THEN ss[i] ELSE f[i - 1] \o ss[i]
      BY <3>1
    <3>3. \A i \in 1..(m + 1) : g[i] = IF i = 1 THEN ss[i] ELSE g[i - 1] \o ss[i]
      <4> TAKE i \in 1..(m + 1)
      <4>1. CASE i = m + 1
        <5>1. i # 1 /\ i - 1 = m /\ m \in 1..(m + 1) /\ m # m + 1
          BY <2>2, <4>1
        <5>2. g[m] = f[m] /\ g[i] = f[m] \o ss[m + 1]
          BY <4>1, <5>1
        <5> HIDE DEF g
        <5> QED
          BY <4>1, <5>1, <5>2
      <4>2. CASE i # m + 1
        <5>1. i \in 1..m /\ (i # 1 => i - 1 \in 1..(m + 1) /\ i - 1 # m + 1)
          BY <4>2
        <5>2. g[i] = f[i] /\ (i # 1 => g[i - 1] = f[i - 1])
          BY <4>2, <5>1
        <5> HIDE DEF g
        <5> QED
          BY <3>2, <5>1, <5>2
      <4> QED
        BY <4>1, <4>2
    <3>4. g = [i \in 1..(m + 1) |-> g[i]]
      OBVIOUS
    <3> HIDE DEF g
    <3>5. F(g, m + 1)
      BY <3>3, <3>4
    <3> HIDE DEF F
    <3>6. m + 1 \in Nat
      OBVIOUS
    <3> QED
      BY <3>5, <3>6
  <2> QED
    BY <2>1, <2>2
<1> HIDE DEF S
<1>3. Len(ss) \in S
  BY <1>0, <1>1, <1>2, Induction
<1>4. CASE Len(ss) = 0
  <2> DEFINE f == [n \in 0..0 |-> <<>>]
  <2>1. FlattenSeq(ss) = ss /\ ss = <<>>
    <3>1. ss = <<>>
      BY <1>4 DEF IsSequence
    <3> QED
      BY <1>4, <3>1 DEF FlattenSeq
  <2>2. Flattens(f, ss) /\ f[Len(ss)] = <<>>
    BY <1>4, ShortSequences DEF Flattens
  <2> HIDE DEF f
  <2> QED
    BY <2>1, <2>2
<1>5. CASE Len(ss) # 0
  <2> DEFINE f == CHOOSE f : F(f, Len(ss))
  <2>1. F(f, Len(ss))
    BY <1>3, <1>5 DEF S
  <2>2. FlattenSeq(ss) = f[Len(ss)]
    <3>1. f = CHOOSE g : g = [i \in 1..Len(ss) |-> IF i = 1 THEN ss[i] ELSE g[i - 1] \o ss[i]]
      OBVIOUS
    <3> HIDE DEF f
    <3> QED
      BY <1>5, <3>1 DEF FlattenSeq
  <2> HIDE DEF f
  <2>3. \A i \in 1..Len(ss) : f[i] = IF i = 1 THEN ss[i] ELSE f[i - 1] \o ss[i]
    BY <2>1
  <2> HIDE DEF F
  <2> DEFINE g == [n \in 0..Len(ss) |-> IF n = 0 THEN <<>> ELSE f[n]]
             R == {n \in Nat : n <= Len(ss) => IsSequence(g[n])}
  <2>4. g[0] = <<>> /\ \A n \in 1..Len(ss) : g[n] = f[n]
    BY <1>0
  <2>5. g[Len(ss)] = f[Len(ss)]
    BY <1>0, <1>5, <2>4
  <2> HIDE DEF g
  <2>6. \A n \in 1..Len(ss) : g[n] = g[n - 1] \o ss[n]
    <3> TAKE n \in 1..Len(ss)
    <3>1. CASE n = 1
      <4>1. g[n] = ss[n] /\ g[n - 1] = <<>> /\ IsSequence(ss[n])
        BY <2>3, <2>4, <3>1
      <4> DEFINE p == ss[n]
      <4> HIDE DEF p
      <4>2. IsSequence(p) => <<>> \o p = p
        BY EmptyConcatenation
      <4> QED
        BY <4>1, <4>2 DEF p
    <3>2. CASE n # 1
      <4>1. n - 1 \in 1..Len(ss)
        BY <1>0, <3>2
      <4>2. g[n] = f[n - 1] \o ss[n] /\ g[n - 1] = f[n - 1]
        BY <2>3, <2>4, <3>2, <4>1
      <4> QED
        BY <4>2
    <3> QED
      BY <3>1, <3>2
  <2>7. 0 \in R
    BY <2>4, ShortSequences
  <2>8. ASSUME NEW n \in Nat, n \in R PROVE n + 1 \in R
    <3> SUFFICES ASSUME n + 1 <= Len(ss) PROVE IsSequence(g[n + 1])
      OBVIOUS
    <3>1. n + 1 \in 1..Len(ss) /\ (n + 1) - 1 = n /\ IsSequence(g[n]) /\ IsSequence(ss[n + 1])
      BY <1>0, <2>8
    <3>2. g[n + 1] = g[n] \o ss[n + 1]
      BY <2>6, <3>1
    <3> QED
      BY <3>1, <3>2, Concatenation
  <2> HIDE DEF R
  <2>9. \A n \in Nat : n \in R
    BY <2>7, <2>8, Induction
  <2>10. \A n \in 0..Len(ss) : IsSequence(g[n])
    BY <1>0, <2>9 DEF R
  <2>11. Flattens(g, ss)
    BY <2>4, <2>6, <2>10 DEF Flattens
  <2> QED
    BY <2>2, <2>5, <2>11
<1> QED
  BY <1>4, <1>5

\* What is kept by putting two sequences together is so of a whole row: relations between the
\* rows ss and tt, given as a set of pairs.
LEMMA FlattenRelates ==
  ASSUME NEW ss, NEW tt, IsSequence(ss), IsSequence(tt), Len(ss) = Len(tt),
         \A i \in 1..Len(ss) : IsSequence(ss[i]) /\ IsSequence(tt[i]),
         NEW R, <<<<>>, <<>>>> \in R,
         \A i \in 1..Len(ss) : <<ss[i], tt[i]>> \in R,
         \A a, b, c, d : /\ IsSequence(a) /\ IsSequence(b) /\ IsSequence(c) /\ IsSequence(d)
                         /\ <<a, b>> \in R /\ <<c, d>> \in R
                         => <<a \o c, b \o d>> \in R
  PROVE  /\ IsSequence(FlattenSeq(ss)) /\ IsSequence(FlattenSeq(tt))
         /\ <<FlattenSeq(ss), FlattenSeq(tt)>> \in R
<1>0. Len(ss) \in Nat
  BY SequenceLen
<1>1. PICK f : Flattens(f, ss) /\ FlattenSeq(ss) = f[Len(ss)]
  BY FlattenIs
<1>2. PICK g : Flattens(g, tt) /\ FlattenSeq(tt) = g[Len(tt)]
  BY FlattenIs
<1> DEFINE S == {n \in Nat : n <= Len(ss) => <<f[n], g[n]>> \in R}
<1>3. 0 \in S
  BY <1>1, <1>2 DEF Flattens
<1>4. ASSUME NEW n \in Nat, n \in S PROVE n + 1 \in S
  <2> SUFFICES ASSUME n + 1 <= Len(ss) PROVE <<f[n + 1], g[n + 1]>> \in R
    OBVIOUS
  <2>1. n + 1 \in 1..Len(ss) /\ (n + 1) - 1 = n /\ n \in 0..Len(ss)
    BY <1>0
  <2> DEFINE a == f[n]
             b == g[n]
             c == ss[n + 1]
             d == tt[n + 1]
  <2>2. f[n + 1] = a \o c /\ g[n + 1] = b \o d
    BY <1>1, <1>2, <2>1 DEF Flattens
  <2>3. IsSequence(a) /\ IsSequence(b) /\ IsSequence(c) /\ IsSequence(d)
    BY <1>1, <1>2, <2>1 DEF Flattens
  <2>4. <<a, b>> \in R /\ <<c, d>> \in R
    BY <1>4, <2>1
  <2> HIDE DEF a, b, c, d
  <2>5. <<a \o c, b \o d>> \in R
    BY <2>3, <2>4
  <2> QED
    BY <2>2, <2>5
<1> HIDE DEF S
<1>5. Len(ss) \in S
  BY <1>0, <1>3, <1>4, Induction
<1>6. <<f[Len(ss)], g[Len(ss)]>> \in R
  BY <1>0, <1>5 DEF S
<1>7. IsSequence(f[Len(ss)]) /\ IsSequence(g[Len(ss)])
  BY <1>0, <1>1, <1>2 DEF Flattens
<1> QED
  BY <1>1, <1>2, <1>6, <1>7

\* The same of one row.
LEMMA FlattenKeeps ==
  ASSUME NEW ss, IsSequence(ss), \A i \in 1..Len(ss) : IsSequence(ss[i]),
         NEW Q, <<>> \in Q, \A i \in 1..Len(ss) : ss[i] \in Q,
         \A a, b \in Q : IsSequence(a) /\ IsSequence(b) => a \o b \in Q
  PROVE  IsSequence(FlattenSeq(ss)) /\ FlattenSeq(ss) \in Q
<1> DEFINE R == {<<q, q>> : q \in Q}
<1>1. <<<<>>, <<>>>> \in R
  OBVIOUS
<1>2. \A i \in 1..Len(ss) : <<ss[i], ss[i]>> \in R
  OBVIOUS
<1>3. \A x, y : <<x, y>> \in R => x = y /\ x \in Q
  OBVIOUS
<1>4. \A x \in Q : <<x, x>> \in R
  OBVIOUS
<1> HIDE DEF R
<1>5. \A a, b, c, d : /\ IsSequence(a) /\ IsSequence(b) /\ IsSequence(c) /\ IsSequence(d)
                      /\ <<a, b>> \in R /\ <<c, d>> \in R
                      => <<a \o c, b \o d>> \in R
  <2> SUFFICES ASSUME NEW a, NEW b, NEW c, NEW d, IsSequence(a), IsSequence(c),
                      <<a, b>> \in R, <<c, d>> \in R
               PROVE  <<a \o c, b \o d>> \in R
    OBVIOUS
  <2>1. a = b /\ c = d /\ a \in Q /\ c \in Q
    BY <1>3
  <2>2. a \o c \in Q
    BY <2>1
  <2> QED
    BY <1>4, <2>1, <2>2
<1>6. <<FlattenSeq(ss), FlattenSeq(ss)>> \in R /\ IsSequence(FlattenSeq(ss))
  BY <1>1, <1>2, <1>5, FlattenRelates
<1> QED
  BY <1>3, <1>6

---------------------------------------------------------------------------
(* Blocks by their kind and their id. *)

Lacks(blocks, kind) == \A b \in ToSet(blocks) : b.kind # kind
Every(blocks, kind) == \A b \in ToSet(blocks) : b.kind = kind

\* What the filters leave of a sequence.
LEMMA Filters ==
  ASSUME NEW s, IsSequence(s)
  PROVE  /\ \A kind : /\ IsSequence(OfKind(s, kind))
                      /\ ToSet(OfKind(s, kind)) = {b \in ToSet(s) : b.kind = kind}
                      /\ IsSequence(Except(s, kind))
                      /\ ToSet(Except(s, kind)) = {b \in ToSet(s) : b.kind # kind}
         /\ \A ids : /\ IsSequence(WithIds(s, ids))
                     /\ ToSet(WithIds(s, ids)) = {b \in ToSet(s) : b.id \in ids}
<1>1. ASSUME NEW T, T \subseteq ToSet(s)
      PROVE  IsSequence(Select(s, T)) /\ ToSet(Select(s, T)) = T
  <2>1. ToSet(Select(s, T)) = ToSet(s) \cap T /\ IsSequence(Select(s, T))
    BY Selected
  <2> QED
    BY <1>1, <2>1
<1>2. ASSUME NEW kind
      PROVE  /\ IsSequence(OfKind(s, kind)) /\ ToSet(OfKind(s, kind)) = {b \in ToSet(s) : b.kind = kind}
             /\ IsSequence(Except(s, kind)) /\ ToSet(Except(s, kind)) = {b \in ToSet(s) : b.kind # kind}
  <2> DEFINE A == {b \in ToSet(s) : b.kind = kind}
             B == {b \in ToSet(s) : b.kind # kind}
  <2>1. A \subseteq ToSet(s) /\ B \subseteq ToSet(s)
    OBVIOUS
  <2>2. OfKind(s, kind) = Select(s, A) /\ Except(s, kind) = Select(s, B)
    BY DEF OfKind, Except
  <2> HIDE DEF A, B
  <2>3. /\ IsSequence(Select(s, A)) /\ ToSet(Select(s, A)) = A
        /\ IsSequence(Select(s, B)) /\ ToSet(Select(s, B)) = B
    BY <1>1, <2>1
  <2> QED
    BY <2>2, <2>3 DEF A, B
<1>3. ASSUME NEW ids
      PROVE  IsSequence(WithIds(s, ids)) /\ ToSet(WithIds(s, ids)) = {b \in ToSet(s) : b.id \in ids}
  <2> DEFINE C == {b \in ToSet(s) : b.id \in ids}
  <2>1. C \subseteq ToSet(s)
    OBVIOUS
  <2>2. WithIds(s, ids) = Select(s, C)
    BY DEF WithIds
  <2> HIDE DEF C
  <2>3. IsSequence(Select(s, C)) /\ ToSet(Select(s, C)) = C
    BY <1>1, <2>1
  <2> QED
    BY <2>2, <2>3 DEF C
<1> QED
  BY <1>2, <1>3

\* The blocks of a kind, of two sequences in a row.
LEMMA KindsSplit ==
  ASSUME NEW s, NEW t, IsSequence(s), IsSequence(t), NEW kind
  PROVE  /\ OfKind(s \o t, kind) = OfKind(s, kind) \o OfKind(t, kind)
         /\ Except(s \o t, kind) = Except(s, kind) \o Except(t, kind)
<1> DEFINE u == s \o t
<1>0. ToSet(u) = ToSet(s) \cup ToSet(t)
  BY ElementsOfConcatenation
<1>1. OfKind(u, kind) = OfKind(s, kind) \o OfKind(t, kind)
  <2> DEFINE U == {b \in ToSet(u) : b.kind = kind}
             A == {b \in ToSet(s) : b.kind = kind}
             B == {b \in ToSet(t) : b.kind = kind}
  <2>1. ToSet(s) \cap U = ToSet(s) \cap A /\ ToSet(t) \cap U = ToSet(t) \cap B
    BY <1>0
  <2> HIDE DEF U, A, B
  <2>2. Select(u, U) = Select(s, U) \o Select(t, U)
    BY SelectConcatenation
  <2>3. Select(s, U) = Select(s, A) /\ Select(t, U) = Select(t, B)
    BY <2>1, SelectSame
  <2> QED
    BY <2>2, <2>3 DEF OfKind, U, A, B
<1>2. Except(u, kind) = Except(s, kind) \o Except(t, kind)
  <2> DEFINE U == {b \in ToSet(u) : b.kind # kind}
             A == {b \in ToSet(s) : b.kind # kind}
             B == {b \in ToSet(t) : b.kind # kind}
  <2>1. ToSet(s) \cap U = ToSet(s) \cap A /\ ToSet(t) \cap U = ToSet(t) \cap B
    BY <1>0
  <2> HIDE DEF U, A, B
  <2>2. Select(u, U) = Select(s, U) \o Select(t, U)
    BY SelectConcatenation
  <2>3. Select(s, U) = Select(s, A) /\ Select(t, U) = Select(t, B)
    BY <2>1, SelectSame
  <2> QED
    BY <2>2, <2>3 DEF Except, U, A, B
<1> QED
  BY <1>1, <1>2

\* The blocks with certain ids, of two sequences in a row.
LEMMA IdsSplit ==
  ASSUME NEW s, NEW t, IsSequence(s), IsSequence(t), NEW ids
  PROVE  WithIds(s \o t, ids) = WithIds(s, ids) \o WithIds(t, ids)
<1> DEFINE u == s \o t
           U == {b \in ToSet(u) : b.id \in ids}
           A == {b \in ToSet(s) : b.id \in ids}
           B == {b \in ToSet(t) : b.id \in ids}
<1>0. ToSet(u) = ToSet(s) \cup ToSet(t)
  BY ElementsOfConcatenation
<1>1. ToSet(s) \cap U = ToSet(s) \cap A /\ ToSet(t) \cap U = ToSet(t) \cap B
  BY <1>0
<1> HIDE DEF U, A, B
<1>2. Select(u, U) = Select(s, U) \o Select(t, U)
  BY SelectConcatenation
<1>3. Select(s, U) = Select(s, A) /\ Select(t, U) = Select(t, B)
  BY <1>1, SelectSame
<1> QED
  BY <1>2, <1>3 DEF WithIds, U, A, B

\* Blocks none of which, or all of which, are of a kind.
LEMMA NoneOfKind ==
  ASSUME NEW s, IsSequence(s), NEW kind
  PROVE  /\ Lacks(s, kind) => OfKind(s, kind) = <<>> /\ Except(s, kind) = s
         /\ Every(s, kind) => OfKind(s, kind) = s /\ Except(s, kind) = <<>>
         /\ OfKind(s, kind) = <<>> => Lacks(s, kind)
         /\ Except(s, kind) = <<>> => Every(s, kind)
<1> DEFINE A == {b \in ToSet(s) : b.kind = kind}
           B == {b \in ToSet(s) : b.kind # kind}
<1>1. OfKind(s, kind) = Select(s, A) /\ Except(s, kind) = Select(s, B)
  BY DEF OfKind, Except
<1>2. /\ IsSequence(OfKind(s, kind)) /\ ToSet(OfKind(s, kind)) = A
      /\ IsSequence(Except(s, kind)) /\ ToSet(Except(s, kind)) = B
  BY Filters
<1>3. ASSUME Lacks(s, kind) PROVE OfKind(s, kind) = <<>> /\ Except(s, kind) = s
  <2>1. A = {} /\ ToSet(s) \subseteq B
    BY <1>3 DEF Lacks
  <2>2. Select(s, B) = s
    BY <2>1, SelectAll
  <2> HIDE DEF A, B
  <2>3. OfKind(s, kind) = <<>>
    BY <1>2, <2>1, NoElements
  <2> QED
    BY <1>1, <2>2, <2>3
<1>4. ASSUME Every(s, kind) PROVE OfKind(s, kind) = s /\ Except(s, kind) = <<>>
  <2>1. B = {} /\ ToSet(s) \subseteq A
    BY <1>4 DEF Every
  <2>2. Select(s, A) = s
    BY <2>1, SelectAll
  <2> HIDE DEF A, B
  <2>3. Except(s, kind) = <<>>
    BY <1>2, <2>1, NoElements
  <2> QED
    BY <1>1, <2>2, <2>3
<1>5. ASSUME OfKind(s, kind) = <<>> PROVE Lacks(s, kind)
  <2>1. A = {}
    BY <1>2, <1>5, NoElements
  <2> QED
    BY <2>1 DEF Lacks
<1>6. ASSUME Except(s, kind) = <<>> PROVE Every(s, kind)
  <2>1. B = {}
    BY <1>2, <1>6, NoElements
  <2> QED
    BY <2>1 DEF Every
<1> QED
  BY <1>3, <1>4, <1>5, <1>6

\* The result of a call is the client's and carries its id.
LEMMA ResultAnswers ==
  ASSUME NEW results, IsSequence(results), NEW id \in IdsOf(results)
  PROVE  ResultFor(results, id) \in ToSet(results) /\ ResultFor(results, id).id = id
<1> DEFINE r == WithIds(results, {id})
<1>1. IsSequence(r) /\ ToSet(r) = {b \in ToSet(results) : b.id \in {id}}
  BY Filters
<1>2. PICK i \in DOMAIN results : results[i].id = id
  BY DEF IdsOf
<1>3. results[i] \in ToSet(r)
  BY <1>1, <1>2 DEF ToSet
<1>4. ResultFor(results, id) = r[Len(r)]
  BY DEF ResultFor, Last
<1> HIDE DEF r
<1>5. r # <<>> /\ Len(r) \in Nat /\ DOMAIN r = 1..Len(r)
  BY <1>1, <1>3, NoElements, SequenceDomain
<1>6. PICK S : r \in Seq(S)
  BY <1>1 DEF IsSequence
<1>7. Len(r) \in DOMAIN r
  BY <1>5, <1>6
<1>8. r[Len(r)] \in ToSet(r)
  BY <1>7 DEF ToSet
<1> QED
  BY <1>1, <1>4, <1>8

---------------------------------------------------------------------------
(* The messages of a request. *)

IsMessage(m) ==
  /\ m = Message(m.role, m.blocks)
  /\ m.role \in {"user", "assistant"}
  /\ IsSequence(m.blocks)
  /\ m.role = "user" => Lacks(m.blocks, "tool_use")
  /\ m.role = "assistant" => Lacks(m.blocks, "tool_result")

AreMessages(msgs) == IsSequence(msgs) /\ \A i \in 1..Len(msgs) : IsMessage(msgs[i])

\* A message has its role and its blocks.
LEMMA MessageFields ==
  \A role, blocks : Message(role, blocks).role = role /\ Message(role, blocks).blocks = blocks
BY DEF Message

\* Messages of one role in one.
LEMMA MessagesJoin ==
  ASSUME NEW m, NEW n, IsMessage(m), IsMessage(n), m.role = n.role
  PROVE  IsMessage(Message(n.role, m.blocks \o n.blocks))
<1> DEFINE a == m.blocks
           b == n.blocks
           c == a \o b
<1>1. IsSequence(a) /\ IsSequence(b)
  BY DEF IsMessage
<1>2. IsSequence(c) /\ ToSet(c) = ToSet(a) \cup ToSet(b)
  BY <1>1, Concatenation, ElementsOfConcatenation
<1>3. /\ m.role = "user" => Lacks(a, "tool_use") /\ Lacks(b, "tool_use")
      /\ m.role = "assistant" => Lacks(a, "tool_result") /\ Lacks(b, "tool_result")
  BY DEF IsMessage
<1> HIDE DEF a, b, c
<1>4. \A kind : Lacks(a, kind) /\ Lacks(b, kind) => Lacks(c, kind)
  BY <1>2 DEF Lacks
<1> DEFINE r == Message(n.role, c)
<1>5. r.role = n.role /\ r.blocks = c /\ r = Message(r.role, r.blocks) /\ n.role \in {"user", "assistant"}
  BY MessageFields DEF IsMessage
<1> HIDE DEF r
<1>6. IsMessage(r)
  BY <1>2, <1>3, <1>4, <1>5 DEF IsMessage
<1> QED
  BY <1>6 DEF r, c, a, b

Merges(f, msgs) == f[0] = <<>> /\ \A n \in 1..Len(msgs) : f[n] = Merged(f[n - 1], msgs[n])

\* MergeSameRole, by the table of what it has after each message.
LEMMA MergeIs ==
  ASSUME NEW msgs, IsSequence(msgs)
  PROVE  \E f : Merges(f, msgs) /\ MergeSameRole(msgs) = f[Len(msgs)]
<1> DEFINE F(f, m) == f = [n \in 0..m |-> IF n = 0 THEN <<>> ELSE Merged(f[n - 1], msgs[n])]
           S == {m \in Nat : \E f : F(f, m)}
<1>1. 0 \in S
  <2> DEFINE f == [n \in 0..0 |-> <<>>]
  <2>1. F(f, 0)
    OBVIOUS
  <2> QED
    BY <2>1
<1>2. ASSUME NEW m \in Nat, m \in S PROVE m + 1 \in S
  <2>1. PICK f : F(f, m)
    BY <1>2
  <2> DEFINE g == [n \in 0..(m + 1) |-> IF n = m + 1 THEN Merged(f[m], msgs[m + 1]) ELSE f[n]]
  <2>2. \A n \in 0..m : f[n] = IF n = 0 THEN <<>> ELSE Merged(f[n - 1], msgs[n])
    BY <2>1
  <2>3. \A n \in 0..(m + 1) : g[n] = IF n = 0 THEN <<>> ELSE Merged(g[n - 1], msgs[n])
    BY <2>2
  <2>4. g = [n \in 0..(m + 1) |-> g[n]]
    OBVIOUS
  <2> HIDE DEF g
  <2>5. F(g, m + 1)
    BY <2>3, <2>4
  <2> QED
    BY <2>5
<1> HIDE DEF S
<1>3. Len(msgs) \in S /\ Len(msgs) \in Nat
  <2>1. Len(msgs) \in Nat
    BY SequenceLen
  <2> QED
    BY <1>1, <1>2, <2>1, Induction
<1> DEFINE f == CHOOSE f : F(f, Len(msgs))
<1>4. F(f, Len(msgs))
  BY <1>3 DEF S
<1>5. MergeSameRole(msgs) = f[Len(msgs)]
  <2>1. f = CHOOSE g : g = [n \in 0..Len(msgs) |-> IF n = 0 THEN <<>> ELSE Merged(g[n - 1], msgs[n])]
    OBVIOUS
  <2> HIDE DEF f
  <2> QED
    BY <2>1 DEF MergeSameRole
<1> HIDE DEF f
<1>6. f[0] = <<>> /\ \A n \in 1..Len(msgs) : f[n] = Merged(f[n - 1], msgs[n])
  BY <1>4, <1>3
<1> QED
  BY <1>5, <1>6 DEF Merges

\* A message joins the last one, if that has its role, or comes behind it.
LEMMA MergedIs ==
  ASSUME NEW out, IsSequence(out), NEW m
  PROVE  /\ out = <<>> => Merged(out, m) = <<m>>
         /\ out # <<>> /\ out[Len(out)].role # m.role =>
              /\ IsSequence(Merged(out, m)) /\ Len(Merged(out, m)) = Len(out) + 1
              /\ \A i \in 1..Len(out) : Merged(out, m)[i] = out[i]
              /\ Merged(out, m)[Len(out) + 1] = m
         /\ out # <<>> /\ out[Len(out)].role = m.role =>
              /\ IsSequence(Merged(out, m)) /\ Len(Merged(out, m)) = Len(out)
              /\ \A i \in 1..(Len(out) - 1) : Merged(out, m)[i] = out[i]
              /\ Merged(out, m)[Len(out)] = Message(m.role, out[Len(out)].blocks \o m.blocks)
<1>1. PICK S : out \in Seq(S)
  BY DEF IsSequence
<1>2. ASSUME out = <<>> PROVE Merged(out, m) = <<m>>
  BY <1>2 DEF Merged
<1>3. ASSUME out # <<>>, out[Len(out)].role # m.role
      PROVE  /\ IsSequence(Merged(out, m)) /\ Len(Merged(out, m)) = Len(out) + 1
             /\ \A i \in 1..Len(out) : Merged(out, m)[i] = out[i]
             /\ Merged(out, m)[Len(out) + 1] = m
  <2>1. Merged(out, m) = Append(out, m)
    BY <1>3 DEF Merged, Last
  <2> QED
    BY <2>1, Appended
<1>4. ASSUME out # <<>>, out[Len(out)].role = m.role
      PROVE  /\ IsSequence(Merged(out, m)) /\ Len(Merged(out, m)) = Len(out)
             /\ \A i \in 1..(Len(out) - 1) : Merged(out, m)[i] = out[i]
             /\ Merged(out, m)[Len(out)] = Message(m.role, out[Len(out)].blocks \o m.blocks)
  <2> DEFINE k == Len(out)
             x == Message(m.role, out[k].blocks \o m.blocks)
             r == [out EXCEPT ![k] = x]
  <2>1. Merged(out, m) = r
    BY <1>4 DEF Merged, Last
  <2> HIDE DEF x
  <2>2. k \in 1..Len(out) /\ k \in Nat
    BY <1>1, <1>4
  <2>3. r \in Seq(S \cup {x}) /\ Len(r) = Len(out) /\ r[k] = x /\ \A i \in 1..(k - 1) : r[i] = out[i]
    <3>1. DOMAIN r = 1..Len(out) /\ DOMAIN out = 1..Len(out)
      BY <1>1
    <3>2. r[k] = x /\ \A i \in 1..Len(out) : i # k => r[i] = out[i]
      BY <2>2, <3>1
    <3>3. \A i \in 1..Len(out) : r[i] \in S \cup {x}
      BY <1>1, <3>2
    <3>4. r = [i \in 1..Len(out) |-> r[i]]
      BY <3>1
    <3> HIDE DEF r
    <3>5. r \in Seq(S \cup {x}) /\ Len(r) = Len(out)
      BY <2>2, <3>3, <3>4
    <3>6. \A i \in 1..(k - 1) : i \in 1..Len(out) /\ i # k
      BY <2>2
    <3> QED
      BY <3>2, <3>5, <3>6
  <2> QED
    BY <2>1, <2>3 DEF IsSequence, x
<1> QED
  BY <1>2, <1>3, <1>4

\* One more merge leaves messages, the last of the role of the one that came.
LEMMA MergedAreMessages ==
  ASSUME NEW out, AreMessages(out), NEW m, IsMessage(m)
  PROVE  AreMessages(Merged(out, m)) /\ Len(Merged(out, m)) # 0
         /\ Merged(out, m)[Len(Merged(out, m))].role = m.role
<1> DEFINE r == Merged(out, m)
<1>0. IsSequence(out) /\ Len(out) \in Nat /\ \A i \in 1..Len(out) : IsMessage(out[i])
  BY SequenceLen DEF AreMessages
<1>1. CASE out = <<>>
  <2>1. r = <<m>> /\ IsSequence(<<m>>) /\ Len(<<m>>) = 1 /\ <<m>>[1] = m
    BY <1>0, <1>1, MergedIs, ShortSequences
  <2> HIDE DEF r
  <2>2. IsSequence(r) /\ Len(r) = 1 /\ r[1] = m
    BY <2>1
  <2>3. AreMessages(r) /\ Len(r) # 0 /\ r[Len(r)].role = m.role
    BY <2>2 DEF AreMessages
  <2> QED
    BY <2>3 DEF r
<1>2. CASE out # <<>> /\ out[Len(out)].role # m.role
  <2>1. /\ IsSequence(r) /\ Len(r) = Len(out) + 1
        /\ \A i \in 1..Len(out) : r[i] = out[i]
        /\ r[Len(out) + 1] = m
    BY <1>0, <1>2, MergedIs
  <2> HIDE DEF r
  <2>2. \A i \in 1..Len(r) : i \in 1..Len(out) \/ i = Len(out) + 1
    BY <1>0, <2>1
  <2>3. \A i \in 1..Len(r) : IsMessage(r[i])
    BY <1>0, <2>1, <2>2
  <2>4. AreMessages(r) /\ Len(r) # 0 /\ r[Len(r)].role = m.role
    BY <1>0, <2>1, <2>3 DEF AreMessages
  <2> QED
    BY <2>4 DEF r
<1>3. CASE out # <<>> /\ out[Len(out)].role = m.role
  <2> DEFINE k == Len(out)
             x == Message(m.role, out[k].blocks \o m.blocks)
  <2>0. k \in 1..Len(out) /\ k # 0
    BY <1>0, <1>3, NoElements, SequenceDomain DEF ToSet, IsSequence
  <2>1. /\ IsSequence(r) /\ Len(r) = k
        /\ \A i \in 1..(k - 1) : r[i] = out[i]
        /\ r[k] = x
    BY <1>0, <1>3, MergedIs
  <2>2. IsMessage(x) /\ x.role = m.role
    <3>1. IsMessage(out[k]) /\ out[k].role = m.role
      BY <1>0, <1>3, <2>0
    <3>2. IsMessage(x)
      BY <3>1, MessagesJoin
    <3> QED
      BY <3>2, MessageFields
  <2> HIDE DEF r, x
  <2>3. \A i \in 1..Len(r) : i \in 1..(k - 1) \/ i = k
    BY <1>0, <2>1
  <2>4. \A i \in 1..Len(r) : IsMessage(r[i])
    BY <1>0, <2>1, <2>2, <2>3
  <2>5. AreMessages(r) /\ Len(r) # 0 /\ r[Len(r)].role = m.role
    BY <2>0, <2>1, <2>2, <2>4 DEF AreMessages
  <2> QED
    BY <2>5 DEF r
<1> QED
  BY <1>1, <1>2, <1>3

\* And so does the whole merge.
LEMMA MergingKeepsMessages ==
  ASSUME NEW msgs, AreMessages(msgs) PROVE AreMessages(MergeSameRole(msgs))
<1>0. IsSequence(msgs) /\ Len(msgs) \in Nat
  BY SequenceLen DEF AreMessages
<1>1. PICK f : Merges(f, msgs) /\ MergeSameRole(msgs) = f[Len(msgs)]
  BY <1>0, MergeIs
<1> DEFINE S == {n \in Nat : n <= Len(msgs) => AreMessages(f[n])}
<1>2. 0 \in S
  BY <1>1, ShortSequences DEF Merges, AreMessages
<1>3. ASSUME NEW n \in Nat, n \in S PROVE n + 1 \in S
  <2> SUFFICES ASSUME n + 1 <= Len(msgs) PROVE AreMessages(f[n + 1])
    OBVIOUS
  <2>1. n + 1 \in 1..Len(msgs) /\ (n + 1) - 1 = n /\ AreMessages(f[n])
    BY <1>0, <1>3
  <2>2. f[n + 1] = Merged(f[n], msgs[n + 1]) /\ IsMessage(msgs[n + 1])
    BY <1>1, <2>1 DEF Merges, AreMessages
  <2> QED
    BY <2>1, <2>2, MergedAreMessages
<1> HIDE DEF S
<1>4. Len(msgs) \in S
  BY <1>0, <1>2, <1>3, Induction
<1> QED
  BY <1>0, <1>1, <1>4 DEF S

---------------------------------------------------------------------------
(* What pairing makes. *)

CallsOf(m)   == OfKind(m.blocks, "tool_use")
ResultsOf(m) == OfKind(m.blocks, "tool_result")

InOrder(m) ==
  m.blocks = IF m.role = "assistant" THEN Except(m.blocks, "tool_use") \o CallsOf(m)
             ELSE ResultsOf(m) \o Except(m.blocks, "tool_result")

\* Messages that one more merge makes well-formed: calls have a user message behind them, results
\* have an assistant message before them, and where the two meet they agree.
Paired(P) ==
  /\ AreMessages(P)
  /\ \A i \in 1..Len(P) : InOrder(P[i])
  /\ \A i \in 1..Len(P) : P[i].role = "assistant" /\ CallsOf(P[i]) # <<>>
       => i + 1 \in 1..Len(P) /\ P[i + 1].role = "user"
  /\ \A i \in 1..Len(P) : P[i].role = "user" /\ ResultsOf(P[i]) # <<>>
       => i - 1 \in 1..Len(P) /\ P[i - 1].role = "assistant"
  /\ \A i \in 1..Len(P) : i + 1 \in 1..Len(P) /\ P[i].role = "assistant" /\ P[i + 1].role = "user"
       => IdSeq(ResultsOf(P[i + 1])) = IdSeq(CallsOf(P[i]))

\* No messages are paired.
LEMMA NothingPaired == Paired(<<>>)
<1>1. IsSequence(<<>>) /\ Len(<<>>) = 0
  BY ShortSequences
<1> QED
  BY <1>1 DEF Paired, AreMessages

\* A message that neither calls nor answers.
LEMMA OnePaired ==
  ASSUME NEW m, IsMessage(m), CallsOf(m) = <<>>, ResultsOf(m) = <<>> PROVE Paired(<<m>>)
<1> DEFINE P == <<m>>
<1>1. IsSequence(P) /\ Len(P) = 1 /\ P[1] = m
  BY ShortSequences
<1> HIDE DEF P
<1>2. \A i \in 1..Len(P) : i = 1 /\ P[i] = m
  BY <1>1
<1>3. IsSequence(m.blocks)
  BY DEF IsMessage
<1>4. Except(m.blocks, "tool_use") = m.blocks /\ Except(m.blocks, "tool_result") = m.blocks
  BY <1>3, NoneOfKind DEF CallsOf, ResultsOf
<1>5. InOrder(m)
  BY <1>3, <1>4, EmptyConcatenation DEF InOrder
<1>6. Paired(P)
  BY <1>1, <1>2, <1>5 DEF Paired, AreMessages
<1> QED
  BY <1>6 DEF P

\* A message that calls and the one that answers it.
LEMMA TwoPaired ==
  ASSUME NEW a, NEW u, IsMessage(a), IsMessage(u), a.role = "assistant", u.role = "user",
         InOrder(a), Every(u.blocks, "tool_result"), IdSeq(u.blocks) = IdSeq(CallsOf(a))
  PROVE  Paired(<<a, u>>)
<1> DEFINE P == <<a, u>>
<1>1. IsSequence(P) /\ Len(P) = 2 /\ P[1] = a /\ P[2] = u
  <2>1. P \in Seq({a, u})
    OBVIOUS
  <2> QED
    BY <2>1 DEF IsSequence
<1> HIDE DEF P
<1>2. \A i \in 1..Len(P) : i = 1 \/ i = 2
  BY <1>1
<1>3. IsSequence(u.blocks) /\ Lacks(u.blocks, "tool_use") /\ IsSequence(a.blocks) /\ Lacks(a.blocks, "tool_result")
  BY DEF IsMessage
<1>4. OfKind(u.blocks, "tool_result") = u.blocks /\ Except(u.blocks, "tool_result") = <<>>
  BY <1>3, NoneOfKind
<1>5. InOrder(u)
  BY <1>3, <1>4, EmptyConcatenation DEF InOrder, ResultsOf
<1>6. IdSeq(ResultsOf(u)) = IdSeq(CallsOf(a))
  BY <1>4 DEF ResultsOf
<1>7. AreMessages(P)
  BY <1>1, <1>2 DEF AreMessages
<1>8. \A i \in 1..Len(P) : InOrder(P[i])
  BY <1>1, <1>2, <1>5
<1>9. \A i \in 1..Len(P) : P[i].role = "assistant" => i = 1
  BY <1>1, <1>2
<1>10. \A i \in 1..Len(P) : P[i].role = "user" => i = 2
  BY <1>1, <1>2
<1>11. 1 + 1 \in 1..Len(P) /\ P[1 + 1].role = "user" /\ 2 - 1 \in 1..Len(P) /\ P[2 - 1].role = "assistant"
  BY <1>1
<1>12. IdSeq(ResultsOf(P[1 + 1])) = IdSeq(CallsOf(P[1]))
  BY <1>1, <1>6
<1>13. Paired(P)
  BY <1>7, <1>8, <1>9, <1>10, <1>11, <1>12 DEF Paired
<1> QED
  BY <1>13 DEF P

\* Two rows of paired messages are one.
LEMMA PairedJoin ==
  ASSUME NEW A, NEW B, Paired(A), Paired(B) PROVE Paired(A \o B)
<1> DEFINE P == A \o B
           n == Len(A)
<1>0. IsSequence(A) /\ IsSequence(B) /\ n \in Nat /\ Len(B) \in Nat
  BY SequenceLen DEF Paired, AreMessages
<1>1. /\ IsSequence(P) /\ Len(P) = n + Len(B)
      /\ \A i \in 1..n : P[i] = A[i]
      /\ \A i \in 1..Len(B) : P[n + i] = B[i]
  BY <1>0, Concatenation
<1> HIDE DEF P, n
<1>2. \A i \in 1..Len(P) : i \in 1..n \/ (i - n \in 1..Len(B) /\ i = n + (i - n))
  BY <1>0, <1>1
<1>3. \A i \in 1..Len(P) : i > n => i - n \in 1..Len(B) /\ P[i] = B[i - n]
  BY <1>0, <1>1, <1>2
<1>4. /\ \A i \in 1..n : IsMessage(A[i]) /\ InOrder(A[i])
      /\ \A i \in 1..Len(B) : IsMessage(B[i]) /\ InOrder(B[i])
  BY DEF Paired, AreMessages, n
<1>5. AreMessages(P) /\ \A i \in 1..Len(P) : InOrder(P[i])
  BY <1>1, <1>2, <1>4 DEF AreMessages
<1>6. ASSUME NEW i \in 1..Len(P), P[i].role = "assistant", CallsOf(P[i]) # <<>>
      PROVE  /\ i + 1 \in 1..Len(P) /\ P[i + 1].role = "user" /\ i # n
  <2>1. CASE i <= n
    <3>1. i \in 1..n /\ P[i] = A[i]
      BY <1>0, <1>1, <2>1
    <3>2. i + 1 \in 1..n /\ A[i + 1].role = "user"
      BY <1>6, <3>1 DEF Paired, n
    <3> QED
      BY <1>0, <1>1, <3>2
  <2>2. CASE i > n
    <3> DEFINE k == i - n
    <3>1. k \in 1..Len(B) /\ P[i] = B[k] /\ n + (k + 1) = i + 1
      BY <1>0, <1>3, <2>2
    <3> HIDE DEF k
    <3>2. k + 1 \in 1..Len(B) /\ B[k + 1].role = "user"
      BY <1>6, <3>1 DEF Paired
    <3>3. P[n + (k + 1)] = B[k + 1]
      BY <1>1, <3>2
    <3> QED
      BY <1>0, <1>1, <2>2, <3>1, <3>2, <3>3
  <2> QED
    BY <1>0, <2>1, <2>2
<1>7. ASSUME NEW i \in 1..Len(P), P[i].role = "user", ResultsOf(P[i]) # <<>>
      PROVE  /\ i - 1 \in 1..Len(P) /\ P[i - 1].role = "assistant" /\ i # n + 1
  <2>1. CASE i <= n
    <3>1. i \in 1..n /\ P[i] = A[i]
      BY <1>0, <1>1, <2>1
    <3>2. i - 1 \in 1..n /\ A[i - 1].role = "assistant"
      BY <1>7, <3>1 DEF Paired, n
    <3> QED
      BY <1>0, <1>1, <2>1, <3>2
  <2>2. CASE i > n
    <3> DEFINE k == i - n
    <3>1. k \in 1..Len(B) /\ P[i] = B[k] /\ n + (k - 1) = i - 1 /\ i = n + k
      BY <1>0, <1>3, <2>2
    <3> HIDE DEF k
    <3>2. k - 1 \in 1..Len(B) /\ B[k - 1].role = "assistant"
      BY <1>7, <3>1 DEF Paired
    <3>3. P[n + (k - 1)] = B[k - 1]
      BY <1>1, <3>2
    <3> QED
      BY <1>0, <1>1, <2>2, <3>1, <3>2, <3>3
  <2> QED
    BY <1>0, <2>1, <2>2
<1>8. ASSUME NEW i \in 1..Len(P), i + 1 \in 1..Len(P), P[i].role = "assistant", P[i + 1].role = "user"
      PROVE  IdSeq(ResultsOf(P[i + 1])) = IdSeq(CallsOf(P[i]))
  <2>1. CASE i < n
    <3>1. i \in 1..n /\ i + 1 \in 1..n /\ P[i] = A[i] /\ P[i + 1] = A[i + 1]
      BY <1>0, <1>1, <2>1
    <3> QED
      BY <1>8, <3>1 DEF Paired, n
  <2>2. CASE i = n
    <3>1. CallsOf(P[i]) = <<>>
      BY <1>6, <1>8, <2>2
    <3>2. ResultsOf(P[i + 1]) = <<>>
      BY <1>7, <1>8, <2>2
    <3> QED
      BY <3>1, <3>2
  <2>3. CASE i > n
    <3> DEFINE k == i - n
    <3>1. k \in 1..Len(B) /\ k + 1 \in 1..Len(B) /\ P[i] = B[k] /\ n + (k + 1) = i + 1
      BY <1>0, <1>1, <1>3, <1>8, <2>3
    <3> HIDE DEF k
    <3>2. P[i + 1] = B[k + 1]
      BY <1>1, <3>1
    <3> QED
      BY <1>8, <3>1, <3>2 DEF Paired
  <2> QED
    BY <1>0, <2>1, <2>2, <2>3
<1>9. Paired(P)
  BY <1>5, <1>6, <1>7, <1>8 DEF Paired
<1> QED
  BY <1>9 DEF P

\* The answered calls of an assistant message, and their results.
LEMMA AssistantPaired ==
  ASSUME NEW m, IsMessage(m), m.role = "assistant",
         NEW results, IsSequence(results), Every(results, "tool_result")
  PROVE  Paired(PairAssistant(m, results))
<1> DEFINE calls  == OfKind(m.blocks, "tool_use")
           others == Except(m.blocks, "tool_use")
           ids    == IdsOf(results)
           kept   == WithIds(calls, ids)
           answer == [i \in DOMAIN kept |-> ResultFor(results, kept[i].id)]
           a      == Message(m.role, others \o kept)
           u      == Message("user", answer)
           p      == PairAssistant(m, results)
<1>0. /\ calls = <<>> => p = <<m>>
      /\ calls # <<>> /\ kept = <<>> /\ others = <<>> => p = <<>>
      /\ calls # <<>> /\ kept = <<>> /\ others # <<>> => p = <<Message(m.role, others)>>
      /\ calls # <<>> /\ kept # <<>> => p = <<a, u>>
  <2> DEFINE k == kept
             x == calls
  <2> HIDE DEF k, x
  <2>1. WithIds(<<>>, ids) = <<>>
    <3>1. IsSequence(<<>>)
      BY ShortSequences
    <3>2. ToSet(WithIds(<<>>, ids)) = {b \in ToSet(<<>>) : b.id \in ids} /\ IsSequence(WithIds(<<>>, ids))
      BY <3>1, Filters
    <3>3. ToSet(<<>>) = {}
      BY <3>1, NoElements
    <3> QED
      BY <3>2, <3>3, NoElements
  <2>2. calls = <<>> => kept = <<>>
    BY <2>1
  <2> QED
    BY <2>2 DEF PairAssistant
<1>1. IsSequence(m.blocks) /\ Lacks(m.blocks, "tool_result") /\ m = Message(m.role, m.blocks)
  BY DEF IsMessage
<1>2. /\ IsSequence(calls) /\ ToSet(calls) = {b \in ToSet(m.blocks) : b.kind = "tool_use"}
      /\ IsSequence(others) /\ ToSet(others) = {b \in ToSet(m.blocks) : b.kind # "tool_use"}
  BY <1>1, Filters
<1>3. IsSequence(kept) /\ ToSet(kept) = {b \in ToSet(calls) : b.id \in ids}
  BY <1>2, Filters
<1>4. /\ Lacks(others, "tool_use") /\ Lacks(others, "tool_result") /\ Every(kept, "tool_use")
      /\ Lacks(kept, "tool_result") /\ Lacks(calls, "tool_result")
  BY <1>1, <1>2, <1>3 DEF Lacks, Every
<1>5. CASE calls = <<>>
  <2>1. CallsOf(m) = <<>> /\ ResultsOf(m) = <<>>
    BY <1>1, <1>5, NoneOfKind DEF CallsOf, ResultsOf
  <2>2. Paired(<<m>>)
    BY <2>1, OnePaired
  <2> QED
    BY <1>0, <1>5, <2>2
<1>6. CASE calls # <<>> /\ kept = <<>> /\ others = <<>>
  BY <1>0, <1>6, NothingPaired
<1>7. CASE calls # <<>> /\ kept = <<>> /\ others # <<>>
  <2> DEFINE x == Message(m.role, others)
  <2> HIDE DEF others
  <2>1. x.role = "assistant" /\ x.blocks = others /\ x = Message(x.role, x.blocks)
    BY MessageFields
  <2> HIDE DEF x
  <2>2. IsMessage(x)
    BY <1>2, <1>4, <2>1 DEF IsMessage
  <2>3. CallsOf(x) = <<>> /\ ResultsOf(x) = <<>>
    BY <1>2, <1>4, <2>1, NoneOfKind DEF CallsOf, ResultsOf
  <2>4. Paired(<<x>>)
    BY <2>2, <2>3, OnePaired
  <2> QED
    BY <1>0, <1>7, <2>4 DEF x, others
<1>8. CASE calls # <<>> /\ kept # <<>>
  <2> DEFINE both == others \o kept
  <2>1. a.role = "assistant" /\ a.blocks = both /\ a = Message(a.role, a.blocks)
    BY MessageFields
  <2>2. u.role = "user" /\ u.blocks = answer /\ u = Message(u.role, u.blocks)
    BY MessageFields
  <2>3. p = <<a, u>>
    BY <1>0, <1>8
  <2>4. \A i \in DOMAIN kept : kept[i].id \in ids
    BY <1>3 DEF ToSet
  <2>5. \A i \in DOMAIN kept : /\ ResultFor(results, kept[i].id) \in ToSet(results)
                               /\ ResultFor(results, kept[i].id).id = kept[i].id
    BY <2>4, ResultAnswers
  <2>6. /\ DOMAIN answer = DOMAIN kept /\ answer = [i \in DOMAIN answer |-> answer[i]]
        /\ \A i \in DOMAIN kept : answer[i] \in ToSet(results) /\ answer[i].id = kept[i].id
    BY <2>5
  <2> HIDE DEF a, u, p, answer, kept, others, calls, ids
  <2>7. IsSequence(answer) /\ DOMAIN kept = 1..Len(kept) /\ Len(kept) \in Nat
    BY <1>3, <2>6, SequenceDomain, TableIsSequence
  <2>8. Every(answer, "tool_result") /\ Lacks(answer, "tool_use")
    <3>1. \A b \in ToSet(answer) : b \in ToSet(results)
      BY <2>6 DEF ToSet
    <3> QED
      BY <3>1 DEF Every, Lacks
  <2>9. IsMessage(u)
    BY <2>2, <2>7, <2>8 DEF IsMessage
  <2>10. IsSequence(both) /\ ToSet(both) = ToSet(others) \cup ToSet(kept)
    BY <1>2, <1>3, Concatenation, ElementsOfConcatenation
  <2>11. Lacks(both, "tool_result")
    BY <1>4, <2>10 DEF Lacks
  <2>12. IsMessage(a)
    BY <2>1, <2>10, <2>11 DEF IsMessage
  <2>13. Except(both, "tool_use") = others /\ OfKind(both, "tool_use") = kept
    <3>1. /\ OfKind(both, "tool_use") = OfKind(others, "tool_use") \o OfKind(kept, "tool_use")
          /\ Except(both, "tool_use") = Except(others, "tool_use") \o Except(kept, "tool_use")
      BY <1>2, <1>3, KindsSplit
    <3>2. /\ OfKind(others, "tool_use") = <<>> /\ OfKind(kept, "tool_use") = kept
          /\ Except(others, "tool_use") = others /\ Except(kept, "tool_use") = <<>>
      BY <1>2, <1>3, <1>4, NoneOfKind
    <3> QED
      BY <1>2, <1>3, <3>1, <3>2, EmptyConcatenation
  <2>14. CallsOf(a) = kept
    BY <2>1, <2>13 DEF CallsOf
  <2>15. InOrder(a)
    BY <2>1, <2>13, <2>14 DEF InOrder
  <2>16. IdSeq(u.blocks) = IdSeq(CallsOf(a))
    <3>1. [i \in DOMAIN answer |-> answer[i].id] = [i \in DOMAIN kept |-> kept[i].id]
      BY <2>6
    <3> QED
      BY <2>2, <2>14, <3>1 DEF IdSeq
  <2>17. Every(u.blocks, "tool_result")
    BY <2>2, <2>8
  <2>18. Paired(<<a, u>>)
    BY <2>1, <2>2, <2>9, <2>12, <2>15, <2>16, <2>17, TwoPaired
  <2> QED
    BY <2>3, <2>18 DEF p
<1> QED
  BY <1>5, <1>6, <1>7, <1>8

\* What is left of a user message.
LEMMA UserPaired ==
  ASSUME NEW m, IsMessage(m), m.role = "user" PROVE Paired(StripToolResults(m))
<1> DEFINE kept == Except(m.blocks, "tool_result")
           x == Message(m.role, kept)
<1>1. IsSequence(m.blocks) /\ Lacks(m.blocks, "tool_use")
  BY DEF IsMessage
<1>2. IsSequence(kept) /\ ToSet(kept) = {b \in ToSet(m.blocks) : b.kind # "tool_result"}
  BY <1>1, Filters
<1>3. Lacks(kept, "tool_result") /\ Lacks(kept, "tool_use")
  BY <1>1, <1>2 DEF Lacks
<1>4. kept = <<>> => StripToolResults(m) = <<>>
  BY DEF StripToolResults
<1>5. kept # <<>> => StripToolResults(m) = <<x>>
  BY DEF StripToolResults
<1> HIDE DEF kept
<1>6. x.role = "user" /\ x.blocks = kept /\ x = Message(x.role, x.blocks)
  BY MessageFields
<1> HIDE DEF x
<1>7. IsMessage(x)
  BY <1>2, <1>3, <1>6 DEF IsMessage
<1>8. CallsOf(x) = <<>> /\ ResultsOf(x) = <<>>
  BY <1>2, <1>3, <1>6, NoneOfKind DEF CallsOf, ResultsOf
<1>9. Paired(<<x>>)
  BY <1>7, <1>8, OnePaired
<1> QED
  BY <1>4, <1>5, <1>9, NothingPaired

\* The blocks of messages are a sequence.
LEMMA BlocksAreSequence ==
  ASSUME NEW msgs, AreMessages(msgs) PROVE IsSequence(Blocks(msgs))
<1> DEFINE t == [i \in DOMAIN msgs |-> msgs[i].blocks]
<1>1. IsSequence(msgs) /\ DOMAIN msgs = 1..Len(msgs) /\ Len(msgs) \in Nat
      /\ \A i \in 1..Len(msgs) : IsSequence(msgs[i].blocks)
  BY SequenceDomain DEF AreMessages, IsMessage
<1>2. DOMAIN t = 1..Len(msgs) /\ t = [i \in DOMAIN t |-> t[i]]
      /\ \A i \in 1..Len(msgs) : t[i] = msgs[i].blocks
  BY <1>1
<1>3. Blocks(msgs) = FlattenSeq(t)
  BY DEF Blocks
<1> HIDE DEF t
<1>4. IsSequence(t) /\ Len(t) = Len(msgs)
  BY <1>1, <1>2, TableIsSequence
<1>5. PICK f : Flattens(f, t) /\ FlattenSeq(t) = f[Len(t)]
  BY <1>1, <1>2, <1>4, FlattenIs
<1> QED
  BY <1>1, <1>3, <1>4, <1>5 DEF Flattens

\* What the second pass makes of any messages is paired.
LEMMA CallsPaired ==
  ASSUME NEW msgs, AreMessages(msgs) PROVE Paired(PairToolCalls(msgs))
<1> DEFINE results == Results(msgs)
           Piece(m) == IF m.role = "assistant" THEN PairAssistant(m, results) ELSE StripToolResults(m)
           t == [i \in DOMAIN msgs |-> Piece(msgs[i])]
           U == UNION {ToSet(t[i]) : i \in DOMAIN t}
           Q == {q \in Seq(U) : Paired(q)}
<1>0. IsSequence(msgs) /\ DOMAIN msgs = 1..Len(msgs) /\ Len(msgs) \in Nat
      /\ \A i \in 1..Len(msgs) : IsMessage(msgs[i]) /\ msgs[i].role \in {"user", "assistant"}
  BY SequenceDomain DEF AreMessages, IsMessage
<1>1. IsSequence(results) /\ Every(results, "tool_result")
  <2>1. IsSequence(Blocks(msgs))
    BY BlocksAreSequence
  <2>2. IsSequence(results) /\ ToSet(results) = {b \in ToSet(Blocks(msgs)) : b.kind = "tool_result"}
    BY <2>1, Filters DEF Results
  <2> QED
    BY <2>2 DEF Every
<1>2. PairToolCalls(msgs) = FlattenSeq(t)
  BY DEF PairToolCalls
<1> HIDE DEF results
<1>3. \A i \in 1..Len(msgs) : Paired(Piece(msgs[i]))
  <2> TAKE i \in 1..Len(msgs)
  <2>1. IsMessage(msgs[i]) /\ msgs[i].role \in {"user", "assistant"}
    BY <1>0
  <2> QED
    BY <1>1, <2>1, AssistantPaired, UserPaired
<1> HIDE DEF Piece
<1>4. DOMAIN t = 1..Len(msgs) /\ t = [i \in DOMAIN t |-> t[i]]
      /\ \A i \in 1..Len(msgs) : t[i] = Piece(msgs[i])
  BY <1>0
<1> HIDE DEF t
<1>5. IsSequence(t) /\ Len(t) = Len(msgs)
  BY <1>0, <1>4, TableIsSequence
<1>6. \A i \in 1..Len(t) : Paired(t[i]) /\ IsSequence(t[i])
  BY <1>3, <1>4, <1>5 DEF Paired, AreMessages
<1>7. \A i \in 1..Len(t) : t[i] \in Q
  <2> TAKE i \in 1..Len(t)
  <2>1. ToSet(t[i]) \subseteq U
    BY <1>4, <1>5
  <2> HIDE DEF U
  <2>2. t[i] \in Seq(U)
    BY <1>6, <2>1, TypedSequence
  <2> QED
    BY <1>6, <2>2
<1> HIDE DEF U
<1>8. \A a, b \in Q : a \o b \in Q
  <2> TAKE a, b \in Q
  <2>1. a \in Seq(U) /\ b \in Seq(U) /\ Paired(a) /\ Paired(b)
    OBVIOUS
  <2>2. a \o b \in Seq(U) /\ Paired(a \o b)
    BY <2>1, PairedJoin
  <2> QED
    BY <2>2
<1>9. <<>> \in Q
  BY NothingPaired
<1>10. \A q \in Q : Paired(q)
  OBVIOUS
<1> HIDE DEF Q
<1>11. FlattenSeq(t) \in Q
  BY <1>5, <1>6, <1>7, <1>8, <1>9, FlattenKeeps
<1> QED
  BY <1>2, <1>10, <1>11

---------------------------------------------------------------------------
(* What the last merge makes of it. *)

\* The messages merged so far, n of those that are paired.
Regrown(out, P, n) ==
  /\ AreMessages(out)
  /\ n = 0 => out = <<>>
  /\ n # 0 => /\ Len(out) # 0 /\ out[Len(out)].role = P[n].role
              /\ P[n].role = "assistant" => CallsOf(out[Len(out)]) = CallsOf(P[n])
  /\ \A i \in 1..Len(out) : InOrder(out[i])
  /\ \A i \in 1..Len(out) : i + 1 \in 1..Len(out) =>
       /\ out[i].role # out[i + 1].role
       /\ out[i].role = "assistant" => IdSeq(ResultsOf(out[i + 1])) = IdSeq(CallsOf(out[i]))
  /\ Len(out) # 0 /\ out[1].role = "user" => ResultsOf(out[1]) = <<>>

\* Two messages of one role in one, if the first has no calls and the second no results.
LEMMA JoinInOrder ==
  ASSUME NEW a, NEW b, IsMessage(a), IsMessage(b), a.role = b.role, InOrder(a), InOrder(b),
         a.role = "assistant" => CallsOf(a) = <<>>, a.role = "user" => ResultsOf(b) = <<>>
  PROVE  LET c == Message(b.role, a.blocks \o b.blocks)
         IN /\ IsMessage(c) /\ c.role = b.role /\ InOrder(c)
            /\ ResultsOf(c) = ResultsOf(a)
            /\ a.role = "assistant" => CallsOf(c) = CallsOf(b)
<1> DEFINE s == a.blocks
           t == b.blocks
           u == s \o t
           c == Message(b.role, u)
<1>1. IsMessage(c) /\ c.role = b.role /\ c.blocks = u
  BY MessagesJoin, MessageFields
<1>2. IsSequence(s) /\ IsSequence(t) /\ b.role \in {"user", "assistant"}
  BY DEF IsMessage
<1> HIDE DEF c
<1>3. \A kind : /\ OfKind(u, kind) = OfKind(s, kind) \o OfKind(t, kind)
                /\ Except(u, kind) = Except(s, kind) \o Except(t, kind)
  BY <1>2, KindsSplit
<1>4. CASE b.role = "assistant"
  <2>1. /\ OfKind(s, "tool_use") = <<>> /\ Except(s, "tool_use") = s
        /\ OfKind(s, "tool_result") = <<>> /\ OfKind(t, "tool_result") = <<>>
    <3>1. Lacks(s, "tool_result") /\ Lacks(t, "tool_result")
      BY <1>4 DEF IsMessage
    <3>2. OfKind(s, "tool_use") = <<>>
      BY <1>4 DEF CallsOf
    <3> QED
      BY <1>2, <3>1, <3>2, NoneOfKind
  <2> DEFINE p == Except(t, "tool_use")
             q == OfKind(t, "tool_use")
  <2>2. t = p \o q /\ IsSequence(p) /\ IsSequence(q)
    <3>1. t = p \o q
      BY <1>4 DEF InOrder, CallsOf
    <3> QED
      BY <1>2, <3>1, Filters
  <2>3. OfKind(u, "tool_use") = q /\ Except(u, "tool_use") = s \o p
    <3>1. OfKind(u, "tool_use") = <<>> \o q /\ Except(u, "tool_use") = s \o p
      BY <1>3, <2>1
    <3> HIDE DEF p, q
    <3>2. <<>> \o q = q
      BY <2>2, EmptyConcatenation
    <3> QED
      BY <3>1, <3>2 DEF p, q
  <2>4. u = (s \o p) \o q
    <3> HIDE DEF p, q, s, t, u
    <3>1. (s \o p) \o q = s \o (p \o q)
      BY ONLY <1>2, <2>2, ConcatenationAssociates
    <3>2. u = s \o t
      BY DEF u
    <3> QED
      BY <2>2, <3>1, <3>2
  <2>5. OfKind(u, "tool_result") = <<>>
    <3>1. OfKind(u, "tool_result") = <<>> \o <<>>
      BY <1>3, <2>1
    <3> QED
      BY <3>1
  <2> HIDE DEF p, q, u
  <2>6. InOrder(c)
    BY <1>1, <1>4, <2>3, <2>4 DEF InOrder, CallsOf
  <2>7. ResultsOf(c) = ResultsOf(a) /\ CallsOf(c) = CallsOf(b)
    BY <1>1, <2>1, <2>3, <2>5 DEF ResultsOf, CallsOf, q, s, t
  <2> QED
    BY <1>1, <2>6, <2>7 DEF c, u
<1>5. CASE b.role = "user"
  <2>1. OfKind(t, "tool_result") = <<>> /\ Except(t, "tool_result") = t
    <3>1. OfKind(t, "tool_result") = <<>>
      BY <1>5 DEF ResultsOf
    <3> QED
      BY <1>2, <3>1, NoneOfKind
  <2> DEFINE p == OfKind(s, "tool_result")
             q == Except(s, "tool_result")
  <2>2. s = p \o q /\ IsSequence(p) /\ IsSequence(q)
    <3>1. s = p \o q
      BY <1>5 DEF InOrder, ResultsOf
    <3> QED
      BY <1>2, <3>1, Filters
  <2>3. OfKind(u, "tool_result") = p /\ Except(u, "tool_result") = q \o t
    <3>1. OfKind(u, "tool_result") = p \o <<>> /\ Except(u, "tool_result") = q \o t
      BY <1>3, <2>1
    <3> HIDE DEF p, q
    <3>2. p \o <<>> = p
      BY <2>2, EmptyConcatenation
    <3> QED
      BY <3>1, <3>2 DEF p, q
  <2>4. u = p \o (q \o t)
    <3> HIDE DEF p, q, s, t, u
    <3>1. (p \o q) \o t = p \o (q \o t)
      BY ONLY <1>2, <2>2, ConcatenationAssociates
    <3>2. u = s \o t
      BY DEF u
    <3> QED
      BY <2>2, <3>1, <3>2
  <2> HIDE DEF p, q, u
  <2>6. InOrder(c)
    BY <1>1, <1>5, <2>3, <2>4 DEF InOrder, ResultsOf
  <2>7. ResultsOf(c) = ResultsOf(a)
    BY <1>1, <2>3 DEF ResultsOf, p, s
  <2> QED
    BY <1>1, <1>5, <2>6, <2>7 DEF c, u
<1> QED
  BY <1>2, <1>4, <1>5

\* The next message that is paired, merged.
LEMMA GrowsAgain ==
  ASSUME NEW P, Paired(P), NEW n \in Nat, n + 1 \in 1..Len(P), NEW out, Regrown(out, P, n)
  PROVE  Regrown(Merged(out, P[n + 1]), P, n + 1)
<1> DEFINE m == P[n + 1]
           r == Merged(out, m)
<1>0. IsMessage(m) /\ InOrder(m) /\ m.role \in {"user", "assistant"}
  BY DEF Paired, AreMessages, IsMessage
<1>1. AreMessages(out) /\ IsSequence(out) /\ Len(out) \in Nat /\ \A i \in 1..Len(out) : IsMessage(out[i]) /\ InOrder(out[i])
  BY SequenceLen DEF Regrown, AreMessages
<1>2. AreMessages(r) /\ Len(r) # 0 /\ r[Len(r)].role = m.role
  BY <1>0, <1>1, MergedAreMessages
<1>3. CASE n = 0
  <2>1. out = <<>> /\ r = <<m>>
    BY <1>1, <1>3, MergedIs DEF Regrown
  <2>2. Len(r) = 1 /\ r[1] = m
    <3>1. Len(<<m>>) = 1 /\ <<m>>[1] = m
      BY ShortSequences
    <3> QED
      BY <2>1, <3>1
  <2>3. m.role = "user" => ResultsOf(m) = <<>>
    <3>1. ~(n + 1 - 1 \in 1..Len(P))
      BY <1>3
    <3> QED
      BY <3>1 DEF Paired
  <2> HIDE DEF r, m
  <2>4. \A i \in 1..Len(r) : i = 1 /\ r[i] = m /\ ~(i + 1 \in 1..Len(r))
    BY <2>2
  <2>5. Regrown(r, P, n + 1)
    BY <1>0, <1>2, <1>3, <2>2, <2>3, <2>4 DEF Regrown, m
  <2> QED
    BY <2>5 DEF r, m
<1>4. CASE n # 0
  <2> DEFINE k == Len(out)
             l == out[k]
             z == P[n]
  <2>0. k # 0 /\ k \in 1..k /\ l.role = z.role /\ (z.role = "assistant" => CallsOf(l) = CallsOf(z))
        /\ n \in 1..Len(P) /\ IsMessage(l) /\ InOrder(l) /\ IsMessage(z) /\ out # <<>>
    <3>1. k # 0 /\ l.role = z.role /\ (z.role = "assistant" => CallsOf(l) = CallsOf(z))
      BY <1>4 DEF Regrown
    <3>2. k \in 1..k /\ n \in 1..Len(P)
      BY <1>1, <1>4, <3>1
    <3>3. IsMessage(z)
      BY <3>2 DEF Paired, AreMessages
    <3>4. out # <<>>
      BY <3>1, ShortSequences
    <3> QED
      BY <1>1, <3>1, <3>2, <3>3, <3>4
  <2>1. /\ z.role = "assistant" /\ CallsOf(z) # <<>> => m.role = "user"
        /\ m.role = "user" /\ ResultsOf(m) # <<>> => z.role = "assistant"
        /\ z.role = "assistant" /\ m.role = "user" => IdSeq(ResultsOf(m)) = IdSeq(CallsOf(z))
    <3>1. n \in 1..Len(P) /\ n + 1 \in 1..Len(P) /\ n + 1 - 1 = n
      BY <2>0
    <3> QED
      BY <3>1 DEF Paired
  <2>2. CASE z.role = m.role
    <3> DEFINE c == Message(m.role, l.blocks \o m.blocks)
    <3>1. /\ Len(r) = k /\ \A i \in 1..(k - 1) : r[i] = out[i]
          /\ r[k] = c
      BY <1>1, <2>0, <2>2, MergedIs
    <3>2. /\ c.role = m.role /\ InOrder(c) /\ ResultsOf(c) = ResultsOf(l)
          /\ m.role = "assistant" => CallsOf(c) = CallsOf(m)
      <4>1. l.role = m.role /\ (l.role = "assistant" => CallsOf(l) = <<>>)
            /\ (l.role = "user" => ResultsOf(m) = <<>>)
        BY <2>0, <2>1, <2>2
      <4> QED
        BY <1>0, <2>0, <4>1, JoinInOrder
    <3> HIDE DEF c, r
    <3>3. \A i \in 1..Len(r) : i = k \/ (i \in 1..(k - 1) /\ i \in 1..k /\ i + 1 \in 1..k)
      BY <1>1, <3>1
    <3>4. \A i \in 1..Len(r) : InOrder(r[i]) /\ r[i].role = out[i].role /\ ResultsOf(r[i]) = ResultsOf(out[i])
      BY <1>1, <2>0, <2>2, <3>1, <3>2, <3>3
    <3>5. \A i \in 1..Len(r) : i + 1 \in 1..Len(r) =>
            /\ r[i].role # r[i + 1].role
            /\ r[i].role = "assistant" => IdSeq(ResultsOf(r[i + 1])) = IdSeq(CallsOf(r[i]))
      <4> TAKE i \in 1..Len(r)
      <4> HAVE i + 1 \in 1..Len(r)
      <4>1. i \in 1..(k - 1) /\ i \in 1..k /\ i + 1 \in 1..k
        BY <1>1, <3>1
      <4>2. /\ out[i].role # out[i + 1].role
            /\ out[i].role = "assistant" => IdSeq(ResultsOf(out[i + 1])) = IdSeq(CallsOf(out[i]))
        BY <4>1 DEF Regrown, k
      <4>3. r[i] = out[i] /\ r[i + 1].role = out[i + 1].role /\ ResultsOf(r[i + 1]) = ResultsOf(out[i + 1])
        BY <3>1, <3>4, <4>1
      <4> QED
        BY <4>2, <4>3
    <3>6. r[1].role = "user" => ResultsOf(r[1]) = <<>>
      <4>1. 1 \in 1..Len(r)
        BY <1>1, <2>0, <3>1
      <4>2. out[1].role = "user" => ResultsOf(out[1]) = <<>>
        BY <2>0 DEF Regrown, k
      <4> QED
        BY <3>4, <4>1, <4>2
    <3>7. /\ Len(r) # 0 /\ r[Len(r)].role = P[n + 1].role
          /\ P[n + 1].role = "assistant" => CallsOf(r[Len(r)]) = CallsOf(P[n + 1])
      BY <1>2, <3>1, <3>2
    <3>8. n + 1 # 0
      OBVIOUS
    <3> HIDE DEF m
    <3>9. Regrown(r, P, n + 1)
      BY <1>2, <3>4, <3>5, <3>6, <3>7, <3>8 DEF Regrown
    <3> QED
      BY <3>9 DEF r, m
  <2>3. CASE z.role # m.role
    <3>1. /\ Len(r) = k + 1 /\ \A i \in 1..k : r[i] = out[i]
          /\ r[k + 1] = m
      BY <1>1, <2>0, <2>3, MergedIs
    <3> HIDE DEF r
    <3>3. \A i \in 1..Len(r) : i = k + 1 \/ i \in 1..k
      BY <1>1, <3>1
    <3>4. \A i \in 1..Len(r) : InOrder(r[i])
      BY <1>0, <1>1, <3>1, <3>3
    <3>5. \A i \in 1..Len(r) : i + 1 \in 1..Len(r) =>
            /\ r[i].role # r[i + 1].role
            /\ r[i].role = "assistant" => IdSeq(ResultsOf(r[i + 1])) = IdSeq(CallsOf(r[i]))
      <4> TAKE i \in 1..Len(r)
      <4> HAVE i + 1 \in 1..Len(r)
      <4>1. CASE i = k
        <5>1. r[i] = l /\ r[i + 1] = m
          BY <2>0, <3>1, <4>1
        <5>2. l.role = "assistant" => m.role = "user" /\ CallsOf(l) = CallsOf(z)
          BY <1>0, <2>0, <2>3
        <5> QED
          BY <2>0, <2>1, <2>3, <5>1, <5>2
      <4>2. CASE i # k
        <5>1. i \in 1..k /\ i + 1 \in 1..k
          BY <1>1, <3>1, <4>2
        <5>2. /\ out[i].role # out[i + 1].role
              /\ out[i].role = "assistant" => IdSeq(ResultsOf(out[i + 1])) = IdSeq(CallsOf(out[i]))
          BY <5>1 DEF Regrown, k
        <5> QED
          BY <3>1, <5>1, <5>2
      <4> QED
        BY <4>1, <4>2
    <3>6. r[1].role = "user" => ResultsOf(r[1]) = <<>>
      <4>1. r[1] = out[1]
        BY <1>1, <2>0, <3>1
      <4>2. out[1].role = "user" => ResultsOf(out[1]) = <<>>
        BY <2>0 DEF Regrown, k
      <4> QED
        BY <4>1, <4>2
    <3>7. /\ Len(r) # 0 /\ r[Len(r)].role = P[n + 1].role
          /\ P[n + 1].role = "assistant" => CallsOf(r[Len(r)]) = CallsOf(P[n + 1])
      BY <1>2, <3>1
    <3>8. n + 1 # 0
      OBVIOUS
    <3> HIDE DEF m
    <3>9. Regrown(r, P, n + 1)
      BY <1>2, <3>4, <3>5, <3>6, <3>7, <3>8 DEF Regrown
    <3> QED
      BY <3>9 DEF r, m
  <2> QED
    BY <2>2, <2>3
<1> QED
  BY <1>3, <1>4

\* Paired messages, merged, have the shape the upstream asks for.
LEMMA PairedIsWellFormed ==
  ASSUME NEW P, Paired(P) PROVE WellFormed(MergeSameRole(P)) /\ AreMessages(MergeSameRole(P))
<1>0. IsSequence(P) /\ Len(P) \in Nat
  BY SequenceLen DEF Paired, AreMessages
<1>1. PICK f : Merges(f, P) /\ MergeSameRole(P) = f[Len(P)]
  BY <1>0, MergeIs
<1> DEFINE S == {n \in Nat : n <= Len(P) => Regrown(f[n], P, n)}
<1>2. 0 \in S
  <2>1. f[0] = <<>>
    BY <1>1 DEF Merges
  <2>2. Regrown(<<>>, P, 0)
    BY ShortSequences DEF Regrown, AreMessages
  <2> QED
    BY <2>1, <2>2
<1>3. ASSUME NEW n \in Nat, n \in S PROVE n + 1 \in S
  <2> SUFFICES ASSUME n + 1 <= Len(P) PROVE Regrown(f[n + 1], P, n + 1)
    OBVIOUS
  <2>1. n + 1 \in 1..Len(P) /\ (n + 1) - 1 = n /\ Regrown(f[n], P, n)
    BY <1>0, <1>3
  <2>2. f[n + 1] = Merged(f[n], P[n + 1])
    BY <1>1, <2>1 DEF Merges
  <2> QED
    BY <2>1, <2>2, GrowsAgain
<1> HIDE DEF S
<1>4. Len(P) \in S
  BY <1>0, <1>2, <1>3, Induction
<1> DEFINE M == MergeSameRole(P)
<1>5. Regrown(M, P, Len(P))
  BY <1>0, <1>1, <1>4 DEF S
<1> HIDE DEF M
<1>6. IsSequence(M) /\ DOMAIN M = 1..Len(M) /\ Len(M) \in Nat
      /\ \A i \in 1..Len(M) : IsMessage(M[i]) /\ InOrder(M[i]) /\ M[i].role \in {"user", "assistant"}
  BY <1>5, SequenceDomain DEF Regrown, AreMessages, IsMessage
<1>7. ASSUME NEW i \in 1..Len(M)
      PROVE  /\ M[i].role = "user" => CallsOf(M[i]) = <<>>
             /\ M[i].role = "assistant" => ResultsOf(M[i]) = <<>>
  <2>1. IsSequence(M[i].blocks) /\ (M[i].role = "user" => Lacks(M[i].blocks, "tool_use"))
        /\ (M[i].role = "assistant" => Lacks(M[i].blocks, "tool_result"))
    BY <1>6 DEF IsMessage
  <2> QED
    BY <2>1, NoneOfKind DEF CallsOf, ResultsOf
<1>8. ASSUME NEW i \in 1..Len(M), i # 1
      PROVE  /\ M[i].role # M[i - 1].role
             /\ IdSeq(ResultsOf(M[i])) = IdSeq(CallsOf(M[i - 1]))
  <2> DEFINE k == i - 1
  <2>1. k \in 1..Len(M) /\ k + 1 \in 1..Len(M) /\ i = k + 1
    BY <1>6, <1>8
  <2> HIDE DEF k
  <2>2. /\ M[k].role # M[k + 1].role
        /\ M[k].role = "assistant" => IdSeq(ResultsOf(M[k + 1])) = IdSeq(CallsOf(M[k]))
    BY <1>5, <2>1 DEF Regrown
  <2>3. M[k].role = "user" => CallsOf(M[k]) = <<>> /\ ResultsOf(M[k + 1]) = <<>>
    BY <1>6, <1>7, <2>1, <2>2
  <2>4. IdSeq(ResultsOf(M[k + 1])) = IdSeq(CallsOf(M[k]))
    BY <1>6, <2>1, <2>2, <2>3
  <2>5. i - 1 = k
    BY DEF k
  <2> QED
    BY <2>1, <2>2, <2>4, <2>5
<1>9. ASSUME 1 \in 1..Len(M) PROVE ResultsOf(M[1]) = <<>>
  BY <1>5, <1>6, <1>7, <1>9 DEF Regrown
<1>10. ASSUME NEW i \in 1..Len(M), i = Len(M) PROVE CallsOf(M[i]) = <<>>
  <2>1. CASE M[i].role = "user"
    BY <1>7, <2>1
  <2>2. CASE M[i].role = "assistant"
    <3>1. Len(P) # 0
      <4>1. M # <<>> /\ (Len(P) = 0 => M = <<>>)
        BY <1>5, <1>10, ShortSequences DEF Regrown
      <4> QED
        BY <4>1
    <3>2. /\ M[Len(M)].role = P[Len(P)].role
          /\ P[Len(P)].role = "assistant" => CallsOf(M[Len(M)]) = CallsOf(P[Len(P)])
      BY <1>5, <3>1 DEF Regrown
    <3>3. Len(P) \in 1..Len(P) /\ ~(Len(P) + 1 \in 1..Len(P))
      BY <1>0, <3>1
    <3>4. P[Len(P)].role = "assistant" => CallsOf(P[Len(P)]) = <<>>
      BY <3>3 DEF Paired
    <3> QED
      BY <1>10, <2>2, <3>2, <3>4
  <2> QED
    BY <1>6, <2>1, <2>2
<1>11. WellFormed(M)
  <2> SUFFICES ASSUME NEW i \in DOMAIN M
               PROVE  LET blocks == M[i].blocks
                          due    == IF i = 1 THEN <<>> ELSE OfKind(M[i - 1].blocks, "tool_use")
                      IN /\ i > 1 => M[i].role # M[i - 1].role
                         /\ blocks = IF M[i].role = "assistant"
                                     THEN Except(blocks, "tool_use") \o OfKind(blocks, "tool_use")
                                     ELSE OfKind(blocks, "tool_result") \o Except(blocks, "tool_result")
                         /\ IdSeq(OfKind(blocks, "tool_result")) = IdSeq(due)
                         /\ i = Len(M) => OfKind(blocks, "tool_use") = <<>>
    BY DEF WellFormed
  <2>1. i \in 1..Len(M) /\ i \in Nat
    BY <1>6
  <2> DEFINE due == IF i = 1 THEN <<>> ELSE OfKind(M[i - 1].blocks, "tool_use")
  <2>2. i > 1 => M[i].role # M[i - 1].role
    BY <1>8, <2>1
  <2>3. M[i].blocks = IF M[i].role = "assistant"
                      THEN Except(M[i].blocks, "tool_use") \o OfKind(M[i].blocks, "tool_use")
                      ELSE OfKind(M[i].blocks, "tool_result") \o Except(M[i].blocks, "tool_result")
    BY <1>6, <2>1 DEF InOrder, CallsOf, ResultsOf
  <2>4. IdSeq(OfKind(M[i].blocks, "tool_result")) = IdSeq(due)
    <3>1. CASE i = 1
      BY <1>9, <2>1, <3>1 DEF ResultsOf
    <3>2. CASE i # 1
      BY <1>8, <2>1, <3>2 DEF ResultsOf, CallsOf
    <3> QED
      BY <3>1, <3>2
  <2>5. i = Len(M) => OfKind(M[i].blocks, "tool_use") = <<>>
    BY <1>10, <2>1 DEF CallsOf
  <2> QED
    BY <2>2, <2>3, <2>4, <2>5
<1> QED
  BY <1>5, <1>11 DEF M, Regrown

\* The repair of whatever messages: pairing.go's three constraints.
LEMMA RepairIsWellFormed ==
  ASSUME NEW msgs, AreMessages(msgs)
  PROVE  WellFormed(RepairToolPairing(msgs)) /\ AreMessages(RepairToolPairing(msgs))
<1> DEFINE a == MergeSameRole(msgs)
           b == PairToolCalls(a)
<1>1. AreMessages(a)
  BY MergingKeepsMessages
<1>2. Paired(b)
  BY <1>1, CallsPaired
<1>3. WellFormed(MergeSameRole(b)) /\ AreMessages(MergeSameRole(b))
  BY <1>2, PairedIsWellFormed
<1> QED
  BY <1>3 DEF RepairToolPairing

---------------------------------------------------------------------------
(* The messages made of a client's items. *)

KindsOf(endpoint) ==
  IF endpoint = "chat" THEN {"system", "user", "other", "assistant", "tool"}
  ELSE {"system", "user", "other", "assistant", "call", "output", "reasoning", "unsupported"}

IsItem(endpoint, m) ==
  /\ m = Item(m.kind, m.no, m.parts, m.calls)
  /\ m.kind \in KindsOf(endpoint)
  /\ IsSequence(m.parts) /\ IsSequence(m.calls)

\* A block has what it was made of.
LEMMA BlockFields ==
  /\ \A kind, no : Content(kind, no).kind = kind /\ Content(kind, no).no = no
  /\ \A id, no : Call(id, no).kind = "tool_use" /\ Call(id, no).id = id /\ Call(id, no).no = no
  /\ \A id, no, parts : /\ Result(id, no, parts).kind = "tool_result" /\ Result(id, no, parts).id = id
                        /\ Result(id, no, parts).no = no
BY DEF Content, Call, Result, Block

\* And so has an item.
LEMMA ItemFields ==
  \A kind, no, parts, calls : LET m == Item(kind, no, parts, calls)
                              IN m.kind = kind /\ m.no = no /\ m.parts = parts /\ m.calls = calls
BY DEF Item

\* Contents have the kinds that were asked for.
LEMMA ContentsAre ==
  ASSUME NEW m, IsSequence(m.parts), NEW kinds
  PROVE  IsSequence(Contents(m, kinds)) /\ \A b \in ToSet(Contents(m, kinds)) : b.kind \in kinds /\ b.no = m.no
<1> DEFINE kept == Select(m.parts, kinds)
           t == [i \in DOMAIN kept |-> Content(kept[i], m.no)]
<1>1. IsSequence(kept) /\ ToSet(kept) = ToSet(m.parts) \cap kinds
  BY Selected
<1>2. DOMAIN kept = 1..Len(kept) /\ Len(kept) \in Nat
  BY <1>1, SequenceDomain
<1>3. Contents(m, kinds) = t
  BY DEF Contents
<1>4. \A i \in DOMAIN kept : kept[i] \in kinds
  BY <1>1 DEF ToSet
<1> HIDE DEF kept
<1>5. DOMAIN t = 1..Len(kept) /\ t = [i \in DOMAIN t |-> t[i]] /\ \A i \in 1..Len(kept) : t[i] = Content(kept[i], m.no)
  BY <1>2
<1> HIDE DEF t
<1>6. IsSequence(t)
  BY <1>2, <1>5, TableIsSequence
<1>7. \A i \in DOMAIN t : t[i].kind \in kinds /\ t[i].no = m.no
  BY <1>2, <1>4, <1>5, BlockFields
<1>8. \A b \in ToSet(t) : b.kind \in kinds /\ b.no = m.no
  BY <1>7 DEF ToSet
<1> QED
  BY <1>3, <1>6, <1>8

\* Calls are calls.
LEMMA ToolUsesAre ==
  ASSUME NEW m, IsSequence(m.calls)
  PROVE  IsSequence(ToolUses(m)) /\ \A b \in ToSet(ToolUses(m)) : b.kind = "tool_use" /\ b.no = m.no
<1> DEFINE kept == Select(m.calls, ToSet(m.calls) \ {NoId})
           t == [i \in DOMAIN kept |-> Call(kept[i], m.no)]
<1>1. IsSequence(kept)
  BY Selected
<1>2. DOMAIN kept = 1..Len(kept) /\ Len(kept) \in Nat
  BY <1>1, SequenceDomain
<1>3. ToolUses(m) = t
  BY DEF ToolUses
<1> HIDE DEF kept
<1>5. DOMAIN t = 1..Len(kept) /\ t = [i \in DOMAIN t |-> t[i]] /\ \A i \in 1..Len(kept) : t[i] = Call(kept[i], m.no)
  BY <1>2
<1> HIDE DEF t
<1>6. IsSequence(t)
  BY <1>2, <1>5, TableIsSequence
<1>7. \A i \in DOMAIN t : t[i].kind = "tool_use" /\ t[i].no = m.no
  BY <1>5, BlockFields
<1>8. \A b \in ToSet(t) : b.kind = "tool_use" /\ b.no = m.no
  BY <1>7 DEF ToSet
<1> QED
  BY <1>3, <1>6, <1>8

\* An output makes one result at most.
LEMMA ToolResultIs ==
  ASSUME NEW m
  PROVE  /\ IsSequence(ToolResult(m)) /\ Len(ToolResult(m)) <= 1
         /\ \A b \in ToSet(ToolResult(m)) : b.kind = "tool_result" /\ b.no = m.no
<1> DEFINE x == Result(Head(m.calls), m.no, Select(m.parts, {"text", "image"}))
<1>1. ToolResult(m) = <<>> \/ ToolResult(m) = <<x>>
  BY DEF ToolResult
<1>2. x.kind = "tool_result" /\ x.no = m.no
  BY BlockFields
<1> HIDE DEF x
<1>3. IsSequence(<<>>) /\ ToSet(<<>>) = {} /\ Len(<<>>) = 0
  BY ShortSequences, NoElements
<1>4. IsSequence(<<x>>) /\ ToSet(<<x>>) = {x} /\ Len(<<x>>) = 1
  BY ShortSequences DEF ToSet
<1> DEFINE r == ToolResult(m)
<1> HIDE DEF r
<1>5. CASE r = <<>>
  <2>1. IsSequence(r) /\ ToSet(r) = {} /\ Len(r) = 0
    BY <1>3, <1>5
  <2> QED
    BY <2>1 DEF r
<1>6. CASE r = <<x>>
  <2>1. IsSequence(r) /\ ToSet(r) = {x} /\ Len(r) = 1
    BY <1>4, <1>6
  <2> QED
    BY <1>2, <2>1 DEF r
<1> QED
  BY <1>1, <1>5, <1>6 DEF r

\* The blocks of an item suit its role.
LEMMA ItemBlocks ==
  ASSUME NEW endpoint \in {"chat", "responses"}, NEW m, IsItem(endpoint, m)
  PROVE  LET blocks == BlocksOf(endpoint, m)
         IN /\ IsSequence(blocks)
            /\ RoleOf(m) \in {"user", "assistant"}
            /\ RoleOf(m) = "user" => Lacks(blocks, "tool_use")
            /\ RoleOf(m) = "assistant" => Lacks(blocks, "tool_result")
            /\ \A b \in ToSet(blocks) : b.no = m.no
<1> DEFINE Fits(blocks) == /\ IsSequence(blocks)
                           /\ RoleOf(m) = "user" => Lacks(blocks, "tool_use")
                           /\ RoleOf(m) = "assistant" => Lacks(blocks, "tool_result")
                           /\ \A b \in ToSet(blocks) : b.no = m.no
<1>1. IsSequence(m.parts) /\ IsSequence(m.calls) /\ m.kind \in KindsOf(endpoint)
  BY DEF IsItem
<1>2. RoleOf(m) \in {"user", "assistant"} /\ (RoleOf(m) = "assistant" <=> m.kind \in {"assistant", "call", "reasoning"})
  BY DEF RoleOf
<1>3. Fits(<<>>)
  <2>1. IsSequence(<<>>) /\ ToSet(<<>>) = {}
    BY ShortSequences, NoElements
  <2> QED
    BY <2>1 DEF Lacks
<1>4. \A kinds \in SUBSET {"text", "image", "thinking"} : Fits(Contents(m, kinds))
  <2> TAKE kinds \in SUBSET {"text", "image", "thinking"}
  <2> DEFINE c == Contents(m, kinds)
  <2>1. IsSequence(c) /\ \A b \in ToSet(c) : b.kind \in kinds /\ b.no = m.no
    BY <1>1, ContentsAre
  <2> HIDE DEF c
  <2>2. \A b \in ToSet(c) : b.kind # "tool_use" /\ b.kind # "tool_result"
    BY <2>1
  <2>3. Fits(c)
    BY <2>1, <2>2 DEF Lacks
  <2> QED
    BY <2>3 DEF c
<1>5. RoleOf(m) = "assistant" => Fits(ToolUses(m))
  <2>1. IsSequence(ToolUses(m)) /\ \A b \in ToSet(ToolUses(m)) : b.kind = "tool_use" /\ b.no = m.no
    BY <1>1, ToolUsesAre
  <2> QED
    BY <2>1 DEF Lacks
<1>6. RoleOf(m) = "user" => Fits(ToolResult(m))
  <2>1. IsSequence(ToolResult(m)) /\ \A b \in ToSet(ToolResult(m)) : b.kind = "tool_result" /\ b.no = m.no
    BY ToolResultIs
  <2> QED
    BY <2>1 DEF Lacks
<1>7. ASSUME NEW a, NEW c, Fits(a), Fits(c) PROVE Fits(a \o c)
  <2>1. IsSequence(a \o c) /\ ToSet(a \o c) = ToSet(a) \cup ToSet(c)
    BY <1>7, Concatenation, ElementsOfConcatenation
  <2> QED
    BY <1>7, <2>1 DEF Lacks
<1>8. ASSUME endpoint = "chat" PROVE Fits(ChatBlocks(m))
  <2>0. m.kind \in {"system", "user", "other", "assistant", "tool"}
    BY <1>1, <1>8 DEF KindsOf
  <2>1. CASE m.kind = "system"
    <3>1. ChatBlocks(m) = <<>>
      BY <2>1 DEF ChatBlocks
    <3> QED
      BY <1>3, <3>1
  <2>2. CASE m.kind \in {"user", "other"}
    <3>1. ChatBlocks(m) = Contents(m, {"text", "image"})
      BY <2>2 DEF ChatBlocks, ChatUserBlocks
    <3>2. Fits(Contents(m, {"text", "image"}))
      BY <1>4
    <3> HIDE DEF Fits
    <3> QED
      BY <3>1, <3>2
  <2>3. CASE m.kind = "assistant"
    <3> DEFINE a == Contents(m, {"thinking"})
               b == Contents(m, {"text"})
               c == ToolUses(m)
    <3>1. ChatBlocks(m) = (a \o b) \o c
      BY <2>3 DEF ChatBlocks, ChatAssistantBlocks
    <3>2. Fits(a) /\ Fits(b)
      BY <1>4
    <3>3. Fits(c)
      BY <1>2, <1>5, <2>3
    <3> HIDE DEF Fits, a, b, c
    <3>4. Fits(a \o b)
      BY <1>7, <3>2
    <3>5. Fits((a \o b) \o c)
      BY <1>7, <3>3, <3>4
    <3> QED
      BY <3>1, <3>5
  <2>4. CASE m.kind = "tool"
    <3>1. ChatBlocks(m) = ToolResult(m) /\ RoleOf(m) = "user"
      BY <1>2, <2>4 DEF ChatBlocks
    <3> HIDE DEF Fits
    <3> QED
      BY <1>6, <3>1
  <2> QED
    BY <2>0, <2>1, <2>2, <2>3, <2>4
<1>9. ASSUME endpoint = "responses" PROVE Fits(ResponsesBlocks(m))
  <2>0. m.kind \in {"system", "user", "other", "assistant", "call", "output", "reasoning", "unsupported"}
    BY <1>1, <1>9 DEF KindsOf
  <2>1. CASE m.kind \in {"system", "unsupported"}
    <3>1. ResponsesBlocks(m) = <<>>
      BY <2>1 DEF ResponsesBlocks
    <3> QED
      BY <1>3, <3>1
  <2>2. CASE m.kind \in {"user", "other"}
    <3>1. ResponsesBlocks(m) = Contents(m, {"text", "image"})
      BY <2>2 DEF ResponsesBlocks
    <3>2. Fits(Contents(m, {"text", "image"}))
      BY <1>4
    <3> HIDE DEF Fits
    <3> QED
      BY <3>1, <3>2
  <2>3. CASE m.kind = "assistant"
    <3>1. ResponsesBlocks(m) = Contents(m, {"text"})
      BY <2>3 DEF ResponsesBlocks
    <3>2. Fits(Contents(m, {"text"}))
      BY <1>4
    <3> HIDE DEF Fits
    <3> QED
      BY <3>1, <3>2
  <2>4. CASE m.kind = "call"
    <3>1. ResponsesBlocks(m) = ToolUses(m) /\ RoleOf(m) = "assistant"
      BY <1>2, <2>4 DEF ResponsesBlocks
    <3> HIDE DEF Fits
    <3> QED
      BY <1>5, <3>1
  <2>5. CASE m.kind = "output"
    <3>1. ResponsesBlocks(m) = ToolResult(m) /\ RoleOf(m) = "user"
      BY <1>2, <2>5 DEF ResponsesBlocks
    <3> HIDE DEF Fits
    <3> QED
      BY <1>6, <3>1
  <2>6. CASE m.kind = "reasoning"
    <3>1. ResponsesBlocks(m) = Contents(m, {"thinking"})
      BY <2>6 DEF ResponsesBlocks
    <3>2. Fits(Contents(m, {"thinking"}))
      BY <1>4
    <3> HIDE DEF Fits
    <3> QED
      BY <3>1, <3>2
  <2> QED
    BY <2>0, <2>1, <2>2, <2>3, <2>4, <2>5, <2>6
<1>10. BlocksOf(endpoint, m) = IF endpoint = "chat" THEN ChatBlocks(m) ELSE ResponsesBlocks(m)
  BY DEF BlocksOf
<1> DEFINE blocks == BlocksOf(endpoint, m)
<1>11. Fits(blocks)
  <2> HIDE DEF Fits
  <2> QED
    BY <1>8, <1>9, <1>10
<1> QED
  BY <1>2, <1>11

AreItems(endpoint, items) == IsSequence(items) /\ \A i \in 1..Len(items) : IsItem(endpoint, items[i])

\* The message of an item, if there is one.
PieceOf(endpoint, m) ==
  IF BlocksOf(endpoint, m) = <<>> THEN <<>> ELSE <<Message(RoleOf(m), BlocksOf(endpoint, m))>>

\* Converted, by the row of its messages.
LEMMA ConvertedIs ==
  ASSUME NEW endpoint, NEW items, IsSequence(items)
  PROVE  \E t : /\ Converted(endpoint, items) = FlattenSeq(t)
                /\ IsSequence(t) /\ Len(t) = Len(items)
                /\ \A i \in 1..Len(items) : t[i] = PieceOf(endpoint, items[i])
<1> DEFINE t == [i \in DOMAIN items |-> PieceOf(endpoint, items[i])]
<1>1. DOMAIN items = 1..Len(items) /\ Len(items) \in Nat
  BY SequenceDomain
<1>2. Converted(endpoint, items) = FlattenSeq(t)
  BY DEF Converted, PieceOf
<1>3. DOMAIN t = 1..Len(items) /\ t = [i \in DOMAIN t |-> t[i]]
      /\ \A i \in 1..Len(items) : t[i] = PieceOf(endpoint, items[i])
  BY <1>1
<1> HIDE DEF t
<1>4. IsSequence(t) /\ Len(t) = Len(items)
  BY <1>1, <1>3, TableIsSequence
<1> QED
  BY <1>2, <1>3, <1>4

\* An item makes one message at most.
LEMMA PieceIsMessage ==
  ASSUME NEW endpoint \in {"chat", "responses"}, NEW m, IsItem(endpoint, m)
  PROVE  AreMessages(PieceOf(endpoint, m)) /\ Len(PieceOf(endpoint, m)) <= 1
<1> DEFINE blocks == BlocksOf(endpoint, m)
           x == Message(RoleOf(m), blocks)
           p == PieceOf(endpoint, m)
<1>1. /\ IsSequence(blocks) /\ RoleOf(m) \in {"user", "assistant"}
      /\ RoleOf(m) = "user" => Lacks(blocks, "tool_use")
      /\ RoleOf(m) = "assistant" => Lacks(blocks, "tool_result")
  BY ItemBlocks
<1>2. (blocks = <<>> => p = <<>>) /\ (blocks # <<>> => p = <<x>>)
  BY DEF PieceOf
<1> HIDE DEF p
<1>3. x.role = RoleOf(m) /\ x.blocks = blocks /\ x = Message(x.role, x.blocks)
  BY MessageFields
<1> HIDE DEF x, blocks
<1>4. IsMessage(x)
  BY <1>1, <1>3 DEF IsMessage
<1>5. IsSequence(<<>>) /\ Len(<<>>) = 0 /\ IsSequence(<<x>>) /\ Len(<<x>>) = 1 /\ <<x>>[1] = x
  BY ShortSequences
<1>6. CASE p = <<>>
  BY <1>5, <1>6 DEF AreMessages, p
<1>7. CASE p = <<x>>
  <2>1. IsSequence(p) /\ Len(p) = 1 /\ p[1] = x
    BY <1>5, <1>7
  <2>2. AreMessages(p) /\ Len(p) <= 1
    BY <1>4, <2>1 DEF AreMessages
  <2> QED
    BY <2>2 DEF p
<1> QED
  BY <1>2, <1>6, <1>7

\* Messages in a row are messages.
LEMMA MessagesConcatenate ==
  ASSUME NEW a, NEW b, AreMessages(a), AreMessages(b) PROVE AreMessages(a \o b)
<1> DEFINE c == a \o b
<1>0. IsSequence(a) /\ IsSequence(b) /\ Len(a) \in Nat /\ Len(b) \in Nat
  BY SequenceLen DEF AreMessages
<1>1. /\ IsSequence(c) /\ Len(c) = Len(a) + Len(b)
      /\ \A i \in 1..Len(a) : c[i] = a[i]
      /\ \A i \in 1..Len(b) : c[Len(a) + i] = b[i]
  BY <1>0, Concatenation
<1> HIDE DEF c
<1>2. ASSUME NEW i \in 1..Len(c) PROVE IsMessage(c[i])
  <2>1. CASE i <= Len(a)
    <3>1. i \in 1..Len(a)
      BY <1>0, <2>1
    <3> QED
      BY <1>1, <3>1 DEF AreMessages
  <2>2. CASE i > Len(a)
    <3>1. i - Len(a) \in 1..Len(b) /\ i = Len(a) + (i - Len(a))
      BY <1>0, <1>1, <2>2
    <3>2. c[i] = b[i - Len(a)]
      BY <1>1, <3>1
    <3> QED
      BY <3>1, <3>2 DEF AreMessages
  <2> QED
    BY <1>0, <2>1, <2>2
<1>3. AreMessages(c)
  BY <1>1, <1>2 DEF AreMessages
<1> QED
  BY <1>3 DEF c

\* A history makes messages, whatever its items.
LEMMA ConvertedAreMessages ==
  ASSUME NEW endpoint \in {"chat", "responses"}, NEW items, AreItems(endpoint, items)
  PROVE  AreMessages(Converted(endpoint, items))
<1>1. PICK t : /\ Converted(endpoint, items) = FlattenSeq(t)
               /\ IsSequence(t) /\ Len(t) = Len(items)
               /\ \A i \in 1..Len(items) : t[i] = PieceOf(endpoint, items[i])
  BY ConvertedIs DEF AreItems
<1>2. \A i \in 1..Len(t) : AreMessages(t[i]) /\ IsSequence(t[i])
  <2> TAKE i \in 1..Len(t)
  <2>1. AreMessages(PieceOf(endpoint, items[i]))
    BY <1>1, PieceIsMessage DEF AreItems
  <2> QED
    BY <1>1, <2>1 DEF AreMessages
<1> DEFINE U == UNION {ToSet(t[i]) : i \in DOMAIN t}
           Q == {q \in Seq(U) : AreMessages(q)}
<1>3. \A i \in 1..Len(t) : t[i] \in Q
  <2> TAKE i \in 1..Len(t)
  <2>1. ToSet(t[i]) \subseteq U
    BY <1>1, SequenceDomain
  <2> HIDE DEF U
  <2>2. t[i] \in Seq(U)
    BY <1>2, <2>1, TypedSequence
  <2> QED
    BY <1>2, <2>2
<1> HIDE DEF U
<1>4. \A a, b \in Q : a \o b \in Q
  <2> TAKE a, b \in Q
  <2>1. a \in Seq(U) /\ b \in Seq(U) /\ AreMessages(a) /\ AreMessages(b)
    OBVIOUS
  <2>2. a \o b \in Seq(U) /\ AreMessages(a \o b)
    BY <2>1, MessagesConcatenate
  <2> QED
    BY <2>2
<1>5. <<>> \in Q
  BY ShortSequences DEF AreMessages
<1>6. \A q \in Q : AreMessages(q)
  OBVIOUS
<1> HIDE DEF Q
<1>7. FlattenSeq(t) \in Q
  BY <1>1, <1>2, <1>3, <1>4, <1>5, FlattenKeeps
<1> QED
  BY <1>1, <1>6, <1>7

---------------------------------------------------------------------------
(* The requests of a growing conversation. *)

\* What every step of a Chat or Responses client leaves.
HistoryRepaired ==
  /\ settings \in Settings
  /\ ~FromMessages =>
       /\ AreItems(settings.endpoint, history)
       /\ \A i \in 1..Len(history) : history[i].no = i
       /\ made = Converted(settings.endpoint, history)
       /\ messages = RepairToolPairing(made)

\* The endpoints of the settings.
LEMMA EndpointsAre == \A s \in Settings : s.endpoint \in {"chat", "responses", "messages"}
BY DEF Settings, Configuration

\* Nothing put together, ...
LEMMA NothingFlattened == FlattenSeq(<<>>) = <<>>
<1>1. IsSequence(<<>>) /\ Len(<<>>) = 0
  BY ShortSequences
<1> QED
  BY <1>1 DEF FlattenSeq

\* ... merged, ...
LEMMA NothingMerged == MergeSameRole(<<>>) = <<>>
<1> DEFINE e == <<>>
<1>1. IsSequence(e) /\ Len(e) = 0
  BY ShortSequences
<1> HIDE DEF e
<1>2. PICK f : Merges(f, e) /\ MergeSameRole(e) = f[Len(e)]
  BY <1>1, MergeIs
<1>3. f[0] = <<>>
  BY <1>2 DEF Merges
<1> QED
  BY <1>1, <1>2, <1>3 DEF e

\* ... repaired ...
LEMMA NothingRepaired == RepairToolPairing(<<>>) = <<>>
<1>1. PairToolCalls(<<>>) = <<>>
  <2> DEFINE results == Results(<<>>)
             Piece(m) == IF m.role = "assistant" THEN PairAssistant(m, results) ELSE StripToolResults(m)
             t == [i \in DOMAIN <<>> |-> Piece(<<>>[i])]
  <2>1. PairToolCalls(<<>>) = FlattenSeq(t)
    BY DEF PairToolCalls
  <2> HIDE DEF results, Piece
  <2>2. t = <<>>
    OBVIOUS
  <2> HIDE DEF t
  <2> QED
    BY <2>1, <2>2, NothingFlattened
<1> QED
  BY <1>1, NothingMerged DEF RepairToolPairing

\* ... or converted is nothing.
LEMMA NothingConverted == \A endpoint : Converted(endpoint, <<>>) = <<>>
<1> TAKE endpoint
<1> DEFINE t == [i \in DOMAIN <<>> |-> PieceOf(endpoint, <<>>[i])]
<1>1. Converted(endpoint, <<>>) = FlattenSeq(t)
  BY DEF Converted, PieceOf
<1>2. t = <<>>
  OBVIOUS
<1> HIDE DEF t
<1> QED
  BY <1>1, <1>2, NothingFlattened

\* A conversation starts with nothing to repair.
LEMMA StartRepaired == RequestsInit => HistoryRepaired
<1> SUFFICES ASSUME RequestsInit PROVE HistoryRepaired
  OBVIOUS
<1>1. settings \in Settings /\ history = <<>> /\ made = <<>> /\ messages = <<>>
  BY DEF RequestsInit
<1>2. Converted(settings.endpoint, <<>>) = <<>> /\ RepairToolPairing(<<>>) = <<>>
  BY NothingConverted, NothingRepaired
<1>3. AreItems(settings.endpoint, history) /\ \A i \in 1..Len(history) : history[i].no = i
  BY <1>1, ShortSequences DEF AreItems
<1> QED
  BY <1>1, <1>2, <1>3 DEF HistoryRepaired

\* An item of the endpoint is resent.
LEMMA ResendRepairs ==
  ASSUME HistoryRepaired, settings.endpoint \in {"chat", "responses"},
         NEW m, IsItem(settings.endpoint, m), m.no = Turn, Resend(m)
  PROVE  HistoryRepaired'
<1> DEFINE e == settings.endpoint
           h == Append(history, m)
<1>1. settings' = settings /\ history' = h /\ made' = Converted(e, history') /\ messages' = RepairToolPairing(made')
  BY DEF Resend, RunPipeline
<1>2. ~FromMessages
  BY DEF FromMessages
<1>3. AreItems(e, history) /\ (\A i \in 1..Len(history) : history[i].no = i) /\ settings \in Settings
  BY <1>2 DEF HistoryRepaired
<1>4. IsSequence(history) /\ Len(history) \in Nat
  BY <1>3, SequenceLen DEF AreItems
<1>5. /\ IsSequence(h) /\ Len(h) = Len(history) + 1 /\ h[Len(history) + 1] = m
      /\ \A i \in 1..Len(history) : h[i] = history[i]
  BY <1>4, Appended
<1> HIDE DEF h
<1>6. \A i \in 1..Len(h) : i = Len(history) + 1 \/ i \in 1..Len(history)
  BY <1>4, <1>5
<1>7. AreItems(e, h)
  <2>1. \A i \in 1..Len(h) : IsItem(e, h[i])
    BY <1>3, <1>5, <1>6 DEF AreItems
  <2> QED
    BY <1>5, <2>1 DEF AreItems
<1>8. \A i \in 1..Len(h) : h[i].no = i
  BY <1>3, <1>4, <1>5, <1>6 DEF Turn
<1>9. settings'.endpoint = e
  BY <1>1
<1> HIDE DEF e
<1>10. /\ settings' \in Settings
       /\ AreItems(settings'.endpoint, history')
       /\ \A i \in 1..Len(history') : history'[i].no = i
       /\ made' = Converted(settings'.endpoint, history')
       /\ messages' = RepairToolPairing(made')
  BY <1>1, <1>3, <1>7, <1>8, <1>9
<1> QED
  BY <1>10 DEF HistoryRepaired

\* What a client of the Chat endpoint, or of the Responses endpoint, says is an item.
LEMMA NewItem ==
  ASSUME NEW endpoint, NEW kind \in KindsOf(endpoint), NEW no, NEW parts, NEW calls,
         IsSequence(parts), IsSequence(calls)
  PROVE  IsItem(endpoint, Item(kind, no, parts, calls)) /\ Item(kind, no, parts, calls).no = no
<1> DEFINE m == Item(kind, no, parts, calls)
<1>1. m.kind = kind /\ m.no = no /\ m.parts = parts /\ m.calls = calls
  BY DEF Item
<1>2. m = Item(m.kind, m.no, m.parts, m.calls)
  BY <1>1
<1> HIDE DEF m
<1>3. IsItem(endpoint, m) /\ m.no = no
  BY <1>1, <1>2 DEF IsItem
<1> QED
  BY <1>3 DEF m

\* The parts of the items are sequences.
LEMMA PartsAre ==
  /\ IsSequence(Plain) /\ IsSequence(Mixed) /\ IsSequence(<<>>)
  /\ \A x : IsSequence(<<x>>)
  /\ \A x, y : IsSequence(<<x, y>>)
<1>1. \A x, y : <<x, y>> \in Seq({x, y})
  OBVIOUS
<1>2. \A x, y : IsSequence(<<x, y>>)
  BY <1>1 DEF IsSequence
<1> QED
  BY <1>2, ShortSequences DEF Plain, Mixed

\* Every step keeps it.
LEMMA StepRepairs == HistoryRepaired /\ [RequestsNext]_requestVars => HistoryRepaired'
<1> SUFFICES ASSUME HistoryRepaired, [RequestsNext]_requestVars PROVE HistoryRepaired'
  OBVIOUS
<1>0. KindsOf("chat") = {"system", "user", "other", "assistant", "tool"}
      /\ KindsOf("responses") = {"system", "user", "other", "assistant", "call", "output", "reasoning", "unsupported"}
  BY DEF KindsOf
<1>1. ASSUME NEW endpoint \in {"chat", "responses"}, settings.endpoint = endpoint, NEW kind \in KindsOf(endpoint),
             NEW parts, NEW calls, IsSequence(parts), IsSequence(calls), Resend(Item(kind, Turn, parts, calls))
      PROVE  HistoryRepaired'
  <2> DEFINE m == Item(kind, Turn, parts, calls)
  <2>1. IsItem(endpoint, m) /\ m.no = Turn
    BY <1>1, NewItem
  <2> HIDE DEF m
  <2>2. IsItem(settings.endpoint, m) /\ m.no = Turn /\ Resend(m) /\ settings.endpoint \in {"chat", "responses"}
    BY <1>1, <2>1 DEF m
  <2> QED
    BY <2>2, ResendRepairs
<1>2. CASE ChatMessage
  <2>1. PICK kind \in {"user", "other", "system"}, parts \in {Plain, Mixed, <<"text", "bad">>} :
          Resend(Item(kind, Turn, parts, <<>>))
    BY <1>2 DEF ChatMessage
  <2>2. IsSequence(parts) /\ IsSequence(<<>>)
    BY PartsAre
  <2>3. kind \in KindsOf("chat") /\ settings.endpoint = "chat"
    BY <1>0, <1>2 DEF ChatMessage
  <2> QED
    BY <1>1, <2>1, <2>2, <2>3
<1>3. CASE ChatAssistant
  <2>1. PICK parts, calls :
          /\ parts \in {<<>>, Plain, <<"thinking", "bad">>}
          /\ Resend(Item("assistant", Turn, parts, calls))
          /\ \/ calls \in {<<>>, <<NoId>>} \cup {<<id>> : id \in Ids} \cup {both \in Ids \X Ids : both[1] # both[2]}
             \/ calls \in {<<>>} \cup {<<id>> : id \in Ids}
    BY <1>3 DEF ChatAssistant
  <2>2. IsSequence(parts)
    BY <2>1, PartsAre
  <2>3. IsSequence(calls)
    <3>1. calls = <<>> \/ calls = <<NoId>> \/ (\E id \in Ids : calls = <<id>>) \/ (\E x, y \in Ids : calls = <<x, y>>)
      BY <2>1
    <3> QED
      BY <3>1, PartsAre
  <2>4. "assistant" \in KindsOf("chat") /\ settings.endpoint = "chat"
    BY <1>0, <1>3 DEF ChatAssistant
  <2> QED
    BY <1>1, <2>1, <2>2, <2>3, <2>4
<1>4. ASSUME NEW kind, ToolOutput(kind)
      PROVE  \E parts \in {Plain, Mixed} : \E id : Resend(Item(kind, Turn, parts, <<id>>))
  BY <1>4 DEF ToolOutput
<1>5. CASE ChatTool
  <2>1. settings.endpoint = "chat" /\ ToolOutput("tool") /\ "tool" \in KindsOf("chat")
    BY <1>0, <1>5 DEF ChatTool
  <2>2. PICK parts \in {Plain, Mixed} : \E id : Resend(Item("tool", Turn, parts, <<id>>))
    BY <1>4, <2>1
  <2>3. PICK id : Resend(Item("tool", Turn, parts, <<id>>))
    BY <2>2
  <2>4. IsSequence(parts) /\ IsSequence(<<id>>)
    BY <2>2, PartsAre
  <2> QED
    BY <1>1, <2>1, <2>3, <2>4
<1>6. CASE ResponsesMessage
  <2>1. PICK kind \in {"user", "system", "assistant", "other", "unsupported", "reasoning"},
             parts \in {Plain, Mixed, <<"text", "bad">>, <<"thinking">>, <<"bad">>, <<"thinking", "bad">>} :
          Resend(Item(kind, Turn, parts, <<>>))
    BY <1>6 DEF ResponsesMessage
  <2>2. IsSequence(parts) /\ IsSequence(<<>>)
    BY PartsAre
  <2>3. kind \in KindsOf("responses") /\ settings.endpoint = "responses"
    BY <1>0, <1>6 DEF ResponsesMessage
  <2> QED
    BY <1>1, <2>1, <2>2, <2>3
<1>7. CASE ResponsesCall
  <2>1. PICK id : Resend(Item("call", Turn, <<>>, <<id>>))
    BY <1>7 DEF ResponsesCall
  <2>2. IsSequence(<<>>) /\ IsSequence(<<id>>)
    BY PartsAre
  <2>3. "call" \in KindsOf("responses") /\ settings.endpoint = "responses"
    BY <1>0, <1>7 DEF ResponsesCall
  <2> QED
    BY <1>1, <2>1, <2>2, <2>3
<1>8. CASE ResponsesOutput
  <2>1. settings.endpoint = "responses" /\ ToolOutput("output") /\ "output" \in KindsOf("responses")
    BY <1>0, <1>8 DEF ResponsesOutput
  <2>2. PICK parts \in {Plain, Mixed} : \E id : Resend(Item("output", Turn, parts, <<id>>))
    BY <1>4, <2>1
  <2>3. PICK id : Resend(Item("output", Turn, parts, <<id>>))
    BY <2>2
  <2>4. IsSequence(parts) /\ IsSequence(<<id>>)
    BY <2>2, PartsAre
  <2> QED
    BY <1>1, <2>1, <2>3, <2>4
<1>9. ASSUME NEW role, NEW b, FromMessages, AddBlock(role, b) PROVE HistoryRepaired'
  <2>1. settings' = settings
    BY <1>9 DEF AddBlock, RunPipeline
  <2> QED
    BY <1>9, <2>1 DEF HistoryRepaired, FromMessages
<1>10. CASE MessagesUser
  <2>1. FromMessages /\ \E b : AddBlock("user", b)
    BY <1>10 DEF MessagesUser
  <2> QED
    BY <1>9, <2>1
<1>11. CASE MessagesAssistant
  <2>1. FromMessages /\ \E b : AddBlock("assistant", b)
    BY <1>11 DEF MessagesAssistant
  <2> QED
    BY <1>9, <2>1
<1>12. CASE UNCHANGED requestVars
  <2>1. settings' = settings /\ history' = history /\ made' = made /\ messages' = messages
    BY <1>12 DEF requestVars
  <2> QED
    BY <2>1 DEF HistoryRepaired, FromMessages
<1> QED
  BY <1>2, <1>3, <1>5, <1>6, <1>7, <1>8, <1>10, <1>11, <1>12 DEF RequestsNext

\* A Chat or Responses request is the repair of what was made of the client's whole history.
THEOREM RequestsRepaired == RequestsSpec => []HistoryRepaired
<1>1. RequestsInit => HistoryRepaired
  BY StartRepaired
<1>2. HistoryRepaired /\ [RequestsNext]_requestVars => HistoryRepaired'
  BY StepRepairs
<1> QED
  BY <1>1, <1>2, PTL DEF RequestsSpec

\* And so the upstream gets the shape it asks for.
LEMMA RepairedIsWellFormed == HistoryRepaired => PairingInvariants
<1> SUFFICES ASSUME HistoryRepaired, ~FromMessages PROVE WellFormed(messages)
  BY DEF PairingInvariants
<1>1. settings.endpoint \in {"chat", "responses"}
  BY EndpointsAre DEF HistoryRepaired, FromMessages
<1>2. AreMessages(made)
  BY <1>1, ConvertedAreMessages DEF HistoryRepaired
<1> QED
  BY <1>2, RepairIsWellFormed DEF HistoryRepaired

\* The three constraints at the head of pairing.go: whatever a Chat or Responses client sends, and
\* however long its history, each call that goes upstream is answered by the next message, in its
\* order, no result is without its call, and roles alternate.
THEOREM PairingAlwaysHolds == RequestsSpec => []PairingInvariants
BY RequestsRepaired, RepairedIsWellFormed, PTL

---------------------------------------------------------------------------
(* The blocks of messages put together. *)

\* The row of what the messages hold.
LEMMA BlocksAre ==
  ASSUME NEW msgs, AreMessages(msgs)
  PROVE  \E t : /\ Blocks(msgs) = FlattenSeq(t)
                /\ IsSequence(t) /\ Len(t) = Len(msgs)
                /\ \A i \in 1..Len(msgs) : t[i] = msgs[i].blocks /\ IsSequence(t[i])
<1> DEFINE t == [i \in DOMAIN msgs |-> msgs[i].blocks]
<1>1. IsSequence(msgs) /\ DOMAIN msgs = 1..Len(msgs) /\ Len(msgs) \in Nat
      /\ \A i \in 1..Len(msgs) : IsSequence(msgs[i].blocks)
  BY SequenceDomain DEF AreMessages, IsMessage
<1>2. DOMAIN t = 1..Len(msgs) /\ t = [i \in DOMAIN t |-> t[i]]
      /\ \A i \in 1..Len(msgs) : t[i] = msgs[i].blocks
  BY <1>1
<1>3. Blocks(msgs) = FlattenSeq(t)
  BY DEF Blocks
<1> HIDE DEF t
<1>4. IsSequence(t) /\ Len(t) = Len(msgs)
  BY <1>1, <1>2, TableIsSequence
<1> QED
  BY <1>1, <1>2, <1>3, <1>4

\* A row, and one more behind it.
LEMMA FlattenOneMore ==
  ASSUME NEW ss, IsSequence(ss), NEW tt, IsSequence(tt), Len(tt) = Len(ss) + 1,
         \A i \in 1..Len(ss) : tt[i] = ss[i],
         \A i \in 1..Len(tt) : IsSequence(tt[i])
  PROVE  FlattenSeq(tt) = FlattenSeq(ss) \o tt[Len(ss) + 1]
<1>0. Len(ss) \in Nat /\ \A i \in 1..Len(ss) : IsSequence(ss[i]) /\ i \in 1..Len(tt)
  BY SequenceLen
<1>1. PICK f : Flattens(f, ss) /\ FlattenSeq(ss) = f[Len(ss)]
  BY <1>0, FlattenIs
<1>2. PICK g : Flattens(g, tt) /\ FlattenSeq(tt) = g[Len(tt)]
  BY FlattenIs
<1> DEFINE S == {n \in Nat : n <= Len(ss) => f[n] = g[n]}
<1>3. 0 \in S
  BY <1>1, <1>2 DEF Flattens
<1>4. ASSUME NEW n \in Nat, n \in S PROVE n + 1 \in S
  <2> SUFFICES ASSUME n + 1 <= Len(ss) PROVE f[n + 1] = g[n + 1]
    OBVIOUS
  <2>1. n + 1 \in 1..Len(ss) /\ n + 1 \in 1..Len(tt) /\ (n + 1) - 1 = n /\ f[n] = g[n] /\ tt[n + 1] = ss[n + 1]
    BY <1>0, <1>4
  <2>2. f[n + 1] = f[n] \o ss[n + 1] /\ g[n + 1] = g[n] \o tt[n + 1]
    BY <1>1, <1>2, <2>1 DEF Flattens
  <2> QED
    BY <2>1, <2>2
<1> HIDE DEF S
<1>5. Len(ss) \in S
  BY <1>0, <1>3, <1>4, Induction
<1>6. f[Len(ss)] = g[Len(ss)]
  BY <1>0, <1>5 DEF S
<1>7. Len(ss) + 1 \in 1..Len(tt) /\ (Len(ss) + 1) - 1 = Len(ss)
  BY <1>0
<1>8. g[Len(ss) + 1] = g[Len(ss)] \o tt[Len(ss) + 1]
  BY <1>2, <1>7 DEF Flattens
<1> QED
  BY <1>1, <1>2, <1>6, <1>8

\* One message more.
LEMMA BlocksAdded ==
  ASSUME NEW a, NEW b, AreMessages(a), AreMessages(b), Len(b) = Len(a) + 1,
         \A i \in 1..Len(a) : b[i] = a[i]
  PROVE  Blocks(b) = Blocks(a) \o b[Len(a) + 1].blocks
<1>0. Len(a) \in Nat /\ Len(a) + 1 \in 1..Len(b)
  BY SequenceLen DEF AreMessages
<1>1. PICK s : /\ Blocks(a) = FlattenSeq(s) /\ IsSequence(s) /\ Len(s) = Len(a)
               /\ \A i \in 1..Len(a) : s[i] = a[i].blocks /\ IsSequence(s[i])
  BY BlocksAre
<1>2. PICK t : /\ Blocks(b) = FlattenSeq(t) /\ IsSequence(t) /\ Len(t) = Len(b)
               /\ \A i \in 1..Len(b) : t[i] = b[i].blocks /\ IsSequence(t[i])
  BY BlocksAre
<1>3. /\ Len(t) = Len(s) + 1 /\ \A i \in 1..Len(t) : IsSequence(t[i])
      /\ \A i \in 1..Len(s) : t[i] = s[i]
  BY <1>0, <1>1, <1>2
<1>4. FlattenSeq(t) = FlattenSeq(s) \o t[Len(s) + 1]
  BY <1>1, <1>2, <1>3, FlattenOneMore
<1> QED
  BY <1>0, <1>1, <1>2, <1>4

\* No messages have no blocks.
LEMMA BlocksOfNone == Blocks(<<>>) = <<>>
<1> DEFINE t == [i \in DOMAIN <<>> |-> <<>>[i].blocks]
<1>1. Blocks(<<>>) = FlattenSeq(t)
  BY DEF Blocks
<1>2. t = <<>>
  OBVIOUS
<1> HIDE DEF t
<1> QED
  BY <1>1, <1>2, NothingFlattened

\* One message has its own.
LEMMA BlocksOfOne ==
  ASSUME NEW m, IsMessage(m) PROVE Blocks(<<m>>) = m.blocks
<1> DEFINE b == <<m>>
           e == <<>>
<1>1. IsSequence(b) /\ Len(b) = 1 /\ b[1] = m /\ IsSequence(e) /\ Len(e) = 0 /\ Blocks(e) = <<>>
  BY ShortSequences, BlocksOfNone
<1> HIDE DEF b, e
<1>2. AreMessages(b) /\ AreMessages(e)
  BY <1>1 DEF AreMessages
<1>3. Len(b) = Len(e) + 1 /\ (\A i \in 1..Len(e) : b[i] = e[i]) /\ Len(e) + 1 = 1
  BY <1>1
<1>4. Blocks(b) = Blocks(e) \o b[Len(e) + 1].blocks
  BY <1>2, <1>3, BlocksAdded
<1>5. Blocks(b) = <<>> \o m.blocks /\ IsSequence(m.blocks)
  BY <1>1, <1>3, <1>4 DEF IsMessage
<1>6. <<>> \o m.blocks = m.blocks
  BY <1>5, EmptyConcatenation
<1> QED
  BY <1>5, <1>6 DEF b

\* The first messages of some.
LEMMA FirstMessages ==
  ASSUME NEW msgs, AreMessages(msgs), NEW k \in 0..Len(msgs)
  PROVE  /\ AreMessages(SubSeq(msgs, 1, k)) /\ Len(SubSeq(msgs, 1, k)) = k
         /\ \A i \in 1..k : SubSeq(msgs, 1, k)[i] = msgs[i]
<1> DEFINE s == SubSeq(msgs, 1, k)
<1>0. Len(msgs) \in Nat /\ k \in Nat
  BY SequenceLen DEF AreMessages
<1>1. IsSequence(s) /\ Len(s) = (IF 1 <= k THEN k - 1 + 1 ELSE 0) /\ \A i \in 1..(k - 1 + 1) : s[i] = msgs[1 + i - 1]
  BY <1>0, SubSequence
<1> HIDE DEF s
<1>2. Len(s) = k
  BY <1>0, <1>1
<1>3. \A i \in 1..k : s[i] = msgs[i]
  <2> TAKE i \in 1..k
  <2>1. i \in 1..(k - 1 + 1) /\ 1 + i - 1 = i
    BY <1>0
  <2> QED
    BY <1>1, <2>1
<1>4. \A i \in 1..k : i \in 1..Len(msgs)
  BY <1>0
<1>5. AreMessages(s)
  BY <1>1, <1>2, <1>3, <1>4 DEF AreMessages
<1> QED
  BY <1>2, <1>3, <1>5 DEF s

\* Merging puts a message's blocks behind the others.
LEMMA BlocksMerged ==
  ASSUME NEW out, AreMessages(out), NEW m, IsMessage(m)
  PROVE  Blocks(Merged(out, m)) = Blocks(out) \o m.blocks
<1> DEFINE r == Merged(out, m)
           k == Len(out)
<1>0. IsSequence(out) /\ k \in Nat /\ AreMessages(r) /\ IsSequence(m.blocks)
      /\ \A i \in 1..k : IsMessage(out[i])
  BY SequenceLen, MergedAreMessages DEF AreMessages, IsMessage
<1>1. CASE out = <<>>
  <2>1. r = <<m>>
    BY <1>0, <1>1, MergedIs
  <2>2. Blocks(r) = m.blocks
    BY <2>1, BlocksOfOne
  <2>3. Blocks(out) = <<>>
    BY <1>1, BlocksOfNone
  <2>4. <<>> \o m.blocks = m.blocks
    BY <1>0, EmptyConcatenation
  <2> QED
    BY <2>2, <2>3, <2>4
<1>2. CASE out # <<>> /\ out[k].role # m.role
  <2>1. /\ Len(r) = k + 1 /\ \A i \in 1..k : r[i] = out[i]
        /\ r[k + 1] = m
    BY <1>0, <1>2, MergedIs
  <2> HIDE DEF r
  <2>2. Blocks(r) = Blocks(out) \o r[k + 1].blocks
    BY <1>0, <2>1, BlocksAdded
  <2> QED
    BY <2>1, <2>2 DEF r
<1>3. CASE out # <<>> /\ out[k].role = m.role
  <2> DEFINE c == Message(m.role, out[k].blocks \o m.blocks)
             front == SubSeq(out, 1, k - 1)
             l == out[k].blocks
  <2>0. k # 0
    BY <1>0, <1>3, NoElements, SequenceDomain DEF ToSet
  <2>1. /\ Len(r) = k /\ \A i \in 1..(k - 1) : r[i] = out[i]
        /\ r[k] = c
    BY <1>0, <1>3, MergedIs
  <2>2. k - 1 \in 0..k /\ k \in 1..k
    BY <1>0, <2>0
  <2>3. AreMessages(front) /\ Len(front) = k - 1 /\ \A i \in 1..(k - 1) : front[i] = out[i]
    BY <2>2, FirstMessages
  <2>4. c.blocks = l \o m.blocks
    BY MessageFields
  <2> HIDE DEF r, c, front
  <2>5. Len(front) + 1 = k /\ Len(out) = Len(front) + 1 /\ Len(r) = Len(front) + 1
        /\ (\A i \in 1..Len(front) : out[i] = front[i]) /\ (\A i \in 1..Len(front) : r[i] = front[i])
    BY <1>0, <2>1, <2>3
  <2>6. Blocks(out) = Blocks(front) \o out[Len(front) + 1].blocks
    BY <2>3, <2>5, BlocksAdded
  <2>7. AreMessages(r)
    BY <1>0 DEF r
  <2>8. Blocks(r) = Blocks(front) \o r[Len(front) + 1].blocks
    BY <2>3, <2>5, <2>7, BlocksAdded
  <2> DEFINE p == Blocks(front)
  <2>9. IsSequence(p) /\ IsSequence(l) /\ IsSequence(m.blocks)
    BY <1>0, <2>2, <2>3, BlocksAreSequence DEF IsMessage
  <2>10. Blocks(out) = p \o l /\ Blocks(r) = p \o (l \o m.blocks)
    BY <2>1, <2>4, <2>5, <2>6, <2>8
  <2> DEFINE z == m.blocks
  <2> HIDE DEF p, l, z
  <2>11. IsSequence(p) /\ IsSequence(l) /\ IsSequence(z)
    BY <2>9 DEF z
  <2>12. (p \o l) \o z = p \o (l \o z)
    BY ONLY <2>11, ConcatenationAssociates
  <2> QED
    BY <2>10, <2>12 DEF r, z
<1> QED
  BY <1>1, <1>2, <1>3

\* The merge moves no block.
LEMMA MergingKeepsBlocks ==
  ASSUME NEW msgs, AreMessages(msgs) PROVE Blocks(MergeSameRole(msgs)) = Blocks(msgs)
<1>0. IsSequence(msgs) /\ Len(msgs) \in Nat
  BY SequenceLen DEF AreMessages
<1>1. PICK f : Merges(f, msgs) /\ MergeSameRole(msgs) = f[Len(msgs)]
  BY <1>0, MergeIs
<1>2. PICK t : /\ Blocks(msgs) = FlattenSeq(t) /\ IsSequence(t) /\ Len(t) = Len(msgs)
               /\ \A i \in 1..Len(msgs) : t[i] = msgs[i].blocks /\ IsSequence(t[i])
  BY BlocksAre
<1>3. PICK g : Flattens(g, t) /\ FlattenSeq(t) = g[Len(t)]
  BY <1>2, FlattenIs
<1> DEFINE S == {n \in Nat : n <= Len(msgs) => AreMessages(f[n]) /\ Blocks(f[n]) = g[n]}
<1>4. 0 \in S
  <2>1. f[0] = <<>> /\ g[0] = <<>> /\ AreMessages(<<>>)
    BY <1>1, <1>3, ShortSequences DEF Merges, Flattens, AreMessages
  <2> QED
    BY <2>1, BlocksOfNone
<1>5. ASSUME NEW n \in Nat, n \in S PROVE n + 1 \in S
  <2> SUFFICES ASSUME n + 1 <= Len(msgs) PROVE AreMessages(f[n + 1]) /\ Blocks(f[n + 1]) = g[n + 1]
    OBVIOUS
  <2>1. n + 1 \in 1..Len(msgs) /\ (n + 1) - 1 = n /\ AreMessages(f[n]) /\ Blocks(f[n]) = g[n]
    BY <1>0, <1>5
  <2>2. f[n + 1] = Merged(f[n], msgs[n + 1]) /\ IsMessage(msgs[n + 1])
    BY <1>1, <2>1 DEF Merges, AreMessages
  <2>3. g[n + 1] = g[n] \o msgs[n + 1].blocks
    BY <1>2, <1>3, <2>1 DEF Flattens
  <2> QED
    BY <2>1, <2>2, <2>3, MergedAreMessages, BlocksMerged
<1> HIDE DEF S
<1>6. Len(msgs) \in S
  BY <1>0, <1>4, <1>5, Induction
<1> QED
  BY <1>0, <1>1, <1>2, <1>3, <1>6 DEF S

\* Messages in a row.
LEMMA BlocksConcatenate ==
  ASSUME NEW a, NEW b, AreMessages(a), AreMessages(b) PROVE Blocks(a \o b) = Blocks(a) \o Blocks(b)
<1>0. IsSequence(a) /\ IsSequence(b) /\ Len(a) \in Nat /\ Len(b) \in Nat
  BY SequenceLen DEF AreMessages
<1> DEFINE c == a \o b
<1>1. /\ IsSequence(c) /\ Len(c) = Len(a) + Len(b)
      /\ \A i \in 1..Len(a) : c[i] = a[i]
      /\ \A i \in 1..Len(b) : c[Len(a) + i] = b[i]
  BY <1>0, Concatenation
<1>2. AreMessages(c)
  BY MessagesConcatenate
<1> HIDE DEF c
<1> DEFINE C(n) == SubSeq(c, 1, Len(a) + n)
           B(n) == SubSeq(b, 1, n)
           S == {n \in Nat : n <= Len(b) => Blocks(C(n)) = Blocks(a) \o Blocks(B(n))}
<1>3. \A n \in Nat : n <= Len(b) =>
        /\ AreMessages(C(n)) /\ Len(C(n)) = Len(a) + n /\ \A i \in 1..(Len(a) + n) : C(n)[i] = c[i]
        /\ AreMessages(B(n)) /\ Len(B(n)) = n /\ \A i \in 1..n : B(n)[i] = b[i]
  <2> TAKE n \in Nat
  <2> HAVE n <= Len(b)
  <2>1. Len(a) + n \in 0..Len(c) /\ n \in 0..Len(b)
    BY <1>0, <1>1
  <2> QED
    BY <1>2, <2>1, FirstMessages
<1>4. 0 \in S
  <2>1. AreMessages(C(0)) /\ Len(C(0)) = Len(a) /\ \A i \in 1..Len(a) : C(0)[i] = a[i]
    <3>1. 0 \in Nat /\ 0 <= Len(b) /\ Len(a) + 0 = Len(a)
      BY <1>0
    <3> QED
      BY <1>1, <1>3, <3>1
  <2>2. AreMessages(B(0)) /\ Len(B(0)) = 0
    <3>1. 0 \in Nat /\ 0 <= Len(b)
      BY <1>0
    <3> QED
      BY <1>3, <3>1
  <2> DEFINE x == C(0)
             y == B(0)
  <2> HIDE DEF x, y
  <2>3. x = a
    <3>1. IsSequence(x) /\ Len(x) = Len(a) /\ \A i \in 1..Len(x) : x[i] = a[i]
      BY <2>1 DEF x, AreMessages
    <3> QED
      BY <1>0, <3>1, SameSequence
  <2>4. y = <<>>
    <3>1. IsSequence(y) /\ Len(y) = 0
      BY <2>2 DEF y, AreMessages
    <3> QED
      BY <3>1 DEF IsSequence
  <2>5. Blocks(a) \o <<>> = Blocks(a)
    <3>1. IsSequence(Blocks(a))
      BY BlocksAreSequence
    <3> QED
      BY <3>1, EmptyConcatenation
  <2>6. Blocks(x) = Blocks(a) \o Blocks(y)
    BY <2>3, <2>4, <2>5, BlocksOfNone
  <2> QED
    BY <2>6 DEF x, y
<1>5. ASSUME NEW n \in Nat, n \in S PROVE n + 1 \in S
  <2> SUFFICES ASSUME n + 1 <= Len(b) PROVE Blocks(C(n + 1)) = Blocks(a) \o Blocks(B(n + 1))
    OBVIOUS
  <2>0. n <= Len(b) /\ n + 1 \in Nat /\ n + 1 <= Len(b) /\ n + 1 \in 1..Len(b)
    BY <1>0
  <2>1. Blocks(C(n)) = Blocks(a) \o Blocks(B(n))
    BY <1>5, <2>0
  <2> DEFINE x == C(n)
             y == B(n)
             v == C(n + 1)
             w == B(n + 1)
             z == b[n + 1].blocks
  <2>2. /\ AreMessages(x) /\ Len(x) = Len(a) + n /\ \A i \in 1..(Len(a) + n) : x[i] = c[i]
        /\ AreMessages(y) /\ Len(y) = n /\ \A i \in 1..n : y[i] = b[i]
    BY <1>3, <2>0
  <2>3. /\ AreMessages(v) /\ Len(v) = Len(a) + (n + 1) /\ \A i \in 1..(Len(a) + (n + 1)) : v[i] = c[i]
        /\ AreMessages(w) /\ Len(w) = n + 1 /\ \A i \in 1..(n + 1) : w[i] = b[i]
    BY <1>3, <2>0
  <2> HIDE DEF x, y, v, w
  <2>4. Len(v) = Len(x) + 1 /\ (\A i \in 1..Len(x) : v[i] = x[i]) /\ v[Len(x) + 1] = b[n + 1]
    <3>1. Len(x) + 1 = Len(a) + (n + 1) /\ \A i \in 1..Len(x) : i \in 1..(Len(a) + n) /\ i \in 1..(Len(a) + (n + 1))
      BY <1>0, <2>2
    <3>2. v[Len(a) + (n + 1)] = c[Len(a) + (n + 1)]
      <4>1. Len(a) + (n + 1) \in 1..(Len(a) + (n + 1))
        BY <1>0
      <4> QED
        BY <2>3, <4>1
    <3>3. c[Len(a) + (n + 1)] = b[n + 1]
      BY <1>1, <2>0
    <3> QED
      BY <2>2, <2>3, <3>1, <3>2, <3>3
  <2>5. Len(w) = Len(y) + 1 /\ (\A i \in 1..Len(y) : w[i] = y[i]) /\ w[Len(y) + 1] = b[n + 1]
    <3>1. \A i \in 1..Len(y) : i \in 1..n /\ i \in 1..(n + 1)
      BY <2>2
    <3>2. w[n + 1] = b[n + 1]
      <4>1. n + 1 \in 1..(n + 1)
        BY <2>0
      <4> QED
        BY <2>3, <4>1
    <3> QED
      BY <2>2, <2>3, <3>1, <3>2
  <2>6. Blocks(v) = Blocks(x) \o v[Len(x) + 1].blocks
    BY <2>2, <2>3, <2>4, BlocksAdded
  <2>7. Blocks(w) = Blocks(y) \o w[Len(y) + 1].blocks
    BY <2>2, <2>3, <2>5, BlocksAdded
  <2> DEFINE p == Blocks(a)
             q == Blocks(y)
  <2>8. IsSequence(p) /\ IsSequence(q) /\ IsSequence(z)
    <3>1. IsMessage(b[n + 1])
      BY <2>0 DEF AreMessages
    <3> QED
      BY <2>2, <3>1, BlocksAreSequence DEF IsMessage
  <2>9. Blocks(x) = p \o q
    BY <2>1 DEF x, y
  <2>10. Blocks(v) = (p \o q) \o z /\ Blocks(w) = q \o z
    BY <2>4, <2>5, <2>6, <2>7, <2>9
  <2> HIDE DEF p, q, z
  <2>11. (p \o q) \o z = p \o (q \o z)
    BY ONLY <2>8, ConcatenationAssociates
  <2>12. Blocks(v) = p \o Blocks(w)
    BY <2>10, <2>11
  <2> QED
    BY <2>12 DEF v, w, p
<1> HIDE DEF S
<1>6. Len(b) \in S
  BY <1>0, <1>4, <1>5, Induction
<1>7. Blocks(C(Len(b))) = Blocks(a) \o Blocks(B(Len(b)))
  BY <1>0, <1>6 DEF S
<1> DEFINE x == C(Len(b))
           y == B(Len(b))
<1>8. /\ AreMessages(x) /\ Len(x) = Len(a) + Len(b) /\ \A i \in 1..(Len(a) + Len(b)) : x[i] = c[i]
      /\ AreMessages(y) /\ Len(y) = Len(b) /\ \A i \in 1..Len(b) : y[i] = b[i]
  BY <1>0, <1>3
<1> HIDE DEF x, y, C, B
<1>9. x = c
  <2>1. IsSequence(x) /\ Len(x) = Len(c) /\ \A i \in 1..Len(x) : x[i] = c[i]
    BY <1>1, <1>8 DEF AreMessages
  <2> QED
    BY <1>1, <2>1, SameSequence
<1>10. y = b
  <2>1. IsSequence(y) /\ Len(y) = Len(b) /\ \A i \in 1..Len(y) : y[i] = b[i]
    BY <1>8 DEF AreMessages
  <2> QED
    BY <1>0, <2>1, SameSequence
<1>11. Blocks(x) = Blocks(a) \o Blocks(y)
  BY <1>7 DEF x, y
<1> QED
  BY <1>9, <1>10, <1>11 DEF c

---------------------------------------------------------------------------
(* What the repair keeps. *)

OthersOf(blocks) == Except(Except(blocks, "tool_use"), "tool_result")

\* The blocks b that the repair makes of the blocks a, when it has these results to choose from.
KeptOf(a, b, results) ==
  /\ OthersOf(b) = OthersOf(a)
  /\ OfKind(b, "tool_use") = WithIds(OfKind(a, "tool_use"), IdsOf(results))
  /\ \A r \in ToSet(OfKind(b, "tool_result")) : r.id \in IdsOf(results) /\ r = ResultFor(results, r.id)

\* Nothing can be chosen of nothing.
LEMMA FiltersOfNone ==
  /\ \A kind : OfKind(<<>>, kind) = <<>> /\ Except(<<>>, kind) = <<>>
  /\ \A ids : WithIds(<<>>, ids) = <<>>
<1>1. IsSequence(<<>>) /\ ToSet(<<>>) = {}
  BY ShortSequences, NoElements
<1>2. ASSUME NEW T PROVE Select(<<>>, T) = <<>>
  BY <1>1, SelectNone
<1> QED
  BY <1>2 DEF OfKind, Except, WithIds

\* Of no blocks nothing is kept.
LEMMA NothingKept == ASSUME NEW results PROVE KeptOf(<<>>, <<>>, results)
<1>1. ToSet(<<>>) = {}
  BY ShortSequences, NoElements
<1> QED
  BY <1>1, FiltersOfNone DEF KeptOf, OthersOf

\* What is neither a call nor a result, of two rows.
LEMMA OthersSplit ==
  ASSUME NEW x, NEW y, IsSequence(x), IsSequence(y) PROVE OthersOf(x \o y) = OthersOf(x) \o OthersOf(y)
<1>1. Except(x \o y, "tool_use") = Except(x, "tool_use") \o Except(y, "tool_use")
  BY KindsSplit
<1>2. IsSequence(Except(x, "tool_use")) /\ IsSequence(Except(y, "tool_use"))
  BY Filters
<1> DEFINE p == Except(x, "tool_use")
           q == Except(y, "tool_use")
<1> HIDE DEF p, q
<1>3. IsSequence(p) /\ IsSequence(q)
  BY <1>2 DEF p, q
<1>4. Except(p \o q, "tool_result") = Except(p, "tool_result") \o Except(q, "tool_result")
  BY <1>3, KindsSplit
<1> QED
  BY <1>1, <1>4 DEF OthersOf, p, q

\* What is kept of two rows of blocks is kept of both in a row.
LEMMA KeptJoins ==
  ASSUME NEW a, NEW b, NEW c, NEW d, IsSequence(a), IsSequence(b), IsSequence(c), IsSequence(d),
         NEW results, KeptOf(a, b, results), KeptOf(c, d, results)
  PROVE  KeptOf(a \o c, b \o d, results)
<1>1. OthersOf(b \o d) = OthersOf(b) \o OthersOf(d) /\ OthersOf(a \o c) = OthersOf(a) \o OthersOf(c)
  BY OthersSplit
<1>2. OthersOf(b \o d) = OthersOf(a \o c)
  BY <1>1 DEF KeptOf
<1>3. OfKind(b \o d, "tool_use") = WithIds(OfKind(a \o c, "tool_use"), IdsOf(results))
  <2> DEFINE p == OfKind(a, "tool_use")
             q == OfKind(c, "tool_use")
             ids == IdsOf(results)
  <2>1. OfKind(b \o d, "tool_use") = OfKind(b, "tool_use") \o OfKind(d, "tool_use")
    BY KindsSplit
  <2>2. OfKind(a \o c, "tool_use") = p \o q
    BY KindsSplit
  <2>3. IsSequence(p) /\ IsSequence(q)
    BY Filters
  <2>4. OfKind(b, "tool_use") = WithIds(p, ids) /\ OfKind(d, "tool_use") = WithIds(q, ids)
    BY DEF KeptOf
  <2> HIDE DEF p, q, ids
  <2>5. WithIds(p \o q, ids) = WithIds(p, ids) \o WithIds(q, ids)
    BY <2>3, IdsSplit
  <2> QED
    BY <2>1, <2>2, <2>4, <2>5 DEF ids
<1>4. ToSet(OfKind(b \o d, "tool_result")) = ToSet(OfKind(b, "tool_result")) \cup ToSet(OfKind(d, "tool_result"))
  <2>1. OfKind(b \o d, "tool_result") = OfKind(b, "tool_result") \o OfKind(d, "tool_result")
    BY KindsSplit
  <2>2. IsSequence(OfKind(b, "tool_result")) /\ IsSequence(OfKind(d, "tool_result"))
    BY Filters
  <2> QED
    BY <2>1, <2>2, ElementsOfConcatenation
<1> QED
  BY <1>2, <1>3, <1>4 DEF KeptOf

\* Contents, calls or results alone: what the filters leave of them.
LEMMA OthersAlone ==
  ASSUME NEW s, IsSequence(s)
  PROVE  /\ Lacks(s, "tool_use") /\ Lacks(s, "tool_result") => OthersOf(s) = s
         /\ Every(s, "tool_use") \/ Every(s, "tool_result") => OthersOf(s) = <<>>
<1>1. ASSUME Lacks(s, "tool_use"), Lacks(s, "tool_result") PROVE OthersOf(s) = s
  <2>1. Except(s, "tool_use") = s /\ Except(s, "tool_result") = s
    BY <1>1, NoneOfKind
  <2> QED
    BY <2>1 DEF OthersOf
<1>2. ASSUME Every(s, "tool_use") PROVE OthersOf(s) = <<>>
  <2>1. Except(s, "tool_use") = <<>>
    BY <1>2, NoneOfKind
  <2> QED
    BY <2>1, FiltersOfNone DEF OthersOf
<1>3. ASSUME Every(s, "tool_result") PROVE OthersOf(s) = <<>>
  <2>1. Lacks(s, "tool_use")
    BY <1>3 DEF Every, Lacks
  <2>2. Except(s, "tool_use") = s /\ Except(s, "tool_result") = <<>>
    BY <1>3, <2>1, NoneOfKind
  <2> QED
    BY <2>2 DEF OthersOf
<1> QED
  BY <1>1, <1>2, <1>3

\* Two elements, one behind the other.
LEMMA TwoInARow == \A x, y : <<x, y>> = <<x>> \o <<y>>
<1> TAKE x, y
<1>1. IsSequence(<<x>>)
  BY ShortSequences
<1>2. Append(<<x>>, y) = <<x>> \o <<y>>
  BY <1>1, AppendIs
<1> DEFINE p == <<x>>
           s == Append(p, y)
           r == <<x, y>>
<1>3. IsSequence(p) /\ Len(p) = 1 /\ p[1] = x
  BY ShortSequences
<1>4. IsSequence(r) /\ Len(r) = 2 /\ r[1] = x /\ r[2] = y
  <2>1. r \in Seq({x, y})
    OBVIOUS
  <2> QED
    BY <2>1 DEF IsSequence
<1> HIDE DEF p, r
<1>5. /\ IsSequence(s) /\ Len(s) = Len(p) + 1
      /\ (\A i \in 1..Len(p) : s[i] = p[i]) /\ s[Len(p) + 1] = y
  BY ONLY <1>3, Appended
<1> HIDE DEF s
<1>6. IsSequence(s) /\ Len(s) = Len(r) /\ \A i \in 1..Len(r) : s[i] = r[i]
  BY <1>3, <1>4, <1>5
<1>7. s = r
  BY <1>4, <1>6, SameSequence
<1> QED
  BY <1>2, <1>7 DEF s, p, r

\* The answered calls of an assistant message, and their results.
LEMMA AssistantKept ==
  ASSUME NEW m, IsMessage(m), m.role = "assistant",
         NEW results, IsSequence(results), Every(results, "tool_result")
  PROVE  KeptOf(m.blocks, Blocks(PairAssistant(m, results)), results)
<1> DEFINE calls  == OfKind(m.blocks, "tool_use")
           others == Except(m.blocks, "tool_use")
           ids    == IdsOf(results)
           kept   == WithIds(calls, ids)
           answer == [i \in DOMAIN kept |-> ResultFor(results, kept[i].id)]
           a      == Message(m.role, others \o kept)
           u      == Message("user", answer)
           p      == PairAssistant(m, results)
<1>0. /\ calls = <<>> => p = <<m>>
      /\ calls # <<>> /\ kept = <<>> /\ others = <<>> => p = <<>>
      /\ calls # <<>> /\ kept = <<>> /\ others # <<>> => p = <<Message(m.role, others)>>
      /\ calls # <<>> /\ kept # <<>> => p = <<a, u>>
  <2> DEFINE k == kept
             x == calls
  <2>1. calls = <<>> => kept = <<>>
    BY FiltersOfNone
  <2> HIDE DEF k, x
  <2> QED
    BY <2>1 DEF PairAssistant
<1>1. IsSequence(m.blocks) /\ Lacks(m.blocks, "tool_result") /\ m = Message(m.role, m.blocks)
  BY DEF IsMessage
<1>2. /\ IsSequence(calls) /\ ToSet(calls) = {b \in ToSet(m.blocks) : b.kind = "tool_use"}
      /\ IsSequence(others) /\ ToSet(others) = {b \in ToSet(m.blocks) : b.kind # "tool_use"}
  BY <1>1, Filters
<1>3. IsSequence(kept) /\ ToSet(kept) = {b \in ToSet(calls) : b.id \in ids}
  BY <1>2, Filters
<1>4. /\ Lacks(others, "tool_use") /\ Lacks(others, "tool_result") /\ Every(kept, "tool_use")
      /\ Lacks(kept, "tool_result") /\ Lacks(calls, "tool_result")
  BY <1>1, <1>2, <1>3 DEF Lacks, Every
<1>5. OthersOf(m.blocks) = others
  <2> DEFINE o == others
  <2> HIDE DEF o
  <2>1. IsSequence(o) /\ Lacks(o, "tool_result")
    BY <1>2, <1>4 DEF o
  <2>2. Except(o, "tool_result") = o
    BY <2>1, NoneOfKind
  <2> QED
    BY <2>2 DEF OthersOf, o
<1>6. CASE calls = <<>>
  <2>1. Blocks(<<m>>) = m.blocks
    BY BlocksOfOne
  <2>2. WithIds(<<>>, ids) = <<>> /\ OfKind(m.blocks, "tool_result") = <<>>
    BY <1>1, FiltersOfNone, NoneOfKind
  <2>3. ToSet(<<>>) = {}
    BY ShortSequences, NoElements
  <2> QED
    BY <1>0, <1>6, <2>1, <2>2, <2>3 DEF KeptOf
<1>7. CASE calls # <<>> /\ kept = <<>>
  <2> DEFINE b == Blocks(p)
  <2>1. b = others
    <3>1. CASE others = <<>>
      BY <1>0, <1>7, <3>1, BlocksOfNone
    <3>2. CASE others # <<>>
      <4> DEFINE x == Message(m.role, others)
      <4>0. p = <<x>>
        BY <1>0, <1>7, <3>2
      <4> HIDE DEF others
      <4>1. x.role = "assistant" /\ x.blocks = others /\ x = Message(x.role, x.blocks)
        BY MessageFields
      <4> HIDE DEF x
      <4>2. IsMessage(x)
        BY <1>2, <1>4, <4>1 DEF IsMessage
      <4> QED
        BY <4>0, <4>1, <4>2, BlocksOfOne
    <3> QED
      BY <3>1, <3>2
  <2>2. /\ OfKind(others, "tool_use") = <<>> /\ OfKind(others, "tool_result") = <<>>
        /\ OthersOf(others) = others
    BY <1>2, <1>4, NoneOfKind, OthersAlone
  <2>3. ToSet(<<>>) = {}
    BY ShortSequences, NoElements
  <2> HIDE DEF b
  <2>4. OfKind(b, "tool_use") = kept
    BY <1>7, <2>1, <2>2
  <2>5. OthersOf(b) = OthersOf(m.blocks)
    BY <1>5, <2>1, <2>2
  <2>6. ToSet(OfKind(b, "tool_result")) = {}
    BY <2>1, <2>2, <2>3
  <2> QED
    BY <2>4, <2>5, <2>6 DEF KeptOf, b
<1>8. CASE calls # <<>> /\ kept # <<>>
  <2> DEFINE both == others \o kept
             b == Blocks(p)
  <2>1. a.role = "assistant" /\ a.blocks = both /\ a = Message(a.role, a.blocks)
    BY MessageFields
  <2>2. u.role = "user" /\ u.blocks = answer /\ u = Message(u.role, u.blocks)
    BY MessageFields
  <2>3. p = <<a, u>>
    BY <1>0, <1>8
  <2>4. \A i \in DOMAIN kept : kept[i].id \in ids
    BY <1>3 DEF ToSet
  <2>5. \A i \in DOMAIN kept : /\ ResultFor(results, kept[i].id) \in ToSet(results)
                               /\ ResultFor(results, kept[i].id).id = kept[i].id
    BY <2>4, ResultAnswers
  <2>6. DOMAIN answer = DOMAIN kept /\ answer = [i \in DOMAIN answer |-> answer[i]]
        /\ \A i \in DOMAIN kept : answer[i] = ResultFor(results, kept[i].id)
    OBVIOUS
  <2>7. DOMAIN kept = 1..Len(kept) /\ Len(kept) \in Nat
    BY <1>3, SequenceDomain
  <2> HIDE DEF answer, kept, a, u
  <2>8. IsSequence(answer) /\ Len(answer) = Len(kept)
    BY <2>6, <2>7, TableIsSequence
  <2>9. \A r \in ToSet(answer) : r \in ToSet(results) /\ r.id \in ids /\ r = ResultFor(results, r.id)
    <3>1. \A i \in DOMAIN answer : /\ answer[i] \in ToSet(results) /\ answer[i].id \in ids
                                   /\ answer[i] = ResultFor(results, answer[i].id)
      BY <2>4, <2>5, <2>6
    <3> QED
      BY <3>1 DEF ToSet
  <2>10. Every(answer, "tool_result") /\ Lacks(answer, "tool_use")
    BY <2>9 DEF Every, Lacks
  <2> HIDE DEF others, p, both
  <2>11. IsSequence(both) /\ ToSet(both) = ToSet(others) \cup ToSet(kept)
    BY <1>2, <1>3, Concatenation, ElementsOfConcatenation DEF both
  <2>12. IsMessage(a)
    BY <1>4, <2>1, <2>11 DEF IsMessage, Lacks
  <2>13. IsMessage(u)
    BY <2>2, <2>8, <2>10 DEF IsMessage
  <2>14. b = both \o answer
    <3> DEFINE x == <<a>>
               y == <<u>>
    <3>1. p = x \o y
      BY <2>3, TwoInARow
    <3>2. AreMessages(x) /\ AreMessages(y)
      <4>1. IsSequence(x) /\ Len(x) = 1 /\ x[1] = a /\ IsSequence(y) /\ Len(y) = 1 /\ y[1] = u
        BY ShortSequences
      <4> HIDE DEF x, y
      <4> QED
        BY <2>12, <2>13, <4>1 DEF AreMessages
    <3>3. Blocks(x) = a.blocks /\ Blocks(y) = u.blocks
      BY <2>12, <2>13, BlocksOfOne
    <3> HIDE DEF x, y
    <3>4. Blocks(x \o y) = Blocks(x) \o Blocks(y)
      BY <3>2, BlocksConcatenate
    <3> QED
      BY <2>1, <2>2, <3>1, <3>3, <3>4
  <2> HIDE DEF b
  <2>15. OthersOf(b) = OthersOf(m.blocks)
    <3>1. OthersOf(b) = OthersOf(both) \o OthersOf(answer) /\ OthersOf(both) = OthersOf(others) \o OthersOf(kept)
      BY <1>2, <1>3, <2>8, <2>11, <2>14, OthersSplit DEF both
    <3>2. OthersOf(others) = others /\ OthersOf(kept) = <<>> /\ OthersOf(answer) = <<>>
      BY <1>2, <1>3, <1>4, <2>8, <2>10, OthersAlone
    <3>3. others \o <<>> = others
      BY <1>2, EmptyConcatenation
    <3> QED
      BY <1>5, <3>1, <3>2, <3>3
  <2>16. OfKind(b, "tool_use") = kept
    <3>1. /\ OfKind(b, "tool_use") = OfKind(both, "tool_use") \o OfKind(answer, "tool_use")
          /\ OfKind(both, "tool_use") = OfKind(others, "tool_use") \o OfKind(kept, "tool_use")
      BY <1>2, <1>3, <2>8, <2>11, <2>14, KindsSplit DEF both
    <3>2. OfKind(others, "tool_use") = <<>> /\ OfKind(kept, "tool_use") = kept /\ OfKind(answer, "tool_use") = <<>>
      BY <1>2, <1>3, <1>4, <2>8, <2>10, NoneOfKind
    <3>3. <<>> \o kept = kept /\ kept \o <<>> = kept
      BY <1>3, EmptyConcatenation
    <3> QED
      BY <3>1, <3>2, <3>3
  <2>17. OfKind(b, "tool_result") = answer
    <3>1. /\ OfKind(b, "tool_result") = OfKind(both, "tool_result") \o OfKind(answer, "tool_result")
      BY <2>8, <2>11, <2>14, KindsSplit
    <3>2. Lacks(both, "tool_result")
      BY <1>4, <2>11 DEF Lacks
    <3>3. OfKind(both, "tool_result") = <<>> /\ OfKind(answer, "tool_result") = answer
      BY <2>8, <2>10, <2>11, <3>2, NoneOfKind
    <3>4. <<>> \o answer = answer
      BY <2>8, EmptyConcatenation
    <3> QED
      BY <3>1, <3>3, <3>4
  <2> QED
    BY <2>9, <2>15, <2>16, <2>17 DEF KeptOf, kept, b, p
<1> QED
  BY <1>6, <1>7, <1>8

\* What is left of a user message.
LEMMA UserKept ==
  ASSUME NEW m, IsMessage(m), m.role = "user", NEW results, IsSequence(results)
  PROVE  KeptOf(m.blocks, Blocks(StripToolResults(m)), results)
<1> DEFINE kept == Except(m.blocks, "tool_result")
           x == Message(m.role, kept)
           b == Blocks(StripToolResults(m))
<1>1. IsSequence(m.blocks) /\ Lacks(m.blocks, "tool_use")
  BY DEF IsMessage
<1>2. IsSequence(kept) /\ ToSet(kept) = {c \in ToSet(m.blocks) : c.kind # "tool_result"}
  BY <1>1, Filters
<1>3. Lacks(kept, "tool_use") /\ Lacks(kept, "tool_result")
  BY <1>1, <1>2 DEF Lacks
<1>4. b = kept
  <2>1. CASE kept = <<>>
    BY <2>1, BlocksOfNone DEF StripToolResults
  <2>2. CASE kept # <<>>
    <3>1. StripToolResults(m) = <<x>>
      BY <2>2 DEF StripToolResults
    <3>2. x.role = "user" /\ x.blocks = kept /\ x = Message(x.role, x.blocks)
      BY MessageFields
    <3> HIDE DEF x, kept
    <3>3. IsMessage(x)
      BY <1>2, <1>3, <3>2 DEF IsMessage
    <3> QED
      BY <3>1, <3>2, <3>3, BlocksOfOne
  <2> QED
    BY <2>1, <2>2
<1>5. OthersOf(m.blocks) = kept
  <2>1. Except(m.blocks, "tool_use") = m.blocks
    BY <1>1, NoneOfKind
  <2> QED
    BY <2>1 DEF OthersOf
<1>6. OthersOf(kept) = kept /\ OfKind(kept, "tool_use") = <<>> /\ OfKind(kept, "tool_result") = <<>>
  BY <1>2, <1>3, OthersAlone, NoneOfKind
<1>7. OfKind(m.blocks, "tool_use") = <<>> /\ WithIds(<<>>, IdsOf(results)) = <<>>
  BY <1>1, NoneOfKind, FiltersOfNone
<1>8. ToSet(<<>>) = {}
  BY ShortSequences, NoElements
<1> HIDE DEF kept, b
<1>9. OthersOf(b) = OthersOf(m.blocks) /\ ToSet(OfKind(b, "tool_result")) = {}
  BY <1>4, <1>5, <1>6, <1>8
<1>10. OfKind(b, "tool_use") = WithIds(OfKind(m.blocks, "tool_use"), IdsOf(results))
  BY <1>4, <1>6, <1>7
<1> QED
  BY <1>9, <1>10 DEF KeptOf, b

\* The repair's second pass: the calls of all messages get their results.
LEMMA CallsKept ==
  ASSUME NEW msgs, AreMessages(msgs)
  PROVE  KeptOf(Blocks(msgs), Blocks(PairToolCalls(msgs)), Results(msgs))
<1> DEFINE results == Results(msgs)
           Piece(m) == IF m.role = "assistant" THEN PairAssistant(m, results) ELSE StripToolResults(m)
           t == [i \in DOMAIN msgs |-> Piece(msgs[i])]
           U == UNION {ToSet(t[i]) : i \in DOMAIN t}
<1>0. IsSequence(msgs) /\ DOMAIN msgs = 1..Len(msgs) /\ Len(msgs) \in Nat
      /\ \A i \in 1..Len(msgs) : IsMessage(msgs[i]) /\ msgs[i].role \in {"user", "assistant"}
  BY SequenceDomain DEF AreMessages, IsMessage
<1>1. IsSequence(results) /\ Every(results, "tool_result")
  <2>1. IsSequence(Blocks(msgs))
    BY BlocksAreSequence
  <2>2. IsSequence(results) /\ ToSet(results) = {b \in ToSet(Blocks(msgs)) : b.kind = "tool_result"}
    BY <2>1, Filters DEF Results
  <2> QED
    BY <2>2 DEF Every
<1>2. PairToolCalls(msgs) = FlattenSeq(t)
  BY DEF PairToolCalls
<1> HIDE DEF results
<1>3. \A i \in 1..Len(msgs) : AreMessages(Piece(msgs[i])) /\ KeptOf(msgs[i].blocks, Blocks(Piece(msgs[i])), results)
  <2> TAKE i \in 1..Len(msgs)
  <2>1. IsMessage(msgs[i]) /\ msgs[i].role \in {"user", "assistant"}
    BY <1>0
  <2>2. Paired(Piece(msgs[i]))
    BY <1>1, <2>1, AssistantPaired, UserPaired
  <2> QED
    BY <1>1, <2>1, <2>2, AssistantKept, UserKept DEF Paired
<1> HIDE DEF Piece
<1>4. DOMAIN t = 1..Len(msgs) /\ t = [i \in DOMAIN t |-> t[i]]
      /\ \A i \in 1..Len(msgs) : t[i] = Piece(msgs[i])
  BY <1>0
<1> HIDE DEF t
<1>5. IsSequence(t) /\ Len(t) = Len(msgs)
  BY <1>0, <1>4, TableIsSequence
<1>6. PICK s : /\ Blocks(msgs) = FlattenSeq(s) /\ IsSequence(s) /\ Len(s) = Len(msgs)
               /\ \A i \in 1..Len(msgs) : s[i] = msgs[i].blocks /\ IsSequence(s[i])
  BY BlocksAre
<1> DEFINE W == UNION {ToSet(s[i]) : i \in DOMAIN s}
           R == {r \in Seq(W) \X Seq(U) : AreMessages(r[2]) /\ KeptOf(r[1], Blocks(r[2]), results)}
<1>7. \A i \in 1..Len(s) : IsSequence(s[i]) /\ IsSequence(t[i]) /\ <<s[i], t[i]>> \in R
  <2> TAKE i \in 1..Len(s)
  <2>1. i \in 1..Len(msgs) /\ i \in DOMAIN t /\ i \in DOMAIN s
    BY <1>4, <1>6, SequenceDomain
  <2>2. AreMessages(t[i]) /\ KeptOf(s[i], Blocks(t[i]), results)
    BY <1>3, <1>4, <1>6, <2>1
  <2>3. IsSequence(s[i]) /\ IsSequence(t[i])
    BY <1>6, <2>1, <2>2 DEF AreMessages
  <2>4. ToSet(t[i]) \subseteq U /\ ToSet(s[i]) \subseteq W
    BY <2>1
  <2> HIDE DEF U, W
  <2>5. t[i] \in Seq(U) /\ s[i] \in Seq(W)
    BY <2>3, <2>4, TypedSequence
  <2> QED
    BY <2>2, <2>3, <2>5
<1> HIDE DEF U, W
<1>8. <<<<>>, <<>>>> \in R
  <2>1. AreMessages(<<>>) /\ Blocks(<<>>) = <<>> /\ KeptOf(<<>>, <<>>, results)
    BY ShortSequences, BlocksOfNone, NothingKept DEF AreMessages
  <2> DEFINE e == <<>>
  <2>2. e \in Seq(W) /\ e \in Seq(U)
    OBVIOUS
  <2>3. AreMessages(e) /\ KeptOf(e, Blocks(e), results)
    BY <2>1
  <2> HIDE DEF e
  <2>4. <<e, e>> \in R
    BY <2>2, <2>3
  <2> QED
    BY <2>4 DEF e
<1>9. ASSUME NEW a, NEW b, NEW c, NEW d, IsSequence(a), IsSequence(b), IsSequence(c), IsSequence(d),
             <<a, b>> \in R, <<c, d>> \in R
      PROVE  <<a \o c, b \o d>> \in R
  <2>1. /\ a \in Seq(W) /\ c \in Seq(W) /\ b \in Seq(U) /\ d \in Seq(U)
        /\ AreMessages(b) /\ AreMessages(d)
        /\ KeptOf(a, Blocks(b), results) /\ KeptOf(c, Blocks(d), results)
    BY <1>9
  <2>2. IsSequence(Blocks(b)) /\ IsSequence(Blocks(d))
    BY <2>1, BlocksAreSequence
  <2>3. Blocks(b \o d) = Blocks(b) \o Blocks(d)
    BY <2>1, BlocksConcatenate
  <2> DEFINE x == Blocks(b)
             y == Blocks(d)
  <2>4. IsSequence(x) /\ IsSequence(y) /\ KeptOf(a, x, results) /\ KeptOf(c, y, results)
    BY <2>1, <2>2
  <2> HIDE DEF x, y
  <2>5. KeptOf(a \o c, x \o y, results)
    BY <1>9, <2>4, KeptJoins
  <2>6. KeptOf(a \o c, Blocks(b \o d), results)
    BY <2>3, <2>5 DEF x, y
  <2>7. AreMessages(b \o d)
    BY <2>1, MessagesConcatenate
  <2>8. a \o c \in Seq(W) /\ b \o d \in Seq(U)
    BY <2>1
  <2> QED
    BY <2>6, <2>7, <2>8
<1>10. \A r \in R : KeptOf(r[1], Blocks(r[2]), results)
  OBVIOUS
<1> HIDE DEF R
<1>11. Len(s) = Len(t)
  BY <1>5, <1>6
<1>12. <<FlattenSeq(s), FlattenSeq(t)>> \in R
  BY <1>5, <1>6, <1>7, <1>8, <1>9, <1>11, FlattenRelates
<1>13. KeptOf(FlattenSeq(s), Blocks(FlattenSeq(t)), results)
  BY <1>10, <1>12
<1> QED
  BY <1>2, <1>6, <1>13 DEF results

\* The whole repair.
LEMMA RepairKeeps ==
  ASSUME NEW msgs, AreMessages(msgs)
  PROVE  KeptOf(Blocks(msgs), Blocks(RepairToolPairing(msgs)), Results(msgs))
<1> DEFINE merged == MergeSameRole(msgs)
           paired == PairToolCalls(merged)
<1>1. AreMessages(merged) /\ Blocks(merged) = Blocks(msgs)
  BY MergingKeepsMessages, MergingKeepsBlocks
<1>2. Results(merged) = Results(msgs)
  BY <1>1 DEF Results
<1> HIDE DEF merged
<1>3. AreMessages(paired) /\ KeptOf(Blocks(merged), Blocks(paired), Results(merged))
  BY <1>1, CallsPaired, CallsKept DEF Paired
<1> HIDE DEF paired
<1>4. Blocks(MergeSameRole(paired)) = Blocks(paired)
  BY <1>3, MergingKeepsBlocks
<1>5. RepairToolPairing(msgs) = MergeSameRole(paired)
  BY DEF RepairToolPairing, paired, merged
<1> QED
  BY <1>1, <1>2, <1>3, <1>4, <1>5

---------------------------------------------------------------------------
(* The latest result of a call. *)

\* The blocks come in the order of the client's items.
Ascends(s) ==
  /\ IsSequence(s)
  /\ \A i \in 1..Len(s) : s[i].no \in Nat
  /\ \A i, j \in 1..Len(s) : i <= j => s[i].no <= s[j].no

\* Two rows in order, the second later than the first.
LEMMA AscentsJoin ==
  ASSUME NEW s, NEW t, Ascends(s), Ascends(t),
         \A i \in 1..Len(s), j \in 1..Len(t) : s[i].no <= t[j].no
  PROVE  Ascends(s \o t)
<1> DEFINE u == s \o t
<1>0. /\ IsSequence(u) /\ Len(u) = Len(s) + Len(t) /\ Len(s) \in Nat /\ Len(t) \in Nat
      /\ \A i \in 1..Len(s) : u[i] = s[i]
      /\ \A i \in 1..Len(t) : u[Len(s) + i] = t[i]
  BY Concatenation, SequenceLen DEF Ascends
<1> HIDE DEF u
<1>1. \A i \in 1..Len(u) : \/ i \in 1..Len(s) /\ u[i] = s[i]
                           \/ i > Len(s) /\ i - Len(s) \in 1..Len(t) /\ u[i] = t[i - Len(s)]
  <2> TAKE i \in 1..Len(u)
  <2>1. CASE i <= Len(s)
    BY <1>0, <2>1
  <2>2. CASE i > Len(s)
    <3>1. i - Len(s) \in 1..Len(t) /\ Len(s) + (i - Len(s)) = i
      BY <1>0, <2>2
    <3>2. u[Len(s) + (i - Len(s))] = t[i - Len(s)]
      BY <1>0, <3>1
    <3> QED
      BY <2>2, <3>1, <3>2
  <2> QED
    BY <1>0, <2>1, <2>2
<1>2. \A i \in 1..Len(u) : u[i].no \in Nat
  BY <1>1 DEF Ascends
<1>3. ASSUME NEW i \in 1..Len(u), NEW j \in 1..Len(u), i <= j PROVE u[i].no <= u[j].no
  <2>1. CASE i \in 1..Len(s) /\ u[i] = s[i] /\ j \in 1..Len(s) /\ u[j] = s[j]
    BY <1>3, <2>1 DEF Ascends
  <2>2. CASE i \in 1..Len(s) /\ u[i] = s[i] /\ j - Len(s) \in 1..Len(t) /\ u[j] = t[j - Len(s)]
    BY <2>2
  <2>3. CASE i > Len(s) /\ j \in 1..Len(s)
    BY <1>0, <1>3, <2>3
  <2>4. CASE i - Len(s) \in 1..Len(t) /\ u[i] = t[i - Len(s)] /\ j - Len(s) \in 1..Len(t) /\ u[j] = t[j - Len(s)]
    <3>1. i - Len(s) <= j - Len(s)
      BY <1>0, <1>3
    <3> QED
      BY <2>4, <3>1 DEF Ascends
  <2> QED
    BY <1>1, <2>1, <2>2, <2>3, <2>4
<1> QED
  BY <1>0, <1>2, <1>3 DEF Ascends, u

\* Choosing keeps the order.
LEMMA SelectAscends ==
  ASSUME NEW s, Ascends(s), NEW T PROVE Ascends(Select(s, T))
<1>0. IsSequence(s) /\ Len(s) \in Nat
  BY SequenceLen DEF Ascends
<1>1. PICK f : Selects(f, s, T) /\ Select(s, T) = f[Len(s)]
  BY <1>0, SelectIs
<1> DEFINE From(r, n) == \A i \in 1..Len(r) : \E k \in 1..n : r[i] = s[k]
           S == {n \in Nat : n <= Len(s) => Ascends(f[n]) /\ From(f[n], n)}
<1>2. 0 \in S
  <2>1. f[0] = <<>>
    BY <1>1 DEF Selects
  <2>2. Ascends(<<>>) /\ From(<<>>, 0)
    BY ShortSequences DEF Ascends
  <2> QED
    BY <2>1, <2>2
<1>3. ASSUME NEW n \in Nat, n \in S PROVE n + 1 \in S
  <2> SUFFICES ASSUME n + 1 <= Len(s) PROVE Ascends(f[n + 1]) /\ From(f[n + 1], n + 1)
    OBVIOUS
  <2> DEFINE a == f[n]
             x == s[n + 1]
             b == f[n + 1]
  <2>1. n + 1 \in 1..Len(s) /\ (n + 1) - 1 = n /\ n <= Len(s)
    BY <1>0
  <2>2. Ascends(a) /\ From(a, n)
    BY <1>3, <2>1
  <2>3. b = IF x \in T THEN Append(a, x) ELSE a
    BY <1>1, <2>1 DEF Selects
  <2>4. Len(a) \in Nat /\ IsSequence(a)
    BY <2>2, SequenceLen DEF Ascends
  <2>5. \A i \in 1..Len(a) : a[i].no <= x.no /\ a[i].no \in Nat
    <3> TAKE i \in 1..Len(a)
    <3>1. PICK k \in 1..n : a[i] = s[k]
      BY <2>2
    <3>2. k \in 1..Len(s) /\ k <= n + 1
      BY <1>0, <2>1
    <3> QED
      BY <2>1, <3>1, <3>2 DEF Ascends
  <2>6. x.no \in Nat
    BY <2>1 DEF Ascends
  <2>7. \A k \in 1..n : k \in 1..(n + 1)
    OBVIOUS
  <2>8. n + 1 \in 1..(n + 1)
    OBVIOUS
  <2>9. CASE x \notin T
    BY <2>2, <2>3, <2>7, <2>9
  <2>10. CASE x \in T
    <3>1. /\ IsSequence(b) /\ Len(b) = Len(a) + 1 /\ b[Len(a) + 1] = x
          /\ \A i \in 1..Len(a) : b[i] = a[i]
      BY <2>3, <2>4, <2>10, Appended
    <3> HIDE DEF a, b, x
    <3>2. \A i \in 1..Len(b) : i \in 1..Len(a) \/ i = Len(a) + 1
      BY <2>4, <3>1
    <3>3. \A i \in 1..Len(b) : b[i].no \in Nat
      BY <2>5, <2>6, <3>1, <3>2
    <3>4. ASSUME NEW i \in 1..Len(b), NEW j \in 1..Len(b), i <= j PROVE b[i].no <= b[j].no
      <4>1. CASE j \in 1..Len(a)
        <5>1. i \in 1..Len(a)
          BY <2>4, <3>4, <4>1
        <5> QED
          BY <2>2, <3>1, <3>4, <4>1, <5>1 DEF Ascends
      <4>2. CASE j = Len(a) + 1 /\ i \in 1..Len(a)
        BY <2>5, <3>1, <4>2
      <4>3. CASE j = Len(a) + 1 /\ i = Len(a) + 1
        BY <2>6, <3>1, <4>3
      <4> QED
        BY <3>2, <4>1, <4>2, <4>3
    <3>5. From(b, n + 1)
      <4> TAKE i \in 1..Len(b)
      <4>1. CASE i \in 1..Len(a)
        BY <2>2, <2>7, <3>1, <4>1
      <4>2. CASE i = Len(a) + 1
        BY <2>8, <3>1, <4>2 DEF x
      <4> QED
        BY <3>2, <4>1, <4>2
    <3> QED
      BY <3>1, <3>3, <3>4, <3>5 DEF Ascends, b
  <2> QED
    BY <2>9, <2>10
<1> HIDE DEF S
<1>4. Len(s) \in S
  BY <1>0, <1>2, <1>3, Induction
<1> QED
  BY <1>0, <1>1, <1>4 DEF S

\* Of the results of a call, the one that answers it is the latest.
LEMMA LatestAnswers ==
  ASSUME NEW results, Ascends(results), NEW id \in IdsOf(results)
  PROVE  LET r == ResultFor(results, id)
         IN r \in ToSet(results) /\ r.id = id
            /\ \A s \in ToSet(results) : s.id = id => s.no <= r.no /\ s.no \in Nat
<1> DEFINE T == {b \in ToSet(results) : b.id \in {id}}
           w == Select(results, T)
           r == ResultFor(results, id)
<1>0. IsSequence(results)
  BY DEF Ascends
<1>1. r \in ToSet(results) /\ r.id = id
  BY <1>0, ResultAnswers
<1>2. Ascends(w) /\ IsSequence(w) /\ ToSet(w) = T
  BY <1>0, SelectAscends, Selected
<1>3. r = w[Len(w)]
  BY DEF ResultFor, WithIds, Last
<1> HIDE DEF w, r
<1>4. DOMAIN w = 1..Len(w) /\ Len(w) \in Nat
  BY <1>2, SequenceDomain
<1>5. ASSUME NEW s \in ToSet(results), s.id = id PROVE s.no <= r.no /\ s.no \in Nat
  <2>1. s \in ToSet(w)
    BY <1>2, <1>5
  <2>2. PICK i \in 1..Len(w) : s = w[i]
    BY <1>4, <2>1 DEF ToSet
  <2>3. Len(w) \in 1..Len(w) /\ i <= Len(w)
    BY <1>4
  <2> QED
    BY <1>2, <1>3, <2>2, <2>3 DEF Ascends
<1> QED
  BY <1>1, <1>5 DEF r

\* The blocks of an item are those of its message.
LEMMA PieceBlocks ==
  ASSUME NEW endpoint \in {"chat", "responses"}, NEW m, IsItem(endpoint, m)
  PROVE  Blocks(PieceOf(endpoint, m)) = BlocksOf(endpoint, m)
<1> DEFINE blocks == BlocksOf(endpoint, m)
           p == PieceOf(endpoint, m)
           x == Message(RoleOf(m), blocks)
<1> SUFFICES Blocks(p) = blocks
  OBVIOUS
<1>1. AreMessages(p)
  BY PieceIsMessage
<1>2. (blocks = <<>> => p = <<>>) /\ (blocks # <<>> => p = <<x>>)
  BY DEF PieceOf
<1> HIDE DEF blocks, p
<1>3. x.blocks = blocks
  BY MessageFields
<1> HIDE DEF x
<1>4. CASE blocks = <<>>
  BY <1>2, <1>4, BlocksOfNone
<1>5. CASE blocks # <<>>
  <2> DEFINE y == <<x>>
  <2>1. Len(y) = 1 /\ y[1] = x /\ AreMessages(y)
    BY <1>1, <1>2, <1>5, ShortSequences
  <2> HIDE DEF y
  <2>2. IsMessage(x)
    BY <2>1 DEF AreMessages
  <2> QED
    BY <1>2, <1>3, <1>5, <2>2, BlocksOfOne
<1> QED
  BY <1>4, <1>5

\* What is made of a history comes in its order.
LEMMA ConvertedAscends ==
  ASSUME NEW endpoint \in {"chat", "responses"}, NEW items, AreItems(endpoint, items),
         \A i \in 1..Len(items) : items[i].no = i
  PROVE  Ascends(Blocks(Converted(endpoint, items)))
<1>0. IsSequence(items) /\ Len(items) \in Nat /\ \A i \in 1..Len(items) : IsItem(endpoint, items[i])
  BY SequenceLen DEF AreItems
<1>1. PICK t : /\ Converted(endpoint, items) = FlattenSeq(t)
               /\ IsSequence(t) /\ Len(t) = Len(items)
               /\ \A i \in 1..Len(items) : t[i] = PieceOf(endpoint, items[i])
  BY <1>0, ConvertedIs
<1>2. \A i \in 1..Len(t) : AreMessages(t[i]) /\ IsSequence(t[i])
  BY <1>0, <1>1, PieceIsMessage DEF AreMessages
<1>3. PICK f : Flattens(f, t) /\ FlattenSeq(t) = f[Len(t)]
  BY <1>1, <1>2, FlattenIs
<1> DEFINE Upto(msgs, n) == \A i \in 1..Len(Blocks(msgs)) : Blocks(msgs)[i].no <= n
           S == {n \in Nat : n <= Len(t) => AreMessages(f[n]) /\ Ascends(Blocks(f[n])) /\ Upto(f[n], n)}
<1>4. 0 \in S
  <2>1. f[0] = <<>> /\ Blocks(<<>>) = <<>>
    BY <1>3, BlocksOfNone DEF Flattens
  <2>2. Ascends(<<>>) /\ AreMessages(<<>>) /\ Len(<<>>) = 0
    BY ShortSequences DEF Ascends, AreMessages
  <2>3. Upto(<<>>, 0)
    BY <2>1, <2>2
  <2> HIDE DEF Upto
  <2> QED
    BY <2>1, <2>2, <2>3
<1>5. ASSUME NEW n \in Nat, n \in S PROVE n + 1 \in S
  <2> SUFFICES ASSUME n + 1 <= Len(t) PROVE AreMessages(f[n + 1]) /\ Ascends(Blocks(f[n + 1])) /\ Upto(f[n + 1], n + 1)
    OBVIOUS
  <2> DEFINE a == f[n]
             c == f[n + 1]
             p == t[n + 1]
             m == items[n + 1]
             blocks == BlocksOf(endpoint, m)
  <2>1. n + 1 \in 1..Len(t) /\ n + 1 \in 1..Len(items) /\ (n + 1) - 1 = n /\ n <= Len(t)
    BY <1>0, <1>1
  <2>2. AreMessages(a) /\ Ascends(Blocks(a)) /\ Upto(a, n)
    BY <1>5, <2>1
  <2>3. c = a \o p
    BY <1>3, <2>1 DEF Flattens
  <2>4. AreMessages(p) /\ p = PieceOf(endpoint, m) /\ IsItem(endpoint, m) /\ m.no = n + 1
    BY <1>0, <1>1, <1>2, <2>1
  <2>5. IsSequence(blocks) /\ \A b \in ToSet(blocks) : b.no = n + 1
    BY <2>4, ItemBlocks
  <2> HIDE DEF a, c, p, m
  <2>6. Blocks(p) = blocks
    BY <2>4, PieceBlocks DEF blocks
  <2>7. \A i \in 1..Len(blocks) : blocks[i].no = n + 1
    BY <2>5, SequenceDomain DEF ToSet
  <2> HIDE DEF blocks
  <2>8. Ascends(blocks)
    BY <2>5, <2>7 DEF Ascends
  <2> DEFINE x == Blocks(a)
  <2>9. Blocks(c) = x \o blocks /\ AreMessages(c)
    BY <2>2, <2>3, <2>4, <2>6, BlocksConcatenate, MessagesConcatenate
  <2>10. Ascends(x) /\ \A i \in 1..Len(x) : x[i].no \in Nat /\ x[i].no <= n
    BY <2>2 DEF Ascends
  <2> HIDE DEF x
  <2>11. \A i \in 1..Len(x), j \in 1..Len(blocks) : x[i].no <= blocks[j].no
    BY <2>7, <2>10
  <2>12. Ascends(x \o blocks)
    BY <2>8, <2>10, <2>11, AscentsJoin
  <2>13. \A i \in 1..Len(x \o blocks) : (x \o blocks)[i].no <= n + 1
    <3> DEFINE u == x \o blocks
    <3>1. IsSequence(x) /\ IsSequence(blocks) /\ IsSequence(u)
      BY <2>8, <2>10, <2>12 DEF Ascends
    <3>2. ToSet(u) = ToSet(x) \cup ToSet(blocks)
      BY <3>1, ElementsOfConcatenation
    <3> HIDE DEF u
    <3>3. \A b \in ToSet(x) : b.no \in Nat /\ b.no <= n
      BY <2>10, <3>1, SequenceDomain DEF ToSet
    <3>4. \A b \in ToSet(u) : b.no <= n + 1
      BY <2>5, <3>2, <3>3 DEF blocks
    <3>5. \A i \in 1..Len(u) : u[i].no <= n + 1
      BY <3>1, <3>4, SequenceDomain DEF ToSet
    <3> QED
      BY <3>5 DEF u
  <2>14. AreMessages(c) /\ Ascends(Blocks(c)) /\ Upto(c, n + 1)
    BY <2>9, <2>12, <2>13
  <2> QED
    BY <2>14 DEF c
<1> HIDE DEF S
<1>6. Len(t) \in S
  BY <1>0, <1>1, <1>4, <1>5, Induction
<1> QED
  BY <1>0, <1>1, <1>3, <1>6 DEF S

\* The repair of what was made of a history in its order.
LEMMA RepairedKeepsContent == HistoryRepaired => ContentKept
<1> SUFFICES ASSUME HistoryRepaired, ~FromMessages PROVE ContentKept
  BY DEF ContentKept
<1> DEFINE e == settings.endpoint
           given == Blocks(made)
           kept == Blocks(messages)
           results == OfKind(given, "tool_result")
<1>1. /\ e \in {"chat", "responses"} /\ AreItems(e, history) /\ \A i \in 1..Len(history) : history[i].no = i
      /\ made = Converted(e, history) /\ messages = RepairToolPairing(made)
  BY EndpointsAre DEF HistoryRepaired, FromMessages
<1>2. AreMessages(made) /\ Ascends(given)
  BY <1>1, ConvertedAreMessages, ConvertedAscends
<1>3. KeptOf(given, kept, results)
  BY <1>1, <1>2, RepairKeeps DEF Results
<1>4. Ascends(results)
  BY <1>2, SelectAscends DEF OfKind
<1> HIDE DEF given, kept, results
<1>5. ASSUME NEW r \in ToSet(OfKind(kept, "tool_result"))
      PROVE  r.no = Max({s.no : s \in {s \in ToSet(results) : s.id = r.id}})
  <2> DEFINE N == {s.no : s \in {s \in ToSet(results) : s.id = r.id}}
  <2>1. r.id \in IdsOf(results) /\ r = ResultFor(results, r.id)
    BY <1>3 DEF KeptOf
  <2>2. r \in ToSet(results) /\ \A s \in ToSet(results) : s.id = r.id => s.no <= r.no /\ s.no \in Nat
    <3> DEFINE id == r.id
    <3>1. id \in IdsOf(results) /\ r = ResultFor(results, id)
      BY <2>1
    <3> HIDE DEF id
    <3> QED
      BY <1>4, <3>1, LatestAnswers
  <2>3. r.no \in N /\ \A k \in N : r.no >= k /\ k \in Nat
    BY <2>2
  <2> HIDE DEF N
  <2>4. r.no = Max(N)
    BY <2>3 DEF Max
  <2> QED
    BY <2>4 DEF N
<1>6. OthersOf(kept) = OthersOf(given)
      /\ OfKind(kept, "tool_use") = WithIds(OfKind(given, "tool_use"), IdsOf(results))
  BY <1>3 DEF KeptOf
<1> QED
  BY <1>5, <1>6 DEF ContentKept, OthersOf, given, kept, results

\* Whatever a Chat or Responses client sends, the repair moves calls and results and nothing else:
\* contents keep their order, the calls that go upstream are the answered ones in their order, and
\* each result is the latest the client sent for its call.
THEOREM ContentAlwaysKept == RequestsSpec => []ContentKept
<1>1. RequestsSpec => []HistoryRepaired
  BY RequestsRepaired
<1>2. HistoryRepaired => ContentKept
  BY RepairedKeepsContent
<1> QED
  BY <1>1, <1>2, PTL

---------------------------------------------------------------------------
(* A history in which every call is answered in its place, and only once. *)

Filled(msgs) == \A i \in 1..Len(msgs) : msgs[i].blocks # <<>>

\* A message with blocks, merged.
LEMMA MergedFilled ==
  ASSUME NEW out, AreMessages(out), Filled(out), NEW m, IsMessage(m), m.blocks # <<>>
  PROVE  Filled(Merged(out, m))
<1> DEFINE r == Merged(out, m)
           k == Len(out)
<1>0. IsSequence(out) /\ k \in Nat /\ IsSequence(m.blocks)
  BY SequenceLen DEF AreMessages, IsMessage
<1>1. CASE out = <<>>
  <2>1. r = <<m>>
    BY <1>0, <1>1, MergedIs
  <2>2. Len(r) = 1 /\ r[1] = m
    BY <2>1, ShortSequences
  <2> HIDE DEF r
  <2> QED
    BY <2>2 DEF Filled, r
<1>2. CASE out # <<>> /\ out[k].role # m.role
  <2>1. Len(r) = k + 1 /\ (\A i \in 1..k : r[i] = out[i]) /\ r[k + 1] = m
    BY <1>0, <1>2, MergedIs
  <2> HIDE DEF r
  <2> QED
    BY <1>0, <2>1 DEF Filled, r
<1>3. CASE out # <<>> /\ out[k].role = m.role
  <2> DEFINE c == Message(m.role, out[k].blocks \o m.blocks)
             a == out[k].blocks
             b == m.blocks
  <2>0. k # 0
    BY <1>0, <1>3, NoElements, SequenceDomain DEF ToSet
  <2>1. Len(r) = k /\ (\A i \in 1..(k - 1) : r[i] = out[i]) /\ r[k] = c
    BY <1>0, <1>3, MergedIs
  <2>2. IsSequence(a) /\ IsSequence(b) /\ b # <<>>
    BY <1>0, <2>0 DEF AreMessages, IsMessage
  <2>3. c.blocks = a \o b
    BY MessageFields
  <2> HIDE DEF r, c, a, b
  <2>4. a \o b # <<>>
    <3>1. ToSet(a \o b) = ToSet(a) \cup ToSet(b) /\ IsSequence(a \o b)
      BY <2>2, ElementsOfConcatenation, Concatenation
    <3>2. ToSet(b) # {}
      BY <2>2, NoElements
    <3> QED
      BY <3>1, <3>2, NoElements
  <2>5. \A i \in 1..k : i \in 1..(k - 1) \/ i = k
    BY <1>0
  <2> QED
    BY <1>0, <2>1, <2>3, <2>4, <2>5 DEF Filled, r
<1> QED
  BY <1>1, <1>2, <1>3

\* The whole merge.
LEMMA MergingFills ==
  ASSUME NEW msgs, AreMessages(msgs), Filled(msgs) PROVE Filled(MergeSameRole(msgs))
<1>0. IsSequence(msgs) /\ Len(msgs) \in Nat
  BY SequenceLen DEF AreMessages
<1>1. PICK f : Merges(f, msgs) /\ MergeSameRole(msgs) = f[Len(msgs)]
  BY <1>0, MergeIs
<1> DEFINE S == {n \in Nat : n <= Len(msgs) => AreMessages(f[n]) /\ Filled(f[n])}
<1>2. 0 \in S
  <2>1. f[0] = <<>> /\ AreMessages(<<>>) /\ Filled(<<>>)
    BY <1>1, ShortSequences DEF Merges, AreMessages, Filled
  <2> QED
    BY <2>1
<1>3. ASSUME NEW n \in Nat, n \in S PROVE n + 1 \in S
  <2> SUFFICES ASSUME n + 1 <= Len(msgs) PROVE AreMessages(f[n + 1]) /\ Filled(f[n + 1])
    OBVIOUS
  <2>1. n + 1 \in 1..Len(msgs) /\ (n + 1) - 1 = n /\ AreMessages(f[n]) /\ Filled(f[n])
    BY <1>0, <1>3
  <2>2. f[n + 1] = Merged(f[n], msgs[n + 1]) /\ IsMessage(msgs[n + 1]) /\ msgs[n + 1].blocks # <<>>
    BY <1>1, <2>1 DEF Merges, AreMessages, Filled
  <2> QED
    BY <2>1, <2>2, MergedAreMessages, MergedFilled
<1> HIDE DEF S
<1>4. Len(msgs) \in S
  BY <1>0, <1>2, <1>3, Induction
<1> QED
  BY <1>0, <1>1, <1>4 DEF S

\* Rows of messages that have blocks.
LEMMA FilledConcatenate ==
  ASSUME NEW a, NEW b, IsSequence(a), IsSequence(b), Filled(a), Filled(b) PROVE Filled(a \o b)
<1> DEFINE c == a \o b
<1>1. IsSequence(c) /\ ToSet(c) = ToSet(a) \cup ToSet(b)
  BY Concatenation, ElementsOfConcatenation
<1>2. \A m \in ToSet(a) \cup ToSet(b) : m.blocks # <<>>
  BY SequenceDomain DEF ToSet, Filled
<1> HIDE DEF c
<1>3. \A i \in 1..Len(c) : c[i] \in ToSet(c)
  BY <1>1, SequenceDomain DEF ToSet
<1>4. Filled(c)
  BY <1>1, <1>2, <1>3 DEF Filled
<1> QED
  BY <1>4 DEF c

\* The conversions send no message without blocks.
LEMMA ConvertedFilled ==
  ASSUME NEW endpoint \in {"chat", "responses"}, NEW items, AreItems(endpoint, items)
  PROVE  Filled(Converted(endpoint, items))
<1>0. IsSequence(items) /\ Len(items) \in Nat /\ \A i \in 1..Len(items) : IsItem(endpoint, items[i])
  BY SequenceLen DEF AreItems
<1>1. PICK t : /\ Converted(endpoint, items) = FlattenSeq(t)
               /\ IsSequence(t) /\ Len(t) = Len(items)
               /\ \A i \in 1..Len(items) : t[i] = PieceOf(endpoint, items[i])
  BY <1>0, ConvertedIs
<1>2. ASSUME NEW i \in 1..Len(t) PROVE AreMessages(t[i]) /\ IsSequence(t[i]) /\ Filled(t[i])
  <2> DEFINE m == items[i]
             blocks == BlocksOf(endpoint, m)
             x == Message(RoleOf(m), blocks)
  <2>1. IsItem(endpoint, m) /\ t[i] = PieceOf(endpoint, m)
    BY <1>0, <1>1
  <2>2. AreMessages(t[i]) /\ IsSequence(t[i])
    BY <2>1, PieceIsMessage DEF AreMessages
  <2>3. x.blocks = blocks
    BY MessageFields
  <2>4. t[i] = <<>> \/ (t[i] = <<x>> /\ blocks # <<>>)
    BY <2>1 DEF PieceOf
  <2> HIDE DEF x, blocks
  <2>5. Filled(<<>>) /\ (blocks # <<>> => Filled(<<x>>))
    BY <2>3, ShortSequences DEF Filled
  <2> QED
    BY <2>2, <2>4, <2>5
<1> DEFINE U == UNION {ToSet(t[i]) : i \in DOMAIN t}
           Q == {q \in Seq(U) : Filled(q)}
<1>3. ASSUME NEW i \in 1..Len(t) PROVE t[i] \in Q
  <2>1. i \in DOMAIN t
    BY <1>1, SequenceDomain
  <2>2. ToSet(t[i]) \subseteq U
    BY <2>1
  <2> HIDE DEF U
  <2>3. t[i] \in Seq(U)
    BY <1>2, <2>2, TypedSequence
  <2> QED
    BY <1>2, <2>3
<1> HIDE DEF U
<1>4. \A a, b \in Q : a \o b \in Q
  <2> TAKE a, b \in Q
  <2>1. a \in Seq(U) /\ b \in Seq(U) /\ Filled(a) /\ Filled(b)
    OBVIOUS
  <2>2. a \o b \in Seq(U) /\ IsSequence(a) /\ IsSequence(b)
    BY <2>1 DEF IsSequence
  <2> QED
    BY <2>1, <2>2, FilledConcatenate
<1>5. <<>> \in Q
  BY ShortSequences DEF Filled
<1>6. \A q \in Q : Filled(q)
  OBVIOUS
<1> HIDE DEF Q
<1>7. FlattenSeq(t) \in Q
  BY <1>1, <1>2, <1>3, <1>4, <1>5, FlattenKeeps
<1> QED
  BY <1>1, <1>6, <1>7

---------------------------------------------------------------------------
(* Ids that are used once. *)

OnceEach(s) == \A i, j \in 1..Len(s) : s[i].id = s[j].id => i = j

\* The ids of blocks, in their order.
LEMMA IdSeqIs ==
  ASSUME NEW s, IsSequence(s)
  PROVE  /\ IsSequence(IdSeq(s)) /\ Len(IdSeq(s)) = Len(s)
         /\ \A i \in 1..Len(s) : IdSeq(s)[i] = s[i].id
         /\ IdsOf(s) = {s[i].id : i \in 1..Len(s)}
<1> DEFINE t == [i \in DOMAIN s |-> s[i].id]
<1>0. DOMAIN s = 1..Len(s) /\ Len(s) \in Nat
  BY SequenceDomain
<1>1. DOMAIN t = 1..Len(s) /\ t = [i \in DOMAIN t |-> t[i]] /\ \A i \in 1..Len(s) : t[i] = s[i].id
  BY <1>0
<1>2. IdSeq(s) = t
  BY DEF IdSeq
<1> HIDE DEF t
<1>3. IsSequence(t) /\ Len(t) = Len(s)
  BY <1>0, <1>1, TableIsSequence
<1>4. IdsOf(s) = {s[i].id : i \in 1..Len(s)}
  BY <1>0 DEF IdsOf
<1> QED
  BY <1>1, <1>2, <1>3, <1>4

\* As many ids as blocks: each is used once.
LEMMA CountedOnce ==
  ASSUME NEW s, IsSequence(s), Cardinality(IdsOf(s)) = Len(s) PROVE OnceEach(s)
<1> DEFINE D == 1..Len(s)
           T == IdsOf(s)
           f == [i \in D |-> s[i].id]
<1>0. Len(s) \in Nat /\ T = {s[i].id : i \in D}
  BY SequenceLen, IdSeqIs
<1>1. IsFiniteSet(D) /\ Cardinality(D) = Len(s)
  <2> DEFINE k == Len(s)
  <2>0. k \in Nat
    BY <1>0
  <2> HIDE DEF k
  <2>1. 1 \in Int /\ k \in Int
    BY ONLY <2>0
  <2>2. IsFiniteSet(1..k) /\ Cardinality(1..k) = IF 1 > k THEN 0 ELSE k - 1 + 1
    BY ONLY <2>1, FS_Interval
  <2>3. IsFiniteSet(1..k) /\ Cardinality(1..k) = k
    BY ONLY <2>0, <2>2
  <2> QED
    BY <2>3 DEF k
<1>2. f \in Surjection(D, T)
  BY <1>0 DEF Surjection
<1>3. Cardinality(D) = Cardinality(T)
  BY <1>1
<1> HIDE DEF T
<1>4. f \in Injection(D, T)
  <2> HIDE DEF f, D
  <2> QED
    BY <1>1, <1>2, <1>3, FS_SurjSameCardinalityImpliesInj
<1>5. \A i, j \in D : f[i] = f[j] => i = j
  BY <1>4 DEF Injection, IsInjective
<1> QED
  BY <1>5 DEF OnceEach

\* Ids of two rows.
LEMMA IdSeqSplits ==
  ASSUME NEW a, NEW b, IsSequence(a), IsSequence(b) PROVE IdSeq(a \o b) = IdSeq(a) \o IdSeq(b)
<1> DEFINE c == a \o b
           p == IdSeq(a)
           q == IdSeq(b)
           l == IdSeq(c)
           r == p \o q
<1>0. /\ IsSequence(c) /\ Len(c) = Len(a) + Len(b) /\ Len(a) \in Nat /\ Len(b) \in Nat
      /\ \A i \in 1..Len(a) : c[i] = a[i]
      /\ \A i \in 1..Len(b) : c[Len(a) + i] = b[i]
  BY Concatenation, SequenceLen
<1> HIDE DEF c
<1>1. /\ IsSequence(p) /\ Len(p) = Len(a) /\ \A i \in 1..Len(a) : p[i] = a[i].id
      /\ IsSequence(q) /\ Len(q) = Len(b) /\ \A i \in 1..Len(b) : q[i] = b[i].id
      /\ IsSequence(l) /\ Len(l) = Len(c) /\ \A i \in 1..Len(c) : l[i] = c[i].id
  BY <1>0, IdSeqIs
<1> HIDE DEF p, q, l
<1>2. /\ IsSequence(r) /\ Len(r) = Len(a) + Len(b)
      /\ \A i \in 1..Len(a) : r[i] = p[i]
      /\ \A i \in 1..Len(b) : r[Len(a) + i] = q[i]
  <2>1. IsSequence(p) /\ IsSequence(q)
    BY <1>1
  <2>2. /\ IsSequence(r) /\ Len(r) = Len(p) + Len(q)
        /\ \A i \in 1..Len(p) : r[i] = p[i]
        /\ \A i \in 1..Len(q) : r[Len(p) + i] = q[i]
    BY <2>1, Concatenation
  <2> HIDE DEF r
  <2>3. Len(p) = Len(a) /\ Len(q) = Len(b)
    BY <1>1
  <2> QED
    BY ONLY <2>2, <2>3
<1> HIDE DEF r
<1>3. ASSUME NEW i \in 1..Len(l) PROVE l[i] = r[i]
  <2>1. CASE i <= Len(a)
    BY <1>0, <1>1, <1>2, <2>1
  <2>2. CASE i > Len(a)
    <3>1. i - Len(a) \in 1..Len(b) /\ Len(a) + (i - Len(a)) = i
      BY <1>0, <1>1, <2>2
    <3>2. c[i] = b[i - Len(a)] /\ r[i] = q[i - Len(a)]
      BY <1>0, <1>2, <3>1
    <3> QED
      BY <1>1, <3>1, <3>2
  <2> QED
    BY <1>0, <1>1, <2>1, <2>2
<1>4. l = r
  BY <1>0, <1>1, <1>2, <1>3, SameSequence
<1> QED
  BY <1>4 DEF l, r, p, q, c

---------------------------------------------------------------------------
(* What the repair does to messages that are well-formed. *)

\* What the next message has to answer.
Due(M, n) == IF n = 0 THEN <<>> ELSE IdSeq(CallsOf(M[n]))

\* No blocks have no ids.
LEMMA NoIds == IdSeq(<<>>) = <<>> /\ \A s : IsSequence(s) /\ IdSeq(s) = <<>> => s = <<>>
<1>1. IsSequence(<<>>) /\ Len(<<>>) = 0
  BY ShortSequences
<1>2. IsSequence(IdSeq(<<>>)) /\ Len(IdSeq(<<>>)) = 0
  BY <1>1, IdSeqIs
<1>3. ASSUME NEW s, IsSequence(s), Len(s) = 0 PROVE s = <<>>
  BY <1>1, <1>3, SameSequence
<1>4. ASSUME NEW s, IsSequence(s), IdSeq(s) = <<>> PROVE s = <<>>
  <2>1. Len(s) = 0
    BY <1>1, <1>4, IdSeqIs
  <2> QED
    BY <1>3, <1>4, <2>1
<1> QED
  BY <1>2, <1>3, <1>4

\* The shape of a well-formed message.
LEMMA ShapeOf ==
  ASSUME NEW M, AreMessages(M), WellFormed(M), NEW i \in 1..Len(M)
  PROVE  /\ i > 1 => M[i].role # M[i - 1].role
         /\ InOrder(M[i])
         /\ IdSeq(ResultsOf(M[i])) = Due(M, i - 1)
         /\ i = Len(M) => CallsOf(M[i]) = <<>>
<1>1. i \in DOMAIN M /\ (i = 1 <=> i - 1 = 0)
  BY SequenceDomain DEF AreMessages
<1>2. /\ i > 1 => M[i].role # M[i - 1].role
      /\ InOrder(M[i])
      /\ IdSeq(ResultsOf(M[i])) = IdSeq(IF i = 1 THEN <<>> ELSE CallsOf(M[i - 1]))
      /\ i = Len(M) => CallsOf(M[i]) = <<>>
  BY <1>1 DEF WellFormed, InOrder, CallsOf, ResultsOf
<1> QED
  BY <1>1, <1>2, NoIds DEF Due

\* In well-formed messages the results are those of the calls, in their order, ...
LEMMA ResultsInTurn ==
  ASSUME NEW M, AreMessages(M), WellFormed(M)
  PROVE  IdSeq(OfKind(Blocks(M), "tool_use")) = IdSeq(Results(M))
<1>0. IsSequence(M) /\ Len(M) \in Nat
  BY SequenceLen DEF AreMessages
<1> DEFINE C(n) == SubSeq(M, 1, n)
           K(n) == OfKind(Blocks(C(n)), "tool_use")
           R(n) == OfKind(Blocks(C(n)), "tool_result")
           S == {n \in Nat : n <= Len(M) => IdSeq(K(n)) = IdSeq(R(n)) \o Due(M, n)}
<1>1. \A n \in 0..Len(M) : AreMessages(C(n)) /\ Len(C(n)) = n /\ \A i \in 1..n : C(n)[i] = M[i]
  BY FirstMessages
<1>2. 0 \in S
  <2> DEFINE e == C(0)
  <2>1. IsSequence(e) /\ Len(e) = 0
    BY <1>0, <1>1 DEF AreMessages
  <2> HIDE DEF e
  <2>2. e = <<>>
    BY <2>1, ShortSequences, SameSequence
  <2>3. OfKind(Blocks(e), "tool_use") = <<>> /\ OfKind(Blocks(e), "tool_result") = <<>>
    BY <2>2, BlocksOfNone, FiltersOfNone
  <2>4. <<>> \o <<>> = <<>>
    BY ShortSequences, EmptyConcatenation
  <2>5. IdSeq(OfKind(Blocks(e), "tool_use")) = IdSeq(OfKind(Blocks(e), "tool_result")) \o Due(M, 0)
    BY <2>3, <2>4, NoIds DEF Due
  <2> QED
    BY <2>5 DEF e
<1>3. ASSUME NEW n \in Nat, n \in S PROVE n + 1 \in S
  <2> SUFFICES ASSUME n + 1 <= Len(M) PROVE IdSeq(K(n + 1)) = IdSeq(R(n + 1)) \o Due(M, n + 1)
    OBVIOUS
  <2>0. n \in 0..Len(M) /\ n + 1 \in 0..Len(M) /\ n + 1 \in 1..Len(M) /\ (n + 1) - 1 = n /\ n + 1 # 0
    BY <1>0
  <2>1. IdSeq(K(n)) = IdSeq(R(n)) \o Due(M, n)
    BY <1>3, <2>0
  <2> DEFINE x == C(n)
             y == C(n + 1)
             m == M[n + 1]
  <2>2. /\ AreMessages(x) /\ Len(x) = n /\ \A i \in 1..n : x[i] = M[i]
        /\ AreMessages(y) /\ Len(y) = n + 1 /\ \A i \in 1..(n + 1) : y[i] = M[i]
    BY <1>1, <2>0
  <2> HIDE DEF x, y
  <2>3. Len(y) = Len(x) + 1 /\ (\A i \in 1..Len(x) : y[i] = x[i]) /\ y[Len(x) + 1] = m
    <3>1. n + 1 \in 1..(n + 1) /\ \A i \in 1..n : i \in 1..(n + 1)
      BY <2>0
    <3> QED
      BY <2>2, <3>1
  <2>4. Blocks(y) = Blocks(x) \o m.blocks
    BY <2>2, <2>3, BlocksAdded
  <2>5. IsSequence(Blocks(x)) /\ IsSequence(m.blocks)
    BY <2>0, <2>2, BlocksAreSequence DEF AreMessages, IsMessage
  <2> DEFINE b == Blocks(x)
             l == m.blocks
             kb == OfKind(b, "tool_use")
             kl == OfKind(l, "tool_use")
             rb == OfKind(b, "tool_result")
             rl == OfKind(l, "tool_result")
  <2>6. OfKind(Blocks(y), "tool_use") = kb \o kl /\ OfKind(Blocks(y), "tool_result") = rb \o rl
    BY <2>4, <2>5, KindsSplit
  <2>7. IsSequence(kb) /\ IsSequence(kl) /\ IsSequence(rb) /\ IsSequence(rl)
    BY <2>5, Filters
  <2>8. IdSeq(rl) = Due(M, n) /\ IdSeq(kl) = Due(M, n + 1)
    BY <2>0, ShapeOf DEF ResultsOf, CallsOf, Due
  <2>9. IdSeq(kb) = IdSeq(rb) \o Due(M, n)
    BY <2>1 DEF x
  <2> HIDE DEF kb, kl, rb, rl
  <2>10. IdSeq(kb \o kl) = IdSeq(kb) \o IdSeq(kl) /\ IdSeq(rb \o rl) = IdSeq(rb) \o IdSeq(rl)
    BY <2>7, IdSeqSplits
  <2>11. IdSeq(OfKind(Blocks(y), "tool_use")) = IdSeq(OfKind(Blocks(y), "tool_result")) \o Due(M, n + 1)
    BY <2>6, <2>8, <2>9, <2>10
  <2> QED
    BY <2>11 DEF y
<1> HIDE DEF S
<1>4. Len(M) \in S
  BY <1>0, <1>2, <1>3, Induction
<1>5. IdSeq(K(Len(M))) = IdSeq(R(Len(M))) \o Due(M, Len(M))
  BY <1>0, <1>4 DEF S
<1> DEFINE c == C(Len(M))
<1>6. AreMessages(c) /\ Len(c) = Len(M) /\ \A i \in 1..Len(M) : c[i] = M[i]
  BY <1>0, <1>1
<1>7. IdSeq(OfKind(Blocks(c), "tool_use")) = IdSeq(OfKind(Blocks(c), "tool_result")) \o Due(M, Len(M))
  BY <1>5
<1> HIDE DEF c, C
<1>8. c = M
  BY <1>0, <1>6, SameSequence DEF AreMessages
<1>9. Due(M, Len(M)) = <<>>
  <2>1. CASE Len(M) = 0
    BY <2>1 DEF Due
  <2>2. CASE Len(M) # 0
    <3>1. Len(M) \in 1..Len(M)
      BY <1>0, <2>2
    <3>2. CallsOf(M[Len(M)]) = <<>>
      BY <3>1, ShapeOf
    <3> QED
      BY <2>2, <3>2, NoIds DEF Due
  <2> QED
    BY <2>1, <2>2
<1> DEFINE r == Results(M)
<1>10. IsSequence(IdSeq(r))
  <2>1. IsSequence(r)
    BY BlocksAreSequence, Filters DEF Results
  <2> QED
    BY <2>1, IdSeqIs
<1>11. IdSeq(r) \o <<>> = IdSeq(r)
  BY <1>10, EmptyConcatenation
<1> QED
  BY <1>7, <1>8, <1>9, <1>11 DEF Results

\* ... and if no id is called twice, no call is answered twice, and none goes unanswered.
LEMMA AnswersOnce ==
  ASSUME NEW M, AreMessages(M), WellFormed(M),
         Cardinality(IdsOf(OfKind(Blocks(M), "tool_use"))) = Len(OfKind(Blocks(M), "tool_use"))
  PROVE  OnceEach(Results(M)) /\ IdsOf(Results(M)) = IdsOf(OfKind(Blocks(M), "tool_use"))
<1> DEFINE k == OfKind(Blocks(M), "tool_use")
           r == Results(M)
<1>1. IsSequence(k) /\ IsSequence(r)
  BY BlocksAreSequence, Filters DEF Results
<1>2. IdSeq(k) = IdSeq(r)
  BY ResultsInTurn
<1> HIDE DEF k, r
<1>3. /\ Len(IdSeq(k)) = Len(k) /\ (\A i \in 1..Len(k) : IdSeq(k)[i] = k[i].id) /\ IdsOf(k) = {k[i].id : i \in 1..Len(k)}
      /\ Len(IdSeq(r)) = Len(r) /\ (\A i \in 1..Len(r) : IdSeq(r)[i] = r[i].id) /\ IdsOf(r) = {r[i].id : i \in 1..Len(r)}
  BY <1>1, IdSeqIs
<1>4. Len(k) = Len(r) /\ \A i \in 1..Len(r) : r[i].id = k[i].id
  BY <1>2, <1>3
<1>5. OnceEach(k)
  BY <1>1, CountedOnce DEF k
<1>6. OnceEach(r) /\ IdsOf(r) = IdsOf(k)
  BY <1>3, <1>4, <1>5 DEF OnceEach
<1> QED
  BY <1>6 DEF r, k

\* The only result of a call is the one it gets.
LEMMA OnlyAnswer ==
  ASSUME NEW results, IsSequence(results), OnceEach(results), NEW r \in ToSet(results)
  PROVE  ResultFor(results, r.id) = r
<1> DEFINE id == r.id
           x == ResultFor(results, id)
<1>1. DOMAIN results = 1..Len(results)
  BY SequenceDomain
<1>2. id \in IdsOf(results)
  BY DEF IdsOf, ToSet
<1> HIDE DEF id
<1>3. x \in ToSet(results) /\ x.id = id
  BY <1>2, ResultAnswers
<1> HIDE DEF x
<1>4. PICK i, j \in 1..Len(results) : x = results[i] /\ r = results[j]
  BY <1>1, <1>3 DEF ToSet
<1>5. x = r
  BY <1>3, <1>4 DEF OnceEach, id
<1> QED
  BY <1>5 DEF x, id

\* What a message holds is among the blocks of all.
LEMMA BlocksFound ==
  ASSUME NEW M, AreMessages(M), NEW i \in 1..Len(M) PROVE ToSet(M[i].blocks) \subseteq ToSet(Blocks(M))
<1>1. PICK t : /\ Blocks(M) = FlattenSeq(t) /\ IsSequence(t) /\ Len(t) = Len(M)
               /\ \A j \in 1..Len(M) : t[j] = M[j].blocks /\ IsSequence(t[j])
  BY BlocksAre
<1>2. PICK g : Flattens(g, t) /\ FlattenSeq(t) = g[Len(t)]
  BY <1>1, FlattenIs
<1>3. Len(t) \in Nat
  BY <1>1, SequenceLen
<1> DEFINE S == {n \in Nat : n <= Len(t) /\ i <= n => ToSet(t[i]) \subseteq ToSet(g[n])}
<1>4. 0 \in S
  OBVIOUS
<1>5. ASSUME NEW n \in Nat, n \in S PROVE n + 1 \in S
  <2> SUFFICES ASSUME n + 1 <= Len(t), i <= n + 1 PROVE ToSet(t[i]) \subseteq ToSet(g[n + 1])
    OBVIOUS
  <2>1. n + 1 \in 1..Len(t) /\ (n + 1) - 1 = n /\ n \in 0..Len(t) /\ n <= Len(t)
    BY <1>3
  <2> DEFINE a == g[n]
             b == t[n + 1]
  <2>2. g[n + 1] = a \o b /\ IsSequence(a) /\ IsSequence(b)
    BY <1>1, <1>2, <2>1 DEF Flattens
  <2>3. i <= n => ToSet(t[i]) \subseteq ToSet(a)
    BY <1>5, <2>1
  <2>4. i <= n \/ t[i] = b
    BY <2>1
  <2> HIDE DEF a, b
  <2>5. ToSet(a \o b) = ToSet(a) \cup ToSet(b)
    BY <2>2, ElementsOfConcatenation
  <2> QED
    BY <2>2, <2>3, <2>4, <2>5
<1> HIDE DEF S
<1>6. Len(t) \in S
  BY <1>3, <1>4, <1>5, Induction
<1>7. i <= Len(t)
  BY <1>1
<1> QED
  BY <1>1, <1>2, <1>3, <1>6, <1>7 DEF S

---------------------------------------------------------------------------
(* The repair leaves well-formed messages as they are. *)

\* One message more, merged.
LEMMA MergeOneMore ==
  ASSUME NEW a, AreMessages(a), NEW m, IsMessage(m)
  PROVE  /\ AreMessages(a \o <<m>>)
         /\ MergeSameRole(a \o <<m>>) = Merged(MergeSameRole(a), m)
<1> DEFINE c == a \o <<m>>
           k == Len(a)
<1>0. IsSequence(a) /\ k \in Nat /\ \A i \in 1..k : IsMessage(a[i])
  BY SequenceLen DEF AreMessages
<1>1. IsSequence(c) /\ Len(c) = k + 1 /\ (\A i \in 1..k : c[i] = a[i]) /\ c[k + 1] = m
  BY <1>0, OneAdded
<1> HIDE DEF c
<1>2. AreMessages(c)
  <2>1. \A i \in 1..Len(c) : i \in 1..k \/ i = k + 1
    BY <1>0, <1>1
  <2> QED
    BY <1>0, <1>1, <2>1 DEF AreMessages
<1>3. PICK f : Merges(f, a) /\ MergeSameRole(a) = f[k]
  BY <1>0, MergeIs
<1>4. PICK g : Merges(g, c) /\ MergeSameRole(c) = g[k + 1]
  BY <1>1, MergeIs
<1> DEFINE S == {n \in Nat : n <= k => f[n] = g[n]}
<1>5. 0 \in S
  BY <1>3, <1>4 DEF Merges
<1>6. ASSUME NEW n \in Nat, n \in S PROVE n + 1 \in S
  <2> SUFFICES ASSUME n + 1 <= k PROVE f[n + 1] = g[n + 1]
    OBVIOUS
  <2>1. n + 1 \in 1..k /\ n + 1 \in 1..Len(c) /\ (n + 1) - 1 = n /\ f[n] = g[n] /\ c[n + 1] = a[n + 1]
    BY <1>0, <1>1, <1>6
  <2>2. f[n + 1] = Merged(f[n], a[n + 1]) /\ g[n + 1] = Merged(g[n], c[n + 1])
    BY <1>3, <1>4, <2>1 DEF Merges
  <2> QED
    BY <2>1, <2>2
<1> HIDE DEF S
<1>7. f[k] = g[k]
  <2>1. k \in S
    BY <1>0, <1>5, <1>6, Induction
  <2> QED
    BY <1>0, <2>1 DEF S
<1>8. g[k + 1] = Merged(g[k], c[k + 1])
  <2>1. k + 1 \in 1..Len(c) /\ (k + 1) - 1 = k
    BY <1>0, <1>1
  <2> QED
    BY <1>4, <2>1 DEF Merges
<1> QED
  BY <1>1, <1>2, <1>3, <1>4, <1>7, <1>8 DEF c

\* A message of another role comes behind.
LEMMA MergedApart ==
  ASSUME NEW out, AreMessages(out), NEW m, IsMessage(m),
         Len(out) = 0 \/ out[Len(out)].role # m.role
  PROVE  /\ AreMessages(Merged(out, m)) /\ Len(Merged(out, m)) = Len(out) + 1
         /\ \A i \in 1..Len(out) : Merged(out, m)[i] = out[i]
         /\ Merged(out, m)[Len(out) + 1] = m
<1> DEFINE r == Merged(out, m)
<1>0. IsSequence(out) /\ Len(out) \in Nat /\ AreMessages(r)
  BY SequenceLen, MergedAreMessages DEF AreMessages
<1>1. CASE Len(out) = 0
  <2>1. out = <<>>
    BY <1>0, <1>1, ShortSequences, SameSequence
  <2>2. r = <<m>>
    BY <1>0, <2>1, MergedIs
  <2>3. Len(r) = 1 /\ r[1] = m
    BY <2>2, ShortSequences
  <2> HIDE DEF r
  <2> QED
    BY <1>0, <1>1, <2>3 DEF r
<1>2. CASE Len(out) # 0 /\ out[Len(out)].role # m.role
  <2>1. out # <<>>
    BY <1>2, ShortSequences
  <2> QED
    BY <1>0, <1>2, <2>1, MergedIs
<1> QED
  BY <1>1, <1>2

\* A message of the same role joins the last.
LEMMA MergedTogether ==
  ASSUME NEW out, AreMessages(out), NEW m, IsMessage(m),
         Len(out) # 0, out[Len(out)].role = m.role
  PROVE  /\ AreMessages(Merged(out, m)) /\ Len(Merged(out, m)) = Len(out)
         /\ \A i \in 1..(Len(out) - 1) : Merged(out, m)[i] = out[i]
         /\ Merged(out, m)[Len(out)] = Message(m.role, out[Len(out)].blocks \o m.blocks)
<1>1. out # <<>> /\ IsSequence(out)
  BY ShortSequences DEF AreMessages
<1> QED
  BY <1>1, MergedIs, MergedAreMessages

\* The messages merged so far, n of those of M: these, and the answers that the last one's calls got.
Regained(out, M, n) ==
  LET due == n # 0 /\ CallsOf(M[n]) # <<>>
  IN /\ AreMessages(out)
     /\ Len(out) = IF due THEN n + 1 ELSE n
     /\ \A i \in 1..n : out[i] = M[i]
     /\ due => out[n + 1] = Message("user", ResultsOf(M[n + 1]))

\* An answer goes back to where it was.
LEMMA PairAgain ==
  ASSUME NEW M, AreMessages(M), WellFormed(M),
         NEW results, results = Results(M), OnceEach(results),
         IdsOf(results) = IdsOf(OfKind(Blocks(M), "tool_use")),
         NEW i \in 1..Len(M), M[i].role = "assistant"
  PROVE  PairAssistant(M[i], results) =
           IF CallsOf(M[i]) = <<>> THEN <<M[i]>>
           ELSE <<M[i], Message("user", ResultsOf(M[i + 1]))>>
<1> DEFINE m      == M[i]
           calls  == OfKind(m.blocks, "tool_use")
           others == Except(m.blocks, "tool_use")
           ids    == IdsOf(results)
           kept   == WithIds(calls, ids)
           answer == [j \in DOMAIN kept |-> ResultFor(results, kept[j].id)]
<1>0. IsSequence(M) /\ Len(M) \in Nat /\ IsMessage(m) /\ IsSequence(m.blocks) /\ m = Message("assistant", m.blocks)
  BY SequenceLen DEF AreMessages, IsMessage
<1>1. IsSequence(calls) /\ ToSet(calls) = {b \in ToSet(m.blocks) : b.kind = "tool_use"}
      /\ IsSequence(results)
      /\ ToSet(results) = {b \in ToSet(Blocks(M)) : b.kind = "tool_result"}
      /\ IsSequence(OfKind(Blocks(M), "tool_use"))
      /\ ToSet(OfKind(Blocks(M), "tool_use")) = {b \in ToSet(Blocks(M)) : b.kind = "tool_use"}
  BY <1>0, BlocksAreSequence, Filters DEF Results
<1>2. kept = calls
  <2> DEFINE T == {b \in ToSet(calls) : b.id \in ids}
             k == OfKind(Blocks(M), "tool_use")
  <2>1. \A b \in ToSet(calls) : b \in ToSet(k)
    BY <1>1, BlocksFound
  <2>2. \A b \in ToSet(k) : b.id \in IdsOf(k)
    BY DEF IdsOf, ToSet
  <2> HIDE DEF k
  <2>3. ToSet(calls) \subseteq T
    BY <2>1, <2>2 DEF k
  <2>4. kept = Select(calls, T)
    BY DEF WithIds
  <2> HIDE DEF calls, T
  <2> QED
    BY <1>1, <2>3, <2>4, SelectAll DEF calls
<1>3. CASE calls = <<>>
  <2>1. calls = <<>> /\ kept = <<>>
    BY <1>2, <1>3
  <2>2. PairAssistant(m, results) = <<m>>
    BY <2>1 DEF PairAssistant
  <2> QED
    BY <2>1, <2>2 DEF CallsOf
<1>4. CASE calls # <<>>
  <2> DEFINE r == ResultsOf(M[i + 1])
  <2>1. i + 1 \in 1..Len(M) /\ (i + 1) - 1 = i /\ i # 0
    <3>1. i # Len(M)
      BY <1>4, ShapeOf DEF CallsOf
    <3> QED
      BY <1>0, <3>1
  <2>2. IdSeq(r) = IdSeq(calls)
    BY <2>1, ShapeOf DEF Due, CallsOf
  <2>3. IsSequence(r) /\ \A b \in ToSet(r) : b \in ToSet(results)
    <3>1. IsSequence(M[i + 1].blocks)
      BY <2>1 DEF AreMessages, IsMessage
    <3>2. IsSequence(r) /\ ToSet(r) = {b \in ToSet(M[i + 1].blocks) : b.kind = "tool_result"}
      BY <3>1, Filters DEF ResultsOf
    <3>3. ToSet(M[i + 1].blocks) \subseteq ToSet(Blocks(M))
      BY <2>1, BlocksFound
    <3> QED
      BY <1>1, <3>2, <3>3
  <2> HIDE DEF r
  <2>4. Len(r) = Len(calls) /\ \A j \in 1..Len(calls) : r[j].id = calls[j].id
    <3> HIDE DEF calls
    <3>1. /\ Len(IdSeq(r)) = Len(r) /\ \A j \in 1..Len(r) : IdSeq(r)[j] = r[j].id
          /\ Len(IdSeq(calls)) = Len(calls) /\ \A j \in 1..Len(calls) : IdSeq(calls)[j] = calls[j].id
      BY <1>1, <2>3, IdSeqIs
    <3> QED
      BY <2>2, <3>1
  <2>5. DOMAIN calls = 1..Len(calls) /\ DOMAIN r = 1..Len(r) /\ Len(calls) \in Nat
    BY <1>1, <2>3, SequenceDomain
  <2>6. DOMAIN answer = 1..Len(calls) /\ answer = [j \in DOMAIN answer |-> answer[j]]
        /\ \A j \in 1..Len(calls) : answer[j] = ResultFor(results, calls[j].id)
    BY <1>2, <2>5
  <2>7. PairAssistant(m, results) = <<Message(m.role, others \o kept), Message("user", answer)>>
    <3>1. kept # <<>>
      BY <1>2, <1>4
    <3> QED
      BY <1>4, <3>1 DEF PairAssistant
  <2>8. others \o kept = m.blocks
    <3>1. InOrder(m)
      BY ShapeOf
    <3> QED
      BY <1>2, <3>1 DEF InOrder, CallsOf
  <2> HIDE DEF answer, kept, calls, others
  <2>9. IsSequence(answer) /\ Len(answer) = Len(calls)
    BY <2>5, <2>6, TableIsSequence
  <2>10. \A j \in 1..Len(calls) : answer[j] = r[j]
    <3> TAKE j \in 1..Len(calls)
    <3>1. r[j] \in ToSet(r)
      BY <2>4, <2>5 DEF ToSet
    <3>2. ResultFor(results, r[j].id) = r[j]
      BY <1>1, <2>3, <3>1, OnlyAnswer
    <3> QED
      BY <2>4, <2>6, <3>2
  <2>11. answer = r
    BY <2>3, <2>4, <2>9, <2>10, SameSequence
  <2>12. PairAssistant(m, results) = <<m, Message("user", r)>>
    BY <1>0, <2>7, <2>8, <2>11
  <2> QED
    BY <1>4, <2>12 DEF r, CallsOf, calls
<1> QED
  BY <1>3, <1>4

\* A user message: its results were there already.
LEMMA UserRegained ==
  ASSUME NEW M, AreMessages(M), WellFormed(M), Filled(M),
         NEW n \in Nat, n + 1 \in 1..Len(M), M[n + 1].role = "user",
         NEW out, Regained(out, M, n)
  PROVE  LET kept == Except(M[n + 1].blocks, "tool_result")
         IN IF kept = <<>> THEN Regained(out, M, n + 1)
            ELSE Regained(Merged(out, Message("user", kept)), M, n + 1)
<1> DEFINE m    == M[n + 1]
           kept == Except(m.blocks, "tool_result")
           r    == ResultsOf(m)
           x    == Message("user", kept)
           due  == n # 0 /\ CallsOf(M[n]) # <<>>
<1>0. IsSequence(M) /\ Len(M) \in Nat /\ IsMessage(m) /\ IsSequence(m.blocks) /\ m.blocks # <<>>
      /\ m = Message("user", m.blocks) /\ Lacks(m.blocks, "tool_use") /\ (n + 1) - 1 = n /\ n + 1 # 0
  BY SequenceLen DEF AreMessages, IsMessage, Filled
<1>1. m.blocks = r \o kept /\ IdSeq(r) = Due(M, n)
  BY <1>0, ShapeOf DEF InOrder
<1>2. CallsOf(m) = <<>>
  BY <1>0, NoneOfKind DEF CallsOf
<1>3. /\ IsSequence(kept) /\ ToSet(kept) = {b \in ToSet(m.blocks) : b.kind # "tool_result"}
      /\ IsSequence(r)
  BY <1>0, Filters DEF ResultsOf
<1>4. x.role = "user" /\ x.blocks = kept /\ x = Message(x.role, x.blocks)
  BY MessageFields
<1>5. /\ AreMessages(out) /\ Len(out) = (IF due THEN n + 1 ELSE n)
      /\ \A i \in 1..n : out[i] = M[i]
      /\ due => out[n + 1] = Message("user", r)
  BY DEF Regained
<1>6. SUFFICES ASSUME NEW next, AreMessages(next), Len(next) = n + 1, (\A i \in 1..n : next[i] = M[i]), next[n + 1] = m
               PROVE  Regained(next, M, n + 1)
  <2> HIDE DEF kept, x
  <2>1. IsMessage(x)
    <3>1. Lacks(kept, "tool_use")
      BY <1>0, <1>3 DEF Lacks
    <3> QED
      BY <1>3, <1>4, <3>1 DEF IsMessage
  <2>2. CASE due /\ kept = <<>>
    <3>1. m.blocks = r
      BY <1>1, <1>3, <2>2, EmptyConcatenation
    <3>2. out[n + 1] = m
      BY <1>0, <1>5, <2>2, <3>1
    <3>3. Regained(out, M, n + 1)
      BY <1>5, <1>6, <2>2, <3>2
    <3> QED
      BY <2>2, <3>3 DEF kept
  <2>3. CASE due /\ kept # <<>>
    <3> DEFINE y == Merged(out, x)
               l == Len(out)
    <3>1. l = n + 1 /\ l # 0 /\ out[l] = Message("user", r) /\ l - 1 = n
      BY <1>5, <2>3
    <3>2. out[l].role = x.role /\ out[l].blocks = r
      BY <1>4, <3>1, MessageFields
    <3>3. /\ AreMessages(y) /\ Len(y) = l /\ \A i \in 1..(l - 1) : y[i] = out[i]
          /\ y[l] = Message(x.role, out[l].blocks \o x.blocks)
      BY <1>5, <2>1, <3>1, <3>2, MergedTogether
    <3>4. y[l] = m
      BY <1>0, <1>1, <1>4, <3>2, <3>3
    <3> HIDE DEF y
    <3>5. AreMessages(y) /\ Len(y) = n + 1 /\ (\A i \in 1..n : y[i] = M[i]) /\ y[n + 1] = m
      BY <1>5, <3>1, <3>3, <3>4
    <3>6. Regained(y, M, n + 1)
      BY <1>6, <3>5
    <3> QED
      BY <2>3, <3>6 DEF kept, x, y
  <2>4. CASE ~due
    <3> DEFINE y == Merged(out, x)
    <3>1. r = <<>>
      <4>1. Due(M, n) = <<>>
        BY <2>4, NoIds DEF Due
      <4> QED
        BY <1>1, <1>3, <4>1, NoIds
    <3>2. kept = m.blocks
      BY <1>1, <1>3, <3>1, EmptyConcatenation
    <3>3. x = m /\ kept # <<>>
      BY <1>0, <1>4, <3>2
    <3>4. Len(out) = n
      BY <1>5, <2>4
    <3>5. Len(out) = 0 \/ out[Len(out)].role # x.role
      <4>1. CASE n = 0
        BY <3>4, <4>1
      <4>2. CASE n # 0
        <5>1. n + 1 > 1 /\ n \in 1..n
          BY <4>2
        <5>2. M[n + 1].role # M[n].role
          BY <1>0, <5>1, ShapeOf
        <5> QED
          BY <1>5, <3>3, <3>4, <5>1, <5>2
      <4> QED
        BY <4>1, <4>2
    <3>6. AreMessages(y) /\ Len(y) = Len(out) + 1 /\ (\A i \in 1..Len(out) : y[i] = out[i]) /\ y[Len(out) + 1] = x
      BY <1>5, <2>1, <3>5, MergedApart
    <3> HIDE DEF y
    <3>7. AreMessages(y) /\ Len(y) = n + 1 /\ (\A i \in 1..n : y[i] = M[i]) /\ y[n + 1] = m
      BY <1>5, <3>3, <3>4, <3>6
    <3>8. Regained(y, M, n + 1)
      BY <1>6, <3>7
    <3> QED
      BY <3>3, <3>8 DEF kept, x, y
  <2> QED
    BY <2>2, <2>3, <2>4
<1>7. \A i \in 1..(n + 1) : i \in 1..n \/ i = n + 1
  OBVIOUS
<1> HIDE DEF m, kept, r, x, due
<1>8. CallsOf(M[n + 1]) = <<>>
  BY <1>2 DEF m
<1>9. \A i \in 1..(n + 1) : next[i] = M[i]
  BY <1>6, <1>7 DEF m
<1> QED
  BY <1>6, <1>8, <1>9 DEF Regained

\* An assistant message comes behind a user's; its answers come behind it.
LEMMA AssistantRegained ==
  ASSUME NEW M, AreMessages(M), WellFormed(M),
         NEW n \in Nat, n + 1 \in 1..Len(M), M[n + 1].role = "assistant",
         NEW out, Regained(out, M, n)
  PROVE  LET m == M[n + 1]
             u == Message("user", ResultsOf(M[n + 2]))
         IN /\ CallsOf(m) = <<>> => Regained(Merged(out, m), M, n + 1)
            /\ CallsOf(m) # <<>> => IsMessage(u) /\ Regained(Merged(Merged(out, m), u), M, n + 1)
<1> DEFINE m   == M[n + 1]
           y   == Merged(out, m)
           r   == ResultsOf(M[n + 2])
           u   == Message("user", r)
           due == n # 0 /\ CallsOf(M[n]) # <<>>
           z   == Merged(y, u)
<1>0. /\ IsSequence(M) /\ Len(M) \in Nat /\ IsMessage(m) /\ (n + 1) - 1 = n /\ n + 1 # 0
      /\ \A i \in 1..Len(M) : IsMessage(M[i])
  BY SequenceLen DEF AreMessages
<1>1. /\ AreMessages(out) /\ Len(out) = (IF due THEN n + 1 ELSE n)
      /\ \A i \in 1..n : out[i] = M[i]
  BY DEF Regained
<1>2. n # 0 => M[n].role = "user"
  <2>1. ASSUME n # 0 PROVE M[n].role = "user"
    <3>1. n + 1 > 1 /\ n \in 1..Len(M)
      BY <1>0, <2>1
    <3>2. M[n + 1].role # M[n].role
      BY <1>0, <3>1, ShapeOf
    <3> QED
      BY <1>0, <3>1, <3>2 DEF IsMessage
  <2> QED
    BY <2>1
<1>3. ~due
  <2>1. ASSUME due PROVE FALSE
    <3>1. n \in 1..Len(M) /\ IsMessage(M[n])
      BY <1>0, <2>1
    <3>2. CallsOf(M[n]) = <<>>
      BY <1>2, <2>1, <3>1, NoneOfKind DEF CallsOf, IsMessage
    <3> QED
      BY <2>1, <3>2
  <2> QED
    BY <2>1
<1>4. Len(out) = n
  BY <1>1, <1>3
<1>5. Len(out) = 0 \/ out[Len(out)].role # m.role
  <2>1. n # 0 => n \in 1..n
    OBVIOUS
  <2> QED
    BY <1>1, <1>2, <1>4, <2>1
<1>6. AreMessages(y) /\ Len(y) = n + 1 /\ (\A i \in 1..n : y[i] = out[i]) /\ y[n + 1] = m
  BY <1>0, <1>1, <1>4, <1>5, MergedApart
<1>7. \A i \in 1..(n + 1) : i \in 1..n \/ i = n + 1
  OBVIOUS
<1> HIDE DEF y
<1>8. \A i \in 1..(n + 1) : y[i] = M[i]
  BY <1>1, <1>6, <1>7
<1>9. CallsOf(m) = <<>> => Regained(y, M, n + 1)
  BY <1>6, <1>8 DEF Regained
<1>10. ASSUME CallsOf(m) # <<>> PROVE IsMessage(u) /\ Regained(z, M, n + 1)
  <2>1. n + 2 \in 1..Len(M) /\ (n + 1) + 1 = n + 2
    <3>1. n + 1 # Len(M)
      BY <1>10, ShapeOf
    <3> QED
      BY <1>0, <3>1
  <2>2. IsSequence(r) /\ Lacks(r, "tool_use")
    <3>1. IsSequence(M[n + 2].blocks)
      BY <1>0, <2>1 DEF IsMessage
    <3>2. IsSequence(r) /\ ToSet(r) = {b \in ToSet(M[n + 2].blocks) : b.kind = "tool_result"}
      BY <3>1, Filters DEF ResultsOf
    <3> QED
      BY <3>2 DEF Lacks
  <2>3. u.role = "user" /\ u.blocks = r /\ u = Message(u.role, u.blocks)
    BY MessageFields
  <2> HIDE DEF r, u
  <2>4. IsMessage(u)
    BY <2>2, <2>3 DEF IsMessage
  <2>5. y[Len(y)].role # u.role
    BY <1>6, <2>3
  <2>6. AreMessages(z) /\ Len(z) = Len(y) + 1 /\ (\A i \in 1..Len(y) : z[i] = y[i]) /\ z[Len(y) + 1] = u
    BY <1>6, <2>4, <2>5, MergedApart
  <2> HIDE DEF z, m
  <2>7. Len(z) = (n + 1) + 1 /\ (\A i \in 1..(n + 1) : z[i] = M[i]) /\ z[(n + 1) + 1] = u
    BY <1>6, <1>8, <2>6
  <2>8. CallsOf(M[n + 1]) # <<>> /\ u = Message("user", ResultsOf(M[(n + 1) + 1]))
    BY <1>10, <2>1 DEF m, u, r
  <2>9. Regained(z, M, n + 1)
    BY <1>0, <2>6, <2>7, <2>8 DEF Regained
  <2> QED
    BY <2>4, <2>9
<1> QED
  BY <1>9, <1>10 DEF y, z

\* Pairing takes well-formed messages apart, and the merge behind it puts them together again.
LEMMA PairingUndone ==
  ASSUME NEW M, AreMessages(M), WellFormed(M), Filled(M),
         Cardinality(IdsOf(OfKind(Blocks(M), "tool_use"))) = Len(OfKind(Blocks(M), "tool_use"))
  PROVE  MergeSameRole(PairToolCalls(M)) = M
<1> DEFINE results == Results(M)
           Piece(m) == IF m.role = "assistant" THEN PairAssistant(m, results) ELSE StripToolResults(m)
           t == [i \in DOMAIN M |-> Piece(M[i])]
<1>0. IsSequence(M) /\ DOMAIN M = 1..Len(M) /\ Len(M) \in Nat
      /\ \A i \in 1..Len(M) : IsMessage(M[i]) /\ M[i].role \in {"user", "assistant"}
  BY SequenceDomain DEF AreMessages, IsMessage
<1>1. IsSequence(results) /\ Every(results, "tool_result")
  <2>1. IsSequence(Blocks(M))
    BY BlocksAreSequence
  <2>2. IsSequence(results) /\ ToSet(results) = {b \in ToSet(Blocks(M)) : b.kind = "tool_result"}
    BY <2>1, Filters DEF Results
  <2> QED
    BY <2>2 DEF Every
<1>2. OnceEach(results) /\ IdsOf(results) = IdsOf(OfKind(Blocks(M), "tool_use"))
  BY AnswersOnce
<1>3. results = Results(M)
  OBVIOUS
<1>4. PairToolCalls(M) = FlattenSeq(t)
  BY DEF PairToolCalls
<1> HIDE DEF results
<1>5. \A i \in 1..Len(M) : AreMessages(Piece(M[i]))
  <2> TAKE i \in 1..Len(M)
  <2>1. IsMessage(M[i]) /\ M[i].role \in {"user", "assistant"}
    BY <1>0
  <2>2. Paired(Piece(M[i]))
    BY <1>1, <2>1, AssistantPaired, UserPaired
  <2> QED
    BY <2>2 DEF Paired
<1>6. \A m : /\ m.role = "assistant" => Piece(m) = PairAssistant(m, results)
             /\ m.role = "user" => Piece(m) = StripToolResults(m)
  OBVIOUS
<1> HIDE DEF Piece
<1>7. DOMAIN t = 1..Len(M) /\ t = [i \in DOMAIN t |-> t[i]]
      /\ \A i \in 1..Len(M) : t[i] = Piece(M[i])
  BY <1>0
<1> HIDE DEF t
<1>8. IsSequence(t) /\ Len(t) = Len(M) /\ \A i \in 1..Len(t) : IsSequence(t[i])
  <2>1. IsSequence(t) /\ Len(t) = Len(M)
    BY <1>0, <1>7, TableIsSequence
  <2> QED
    BY <1>5, <1>7, <2>1 DEF AreMessages
<1>9. PICK f : Flattens(f, t) /\ FlattenSeq(t) = f[Len(t)]
  BY <1>8, FlattenIs
<1> DEFINE S == {n \in Nat : n <= Len(M) => AreMessages(f[n]) /\ Regained(MergeSameRole(f[n]), M, n)}
<1>10. 0 \in S
  <2>1. f[0] = <<>> /\ MergeSameRole(<<>>) = <<>>
    BY <1>9, NothingMerged DEF Flattens
  <2>2. AreMessages(<<>>) /\ Regained(<<>>, M, 0)
    BY ShortSequences DEF AreMessages, Regained
  <2> QED
    BY <2>1, <2>2
<1>11. ASSUME NEW n \in Nat, n \in S PROVE n + 1 \in S
  <2> SUFFICES ASSUME n + 1 <= Len(M)
               PROVE  AreMessages(f[n + 1]) /\ Regained(MergeSameRole(f[n + 1]), M, n + 1)
    OBVIOUS
  <2> DEFINE m    == M[n + 1]
             a    == f[n]
             b    == MergeSameRole(a)
             c    == f[n + 1]
             kept == Except(m.blocks, "tool_result")
             x    == Message("user", kept)
             u    == Message("user", ResultsOf(M[n + 2]))
  <2>0. n + 1 \in 1..Len(M) /\ n + 1 \in 1..Len(t) /\ (n + 1) - 1 = n /\ (n + 1) + 1 = n + 2
    BY <1>0, <1>8
  <2>1. AreMessages(a) /\ Regained(b, M, n) /\ IsSequence(a)
    BY <1>0, <1>11, <2>0 DEF AreMessages
  <2>2. c = a \o t[n + 1] /\ t[n + 1] = Piece(m) /\ AreMessages(t[n + 1])
    BY <1>5, <1>7, <1>9, <2>0 DEF Flattens
  <2>3. IsMessage(m) /\ m.role \in {"user", "assistant"}
    BY <1>0, <2>0
  <2>4. CASE m.role = "user"
    <3>1. t[n + 1] = StripToolResults(m)
      BY <1>6, <2>2, <2>4
    <3>2. CASE kept = <<>>
      <4>1. t[n + 1] = <<>>
        BY <3>1, <3>2 DEF StripToolResults
      <4>2. c = a
        BY <2>1, <2>2, <4>1, EmptyConcatenation
      <4>3. Regained(b, M, n + 1)
        BY <2>0, <2>1, <2>4, <3>2, UserRegained
      <4> QED
        BY <2>1, <4>2, <4>3
    <3>3. CASE kept # <<>>
      <4>1. t[n + 1] = <<x>>
        BY <2>4, <3>1, <3>3 DEF StripToolResults
      <4>2. IsMessage(x)
        <5> HIDE DEF x
        <5>1. Len(<<x>>) = 1 /\ <<x>>[1] = x
          BY ShortSequences
        <5>2. AreMessages(<<x>>)
          BY <2>2, <4>1
        <5> QED
          BY <5>1, <5>2 DEF AreMessages
      <4>3. Regained(Merged(b, x), M, n + 1)
        BY <2>0, <2>1, <2>4, <3>3, UserRegained
      <4> HIDE DEF x
      <4>4. c = a \o <<x>>
        BY <2>2, <4>1
      <4>5. AreMessages(a \o <<x>>) /\ MergeSameRole(a \o <<x>>) = Merged(MergeSameRole(a), x)
        BY <2>1, <4>2, MergeOneMore
      <4> QED
        BY <4>3, <4>4, <4>5
    <3> QED
      BY <3>2, <3>3
  <2>5. CASE m.role = "assistant"
    <3>1. t[n + 1] = PairAssistant(m, results)
      BY <1>6, <2>2, <2>5
    <3>2. PairAssistant(m, results) = IF CallsOf(m) = <<>> THEN <<m>> ELSE <<m, u>>
      <4> DEFINE i == n + 1
      <4>1. i \in 1..Len(M) /\ M[i].role = "assistant"
        BY <2>0, <2>5
      <4> HIDE DEF i
      <4>2. PairAssistant(M[i], results) =
              IF CallsOf(M[i]) = <<>> THEN <<M[i]>> ELSE <<M[i], Message("user", ResultsOf(M[i + 1]))>>
        BY <1>2, <1>3, <4>1, PairAgain
      <4> QED
        BY <2>0, <4>2 DEF i
    <3>3. /\ CallsOf(m) = <<>> => Regained(Merged(b, m), M, n + 1)
          /\ CallsOf(m) # <<>> => IsMessage(u) /\ Regained(Merged(Merged(b, m), u), M, n + 1)
      BY <2>0, <2>1, <2>5, AssistantRegained
    <3> HIDE DEF m, u
    <3>4. AreMessages(a \o <<m>>) /\ MergeSameRole(a \o <<m>>) = Merged(MergeSameRole(a), m)
      BY <2>1, <2>3, MergeOneMore
    <3>5. CASE CallsOf(m) = <<>>
      <4>1. c = a \o <<m>>
        BY <2>2, <3>1, <3>2, <3>5
      <4> QED
        BY <3>3, <3>4, <3>5, <4>1
    <3>6. CASE CallsOf(m) # <<>>
      <4> DEFINE d == a \o <<m>>
                 p == <<m>>
                 q == <<u>>
      <4>1. c = a \o (p \o q)
        BY <2>2, <3>1, <3>2, <3>6, TwoInARow
      <4>2. IsSequence(p) /\ IsSequence(q) /\ IsSequence(a)
        BY <2>1, ShortSequences
      <4>3. (a \o p) \o q = a \o (p \o q)
        <5> HIDE DEF p, q, a
        <5> QED
          BY ONLY <4>2, ConcatenationAssociates
      <4>4. c = d \o <<u>>
        BY <4>1, <4>3
      <4>5. IsMessage(u) /\ AreMessages(d) /\ MergeSameRole(d) = Merged(b, m)
            /\ Regained(Merged(Merged(b, m), u), M, n + 1)
        BY <3>3, <3>4, <3>6
      <4> HIDE DEF d
      <4>6. AreMessages(d \o <<u>>) /\ MergeSameRole(d \o <<u>>) = Merged(MergeSameRole(d), u)
        BY <4>5, MergeOneMore
      <4> QED
        BY <4>4, <4>5, <4>6
    <3> QED
      BY <3>5, <3>6
  <2> QED
    BY <2>3, <2>4, <2>5
<1> HIDE DEF S
<1>12. Len(M) \in S
  BY <1>0, <1>10, <1>11, Induction
<1> DEFINE z == MergeSameRole(f[Len(M)])
<1>13. Regained(z, M, Len(M))
  BY <1>0, <1>12 DEF S
<1>14. Len(M) = 0 \/ CallsOf(M[Len(M)]) = <<>>
  <2>1. Len(M) # 0 => Len(M) \in 1..Len(M)
    BY <1>0
  <2> QED
    BY <2>1, ShapeOf
<1>15. AreMessages(z) /\ Len(z) = Len(M) /\ \A i \in 1..Len(M) : z[i] = M[i]
  BY <1>13, <1>14 DEF Regained
<1> HIDE DEF z
<1>16. z = M
  BY <1>0, <1>15, SameSequence DEF AreMessages
<1> QED
  BY <1>4, <1>8, <1>9, <1>16 DEF z

---------------------------------------------------------------------------
(* What the envelope is made of. *)

Acc(o, u, r, w) == [out |-> o, user |-> u, reloc |-> r, warns |-> w]

\* A state of the conversion of a user message, by its parts.
IsAcc(acc) == acc = Acc(acc.out, acc.user, acc.reloc, acc.warns)

UserSteps(f, m, names) ==
  /\ f[0] = Acc(<<>>, <<>>, <<>>, {})
  /\ \A n \in 1..Len(m.blocks) : f[n] = UserBlock(f[n - 1], m.blocks[n], names)

\* UserBlocks, by the table of what it has after each block.
LEMMA UserBlocksAre ==
  ASSUME NEW m, IsSequence(m.blocks), NEW names
  PROVE  \E f : UserSteps(f, m, names) /\ UserBlocks(m, names) = FlushUser(f[Len(m.blocks)])
<1> DEFINE s == m.blocks
           e == [out |-> <<>>, user |-> <<>>, reloc |-> <<>>, warns |-> {}]
           F(f, k) == f = [n \in 0..k |-> IF n = 0 THEN e ELSE UserBlock(f[n - 1], s[n], names)]
           S == {k \in Nat : \E f : F(f, k)}
<1> HIDE DEF e
<1>1. 0 \in S
  <2> DEFINE f == [n \in 0..0 |-> e]
  <2>1. F(f, 0)
    OBVIOUS
  <2> QED
    BY <2>1
<1>2. ASSUME NEW k \in Nat, k \in S PROVE k + 1 \in S
  <2>1. PICK f : F(f, k)
    BY <1>2
  <2> DEFINE g == [n \in 0..(k + 1) |-> IF n = k + 1 THEN UserBlock(f[k], s[k + 1], names) ELSE f[n]]
  <2>2. \A n \in 0..k : f[n] = IF n = 0 THEN e ELSE UserBlock(f[n - 1], s[n], names)
    BY <2>1
  <2>3. \A n \in 0..(k + 1) : g[n] = IF n = 0 THEN e ELSE UserBlock(g[n - 1], s[n], names)
    BY <2>2
  <2>4. g = [n \in 0..(k + 1) |-> g[n]]
    OBVIOUS
  <2> HIDE DEF g
  <2>5. F(g, k + 1)
    BY <2>3, <2>4
  <2> QED
    BY <2>5
<1> HIDE DEF S
<1>3. Len(s) \in S /\ Len(s) \in Nat
  <2>1. Len(s) \in Nat
    BY SequenceLen
  <2> QED
    BY <1>1, <1>2, <2>1, Induction
<1> DEFINE f == CHOOSE f : F(f, Len(s))
<1>4. F(f, Len(s))
  BY <1>3 DEF S
<1>5. UserBlocks(m, names) = FlushUser(f[Len(s)])
  <2>1. f = CHOOSE g : g = [n \in 0..Len(m.blocks) |->
                              IF n = 0 THEN [out |-> <<>>, user |-> <<>>, reloc |-> <<>>, warns |-> {}]
                              ELSE UserBlock(g[n - 1], m.blocks[n], names)]
    BY DEF e
  <2> HIDE DEF f
  <2> QED
    BY <2>1 DEF UserBlocks
<1> HIDE DEF f
<1>6. f[0] = e /\ \A n \in 1..Len(s) : f[n] = UserBlock(f[n - 1], s[n], names)
  BY <1>4, <1>3
<1> QED
  BY <1>5, <1>6 DEF UserSteps, Acc, e

\* What has gone out, and which images still wait, once the user segment is sent.
OutAfter(o, u, r)   == IF u = <<>> THEN o ELSE Append(o, CcMessage("user", r \o u))
RelocAfter(u, r)    == IF u = <<>> THEN r ELSE <<>>
ToolMessage(b, names) == CcMessage("tool", <<[Part(b) EXCEPT !.name = names[b.id]]>>)

\* What sending the user segment does.
LEMMA FlushIs ==
  \A o, u, r, w : FlushUser(Acc(o, u, r, w)) = Acc(OutAfter(o, u, r), <<>>, RelocAfter(u, r), w)
<1> TAKE o, u, r, w
<1> DEFINE acc == Acc(o, u, r, w)
           c == CcMessage("user", r \o u)
           p == Append(o, c)
<1>1. acc = [out |-> o, user |-> u, reloc |-> r, warns |-> w]
  BY DEF Acc
<1>2. CASE u = <<>>
  BY <1>1, <1>2 DEF FlushUser, Acc, OutAfter, RelocAfter
<1>3. CASE u # <<>>
  <2>1. acc.user # <<>> /\ acc.out = o /\ CcMessage("user", acc.reloc \o acc.user) = c
    BY <1>1, <1>3
  <2>2. FlushUser(acc) = [acc EXCEPT !.out = p, !.user = <<>>, !.reloc = <<>>]
    BY <2>1 DEF FlushUser
  <2>3. OutAfter(o, u, r) = p /\ RelocAfter(u, r) = <<>>
    BY <1>3 DEF OutAfter, RelocAfter
  <2> HIDE DEF p, acc
  <2>4. FlushUser(acc) = [out |-> p, user |-> <<>>, reloc |-> <<>>, warns |-> w]
    BY <1>1, <2>2
  <2> QED
    BY <2>3, <2>4 DEF Acc, acc
<1> QED
  BY <1>2, <1>3

\* What a block of a user message does.
LEMMA UserBlockIs ==
  ASSUME NEW acc, IsAcc(acc), NEW b, NEW names
  PROVE  /\ b.kind \in {"text", "image"} =>
              UserBlock(acc, b, names) = Acc(acc.out, Append(acc.user, Part(b)), acc.reloc, acc.warns)
         /\ b.kind = "tool_result" /\ b.id \in DOMAIN names =>
              UserBlock(acc, b, names) =
                Acc(Append(OutAfter(acc.out, acc.user, acc.reloc), ToolMessage(b, names)), <<>>,
                    RelocAfter(acc.user, acc.reloc) \o Relocated(b), acc.warns)
         /\ b.kind = "tool_result" /\ b.id \notin DOMAIN names =>
              UserBlock(acc, b, names) =
                Acc(OutAfter(acc.out, acc.user, acc.reloc), <<>>, RelocAfter(acc.user, acc.reloc),
                    acc.warns \cup {<<"orphan", b.id>>})
         /\ b.kind \notin {"text", "image", "tool_result"} =>
              UserBlock(acc, b, names) =
                Acc(acc.out, acc.user, acc.reloc, acc.warns \cup {<<"kind", b.kind>>})
<1> DEFINE o == acc.out
           u == acc.user
           r == acc.reloc
           w == acc.warns
           new == UserBlock(acc, b, names)
           o2  == OutAfter(o, u, r)
           r2  == RelocAfter(u, r)
           fl  == FlushUser(acc)
<1>0. acc = Acc(o, u, r, w)
  BY DEF IsAcc
<1> HIDE DEF o, u, r, w
<1>1. fl = Acc(o2, <<>>, r2, w)
  BY <1>0, FlushIs
<1>2. ASSUME b.kind \in {"text", "image"} PROVE new = Acc(o, Append(u, Part(b)), r, w)
  <2>1. new = [acc EXCEPT !.user = Append(@, Part(b))]
    BY <1>2 DEF UserBlock
  <2> DEFINE y == Append(u, Part(b))
  <2>2. acc.user = u
    BY DEF u
  <2>3. new = [acc EXCEPT !.user = y]
    BY <2>1, <2>2
  <2> HIDE DEF y
  <2>4. new = Acc(o, y, r, w)
    BY <1>0, <2>3 DEF Acc
  <2> QED
    BY <2>4 DEF y
<1>3. ASSUME b.kind = "tool_result", b.id \in DOMAIN names
      PROVE  new = Acc(Append(o2, ToolMessage(b, names)), <<>>, r2 \o Relocated(b), w)
  <2> DEFINE c == ToolMessage(b, names)
             l == Relocated(b)
  <2>1. new = [fl EXCEPT !.out = Append(@, c), !.reloc = @ \o l]
    BY <1>3 DEF UserBlock, ToolMessage
  <2> HIDE DEF c, l, fl, o2, r2, new
  <2>2. new = Acc(Append(o2, c), <<>>, r2 \o l, w)
    BY <1>1, <2>1 DEF Acc
  <2> QED
    BY <2>2 DEF c, l
<1>4. ASSUME b.kind = "tool_result", b.id \notin DOMAIN names
      PROVE  new = Acc(o2, <<>>, r2, w \cup {<<"orphan", b.id>>})
  <2>1. new = [fl EXCEPT !.warns = @ \cup {<<"orphan", b.id>>}]
    BY <1>4 DEF UserBlock
  <2> HIDE DEF fl, o2, r2, new
  <2> QED
    BY <1>1, <2>1 DEF Acc
<1>5. ASSUME b.kind \notin {"text", "image", "tool_result"} PROVE new = Acc(o, u, r, w \cup {<<"kind", b.kind>>})
  <2>1. new = [acc EXCEPT !.warns = @ \cup {<<"kind", b.kind>>}]
    BY <1>5 DEF UserBlock
  <2>2. acc.warns = w
    BY DEF w
  <2> QED
    BY <1>0, <2>1, <2>2 DEF Acc
<1> QED
  BY <1>2, <1>3, <1>4, <1>5 DEF o, u, r, w

\* A user message's conversion warns of kinds, and of results whose call is not known.
LEMMA UserWarns ==
  ASSUME NEW m, IsSequence(m.blocks), NEW names, NEW w \in ConvertUser(m, names).warns
  PROVE  w[1] = "kind" \/ \E b \in ToSet(m.blocks) : b.kind = "tool_result" /\ b.id \notin DOMAIN names
<1> DEFINE s == m.blocks
           Orphaned == \E b \in ToSet(s) : b.kind = "tool_result" /\ b.id \notin DOMAIN names
           W == {v \in {w} : v[1] = "kind" \/ Orphaned}
<1>0. Len(s) \in Nat /\ DOMAIN s = 1..Len(s)
  BY SequenceDomain
<1>1. PICK f : UserSteps(f, m, names) /\ UserBlocks(m, names) = FlushUser(f[Len(s)])
  BY UserBlocksAre
<1> DEFINE Fine(acc) == IsAcc(acc) /\ (w \in acc.warns => w[1] = "kind" \/ Orphaned)
           S == {n \in Nat : n <= Len(s) => Fine(f[n])}
<1>2. 0 \in S
  <2>1. f[0] = Acc(<<>>, <<>>, <<>>, {})
    BY <1>1 DEF UserSteps
  <2> QED
    BY <2>1 DEF IsAcc, Acc
<1>3. ASSUME NEW n \in Nat, n \in S PROVE n + 1 \in S
  <2> SUFFICES ASSUME n + 1 <= Len(s) PROVE Fine(f[n + 1])
    OBVIOUS
  <2> DEFINE acc == f[n]
             b   == s[n + 1]
             o == acc.out
             u == acc.user
             r == acc.reloc
             x == acc.warns
             new == f[n + 1]
             o2  == OutAfter(o, u, r)
             r2  == RelocAfter(u, r)
             o3  == Append(o2, ToolMessage(b, names))
             r3  == r2 \o Relocated(b)
             u3  == Append(u, Part(b))
  <2>1. n + 1 \in 1..Len(s) /\ (n + 1) - 1 = n /\ Fine(acc) /\ b \in ToSet(s)
    BY <1>0, <1>3 DEF ToSet
  <2>2. new = UserBlock(acc, b, names) /\ acc = Acc(o, u, r, x)
    BY <1>1, <2>1 DEF UserSteps, IsAcc
  <2> HIDE DEF acc, b, o, u, r, x, new
  <2>3. /\ b.kind \in {"text", "image"} => new = Acc(o, u3, r, x)
        /\ b.kind = "tool_result" /\ b.id \in DOMAIN names => new = Acc(o3, <<>>, r3, x)
        /\ b.kind = "tool_result" /\ b.id \notin DOMAIN names => new = Acc(o2, <<>>, r2, x \cup {<<"orphan", b.id>>})
        /\ b.kind \notin {"text", "image", "tool_result"} => new = Acc(o, u, r, x \cup {<<"kind", b.kind>>})
    <3>1. IsAcc(acc)
      BY <2>1
    <3> QED
      BY <2>2, <3>1, UserBlockIs DEF o, u, r, x
  <2>4. w \in x => w[1] = "kind" \/ Orphaned
    BY <2>1 DEF x
  <2> HIDE DEF o2, r2, o3, r3, u3
  <2>5. \A a1, a2, a3, a4 : IsAcc(Acc(a1, a2, a3, a4)) /\ Acc(a1, a2, a3, a4).warns = a4
    BY DEF IsAcc, Acc
  <2>6. \A y : <<"kind", y>>[1] = "kind"
    OBVIOUS
  <2>7. Fine(new)
    BY <2>1, <2>3, <2>4, <2>5, <2>6
  <2> QED
    BY <2>7 DEF new
<1> HIDE DEF S
<1>4. Fine(f[Len(s)])
  <2>1. Len(s) \in S
    BY <1>0, <1>2, <1>3, Induction
  <2> QED
    BY <1>0, <2>1 DEF S
<1> DEFINE a == f[Len(s)]
<1>5. FlushUser(a).warns = a.warns
  <2> HIDE DEF a
  <2>1. \A o, u, r, x : FlushUser(Acc(o, u, r, x)).warns = x /\ Acc(o, u, r, x).warns = x
    <3>1. \A o, u, r, x : Acc(o, u, r, x).warns = x
      BY DEF Acc
    <3> QED
      BY <3>1, FlushIs
  <2>2. a = Acc(a.out, a.user, a.reloc, a.warns)
    BY <1>4 DEF IsAcc, a
  <2> QED
    BY <2>1, <2>2
<1>6. ConvertUser(m, names).warns = UserBlocks(m, names).warns
  BY DEF ConvertUser
<1>7. w \in a.warns
  BY <1>1, <1>5, <1>6
<1> QED
  BY <1>4, <1>7

---------------------------------------------------------------------------
(* The envelope of a request. *)

Parsed(msgs, s) == IF s.replace THEN Stripped(msgs) ELSE msgs

ConvertOne(m, names, reasoning) ==
  IF m.role = "assistant" THEN ConvertAssistant(m, reasoning) ELSE ConvertUser(m, names)

\* t is the row of what the messages become, w that of what is said of them.
BuiltBy(t, w, msgs, need, s) ==
  /\ IsSequence(t) /\ Len(t) = Len(Parsed(msgs, s)) /\ Len(t) \in Nat
  /\ \A i \in 1..Len(t) :
       /\ t[i] = ConvertOne(Parsed(msgs, s)[i], ToolNames(Parsed(msgs, s)), s.reasoning).msgs
       /\ w[i] = ConvertOne(Parsed(msgs, s)[i], ToolNames(Parsed(msgs, s)), s.reasoning).warns
  /\ BuildCcRequest(msgs, need, s).msgs = SynthesizeCacheMarker(FlattenSeq(t), need \/ s.replace)
  /\ BuildCcRequest(msgs, need, s).warns = UNION {w[i] : i \in 1..Len(t)}

\* BuildCcRequest, by these rows.
LEMMA BuiltIs ==
  ASSUME NEW msgs, NEW need, NEW s, IsSequence(Parsed(msgs, s)) PROVE \E t, w : BuiltBy(t, w, msgs, need, s)
<1> DEFINE parsed == Parsed(msgs, s)
           names  == ToolNames(parsed)
           one    == [i \in DOMAIN parsed |-> ConvertOne(parsed[i], names, s.reasoning)]
           t      == [i \in DOMAIN one |-> one[i].msgs]
           w      == [i \in DOMAIN one |-> one[i].warns]
           built  == BuildCcRequest(msgs, need, s)
<1>0. DOMAIN parsed = 1..Len(parsed) /\ Len(parsed) \in Nat
  BY SequenceDomain
<1>1. /\ built.msgs = SynthesizeCacheMarker(FlattenSeq(t), need \/ s.replace)
      /\ built.warns = UNION {one[i].warns : i \in DOMAIN one}
  BY DEF BuildCcRequest, ConvertOne, Parsed
<1> HIDE DEF built, parsed, names
<1>2. DOMAIN one = 1..Len(parsed) /\ \A i \in 1..Len(parsed) : one[i] = ConvertOne(parsed[i], names, s.reasoning)
  BY <1>0
<1> HIDE DEF one
<1>3. DOMAIN t = 1..Len(parsed) /\ t = [i \in DOMAIN t |-> t[i]]
      /\ \A i \in 1..Len(parsed) : t[i] = one[i].msgs /\ w[i] = one[i].warns
  BY <1>2
<1> HIDE DEF t, w
<1>4. IsSequence(t) /\ Len(t) = Len(parsed)
  BY <1>0, <1>3, TableIsSequence
<1>5. built.warns = UNION {w[i] : i \in 1..Len(t)}
  BY <1>1, <1>2, <1>3, <1>4
<1>6. \A i \in 1..Len(t) : /\ t[i] = ConvertOne(parsed[i], names, s.reasoning).msgs
                           /\ w[i] = ConvertOne(parsed[i], names, s.reasoning).warns
  BY <1>2, <1>3, <1>4
<1>7. BuiltBy(t, w, msgs, need, s)
  BY <1>0, <1>1, <1>4, <1>5, <1>6 DEF BuiltBy, built, parsed, names
<1> QED
  BY <1>7

\* No messages make an empty envelope, and nothing is said of them.
LEMMA NothingBuilt ==
  ASSUME NEW need, NEW s
  PROVE  BuildCcRequest(<<>>, need, s).msgs = <<>> /\ BuildCcRequest(<<>>, need, s).warns = {}
<1> DEFINE e == <<>>
<1>0. IsSequence(e) /\ Len(e) = 0
  BY ShortSequences
<1>1. Parsed(e, s) = e
  <2>1. Stripped(e) = e
    BY DEF Stripped
  <2> QED
    BY <2>1 DEF Parsed
<1>2. FlattenSeq(e) = e
  BY NothingFlattened
<1> HIDE DEF e
<1>3. PICK t, w : BuiltBy(t, w, e, need, s)
  <2>1. IsSequence(Parsed(e, s))
    BY <1>0, <1>1
  <2> QED
    BY <2>1, BuiltIs
<1>3a. /\ IsSequence(t) /\ Len(t) = 0
       /\ BuildCcRequest(e, need, s).msgs = SynthesizeCacheMarker(FlattenSeq(t), need \/ s.replace)
       /\ BuildCcRequest(e, need, s).warns = UNION {w[i] : i \in 1..Len(t)}
  BY <1>0, <1>1, <1>3 DEF BuiltBy
<1>4. t = e
  BY <1>0, <1>3a, SameSequence
<1>5. \A n : SynthesizeCacheMarker(e, n) = e
  BY DEF SynthesizeCacheMarker, e
<1>6. UNION {w[i] : i \in 1..Len(t)} = {}
  BY <1>3a
<1> QED
  BY <1>2, <1>3a, <1>4, <1>5, <1>6 DEF e

Built == BuildCcRequest(messages, NeedsMarker, settings)
Said  == IF FromMessages THEN {} ELSE InboundWarnings(settings.endpoint, history) \cup Warnings(made)

\* What every step leaves: the envelope is that of the messages, and what was said of the items, the
\* repair and the envelope is all that is told.
RequestBuilt == HistoryRepaired /\ envelope = Built.msgs /\ warns = Said \cup Built.warns

\* A conversation starts with nothing built.
LEMMA StartBuilt == RequestsInit => RequestBuilt
<1> SUFFICES ASSUME RequestsInit PROVE RequestBuilt
  OBVIOUS
<1>1. HistoryRepaired /\ history = <<>> /\ made = <<>> /\ messages = <<>> /\ envelope = <<>> /\ warns = {}
  BY StartRepaired DEF RequestsInit
<1>2. Built.msgs = <<>> /\ Built.warns = {}
  BY <1>1, NothingBuilt DEF Built
<1>3. InboundWarnings(settings.endpoint, <<>>) = {}
  BY DEF InboundWarnings
<1>4. Warnings(<<>>) = {}
  <2> DEFINE e == <<>>
  <2>1. Results(e) = e /\ OfKind(Blocks(e), "tool_use") = e
    BY BlocksOfNone, FiltersOfNone DEF Results
  <2>2. DOMAIN e = {}
    OBVIOUS
  <2> HIDE DEF e
  <2>3. Declared(e) = {} /\ IdsOf(e) = {} /\ Duplicates(e) = {}
    BY <2>1, <2>2 DEF Declared, IdsOf, Duplicates
  <2>4. Warnings(e) = {}
    BY <2>1, <2>3 DEF Warnings, Orphans, Unanswered
  <2> QED
    BY <2>4 DEF e
<1>5. Said = {}
  BY <1>1, <1>3, <1>4 DEF Said
<1> QED
  BY <1>1, <1>2, <1>5 DEF RequestBuilt

\* A step resends a history, or adds a block to it, and runs the pipeline on what is made of it.
LEMMA StepsAre ==
  ASSUME RequestsNext
  PROVE  \/ ~FromMessages /\ \E m : Resend(m)
         \/ FromMessages /\ \E role, b : AddBlock(role, b)
<1>0. \A kind : ToolOutput(kind) => \E m : Resend(m)
  BY DEF ToolOutput
<1>1. CASE ChatMessage
  BY <1>1 DEF ChatMessage, FromMessages
<1>2. CASE ChatAssistant
  BY <1>2 DEF ChatAssistant, FromMessages
<1>3. CASE ChatTool
  BY <1>0, <1>3 DEF ChatTool, FromMessages
<1>4. CASE ResponsesMessage
  BY <1>4 DEF ResponsesMessage, FromMessages
<1>5. CASE ResponsesCall
  BY <1>5 DEF ResponsesCall, FromMessages
<1>6. CASE ResponsesOutput
  BY <1>0, <1>6 DEF ResponsesOutput, FromMessages
<1>7. CASE MessagesUser
  BY <1>7 DEF MessagesUser
<1>8. CASE MessagesAssistant
  BY <1>8 DEF MessagesAssistant
<1> QED
  BY <1>1, <1>2, <1>3, <1>4, <1>5, <1>6, <1>7, <1>8 DEF RequestsNext

\* Every step builds the request anew.
LEMMA StepBuilds == RequestBuilt /\ [RequestsNext]_requestVars => RequestBuilt'
<1> SUFFICES ASSUME RequestBuilt, [RequestsNext]_requestVars PROVE RequestBuilt'
  OBVIOUS
<1>0. HistoryRepaired'
  BY StepRepairs DEF RequestBuilt
<1>1. ASSUME NEW system, NEW said, RunPipeline(system, said)
      PROVE  settings' = settings /\ envelope' = Built'.msgs /\ warns' = said \cup Built'.warns
  <2>1. settings' = settings
    BY <1>1 DEF RunPipeline
  <2>2. Built' = BuildCcRequest(messages', NeedsMarker, settings)
    BY <2>1 DEF Built, NeedsMarker, FromMessages
  <2> QED
    BY <1>1, <2>1, <2>2 DEF RunPipeline
<1>2. ASSUME ~FromMessages, NEW m, Resend(m) PROVE RequestBuilt'
  <2> DEFINE said == InboundWarnings(settings.endpoint, history') \cup Warnings(made')
             system == SystemPrompt(history')
  <2>1. RunPipeline(system, said)
    BY <1>2 DEF Resend
  <2> HIDE DEF said, system
  <2>2. settings' = settings /\ envelope' = Built'.msgs /\ warns' = said \cup Built'.warns
    BY <1>1, <2>1
  <2>3. Said' = said
    BY <1>2, <2>2 DEF Said, FromMessages, said
  <2> QED
    BY <1>0, <2>2, <2>3 DEF RequestBuilt
<1>3. ASSUME FromMessages, NEW role, NEW b, AddBlock(role, b) PROVE RequestBuilt'
  <2>1. settings' = settings /\ envelope' = Built'.msgs /\ warns' = {} \cup Built'.warns
    BY <1>1, <1>3 DEF AddBlock
  <2>2. Said' = {}
    BY <1>3, <2>1 DEF Said, FromMessages
  <2> QED
    BY <1>0, <2>1, <2>2 DEF RequestBuilt
<1>4. CASE UNCHANGED requestVars
  <2>1. UNCHANGED <<settings, history, made, messages, envelope, warns>>
    BY <1>4 DEF requestVars
  <2>2. Built' = Built /\ Said' = Said
    BY <2>1 DEF Built, Said, NeedsMarker, FromMessages
  <2> QED
    BY <1>0, <2>1, <2>2 DEF RequestBuilt
<1> QED
  BY <1>2, <1>3, <1>4, StepsAre

\* What is told of a request is all that its conversion found to say, and its envelope is made of its
\* messages.
THEOREM RequestsBuilt == RequestsSpec => []RequestBuilt
<1>1. RequestsInit => RequestBuilt
  BY StartBuilt
<1>2. RequestBuilt /\ [RequestsNext]_requestVars => RequestBuilt'
  BY StepBuilds
<1> QED
  BY <1>1, <1>2, PTL DEF RequestsSpec

---------------------------------------------------------------------------
(* A legal history. *)

\* The conversions of the items warn of parts, calls, items, roles and empty messages only.
LEMMA InboundTells ==
  ASSUME NEW endpoint \in {"chat", "responses"}, NEW items, AreItems(endpoint, items),
         NEW w \in InboundWarnings(endpoint, items)
  PROVE  w[1] \in {"part", "call", "item", "role", "empty"}
<1> DEFINE Tag == {"part", "call", "item", "role", "empty"}
           Fine(W) == \A v \in W : v[1] \in Tag
<1>1. IsSequence(items) /\ DOMAIN items = 1..Len(items) /\ \A i \in 1..Len(items) : IsItem(endpoint, items[i])
  BY SequenceDomain DEF AreItems
<1>2. \A m, kinds : Fine(UnusableParts(m, kinds)) /\ Fine(UnpairableCalls(m))
  BY DEF UnusableParts, UnpairableCalls
<1>3. Fine({}) /\ \A V, W : Fine(V) /\ Fine(W) => Fine(V \cup W)
  OBVIOUS
<1>4. \A no : Fine({<<"role", no>>}) /\ Fine({<<"empty", no>>}) /\ Fine({<<"item", no>>})
  OBVIOUS
<1>5. \A m : Fine({<<"role", m.no>> : k \in {m.kind} \cap {"other"}})
  OBVIOUS
<1>6. \A W : Fine(W) => \A v \in W : v[1] \in Tag
  OBVIOUS
<1> HIDE DEF Fine
<1>7. ASSUME NEW m, m.kind \in KindsOf("chat") PROVE Fine(ChatWarnings(m))
  <2>1. Fine(ChatDropped(m))
    <3> DEFINE x == CASE m.kind = "system"            -> UnusableParts(m, {"text"})
                      [] m.kind \in {"user", "other"} -> UnusableParts(m, {"text", "image"})
                      [] m.kind = "assistant"         -> UnusableParts(m, {"thinking", "text"})
                      [] m.kind = "tool"              ->
                           IF ToolResult(m) = <<>> THEN {} ELSE UnusableParts(m, {"text", "image"})
    <3>1. ChatDropped(m) = UnpairableCalls(m) \cup x
      BY DEF ChatDropped
    <3>2. x = {} \/ \E kinds : x = UnusableParts(m, kinds)
      BY <1>7 DEF KindsOf
    <3> HIDE DEF x
    <3>3. Fine(x)
      BY <1>2, <1>3, <3>2
    <3> QED
      BY <1>2, <1>3, <3>1, <3>3
  <2> DEFINE b == {<<"role", m.no>> : k \in {m.kind} \cap {"other"}}
             c == IF m.kind \in {"user", "other", "assistant"} /\ ChatBlocks(m) = <<>> /\ ChatDropped(m) = {}
                  THEN {<<"empty", m.no>>} ELSE {}
  <2>2. Fine(b)
    BY <1>5
  <2>3. Fine(c)
    <3>1. c = {<<"empty", m.no>>} \/ c = {}
      OBVIOUS
    <3> HIDE DEF c
    <3> QED
      BY <1>3, <1>4, <3>1
  <2>4. ChatWarnings(m) = ChatDropped(m) \cup b \cup c
    BY DEF ChatWarnings
  <2> HIDE DEF b, c
  <2> QED
    BY <1>3, <2>1, <2>2, <2>3, <2>4
<1>8. ASSUME NEW m, m.kind \in KindsOf("responses") PROVE Fine(ResponsesWarnings(m))
  <2> DEFINE x == CASE m.kind = "unsupported" -> {<<"item", m.no>>}
                    [] m.kind = "user"        -> UnusableParts(m, {"text", "image"})
                    [] m.kind = "other"       -> {<<"role", m.no>>} \cup UnusableParts(m, {"text", "image"})
                    [] m.kind = "output"      ->
                         IF ToolResult(m) = <<>> THEN {} ELSE UnusableParts(m, {"text", "image"})
                    [] m.kind \in {"system", "assistant"} -> UnusableParts(m, {"text"})
                    [] m.kind \in {"call", "reasoning"}   -> {}
  <2>1. ResponsesWarnings(m) = UnpairableCalls(m) \cup x
    BY DEF ResponsesWarnings
  <2>2. \/ x = {} \/ x = {<<"item", m.no>>}
        \/ \E kinds : x = UnusableParts(m, kinds) \/ x = {<<"role", m.no>>} \cup UnusableParts(m, kinds)
    BY <1>8 DEF KindsOf
  <2> HIDE DEF x
  <2>3. Fine(x)
    BY <1>2, <1>3, <1>4, <2>2
  <2> QED
    BY <1>2, <1>3, <2>1, <2>3
<1>9. PICK i \in 1..Len(items) :
        w \in (IF endpoint = "chat" THEN ChatWarnings(items[i]) ELSE ResponsesWarnings(items[i]))
  BY <1>1 DEF InboundWarnings
<1>10. items[i].kind \in KindsOf(endpoint)
  BY <1>1 DEF IsItem
<1>11. CASE endpoint = "chat"
  BY <1>6, <1>7, <1>9, <1>10, <1>11
<1>12. CASE endpoint = "responses"
  BY <1>6, <1>8, <1>9, <1>10, <1>12
<1> QED
  BY <1>11, <1>12

\* Nothing is said of the pairing when each result is alone with its call.
LEMMA NothingToSay ==
  ASSUME NEW msgs, OnceEach(Results(msgs)), IsSequence(Results(msgs)),
         IdsOf(Results(msgs)) = IdsOf(OfKind(Blocks(msgs), "tool_use"))
  PROVE  Warnings(msgs) = {}
<1> DEFINE r == Results(msgs)
<1>0. DOMAIN r = 1..Len(r) /\ Len(r) \in Nat
  BY SequenceDomain
<1>1. Duplicates(r) = {}
  <2>1. \A i \in DOMAIN r : ~\E j \in 1..(i - 1) : r[j].id = r[i].id
    <3> TAKE i \in DOMAIN r
    <3>1. ASSUME NEW j \in 1..(i - 1), r[j].id = r[i].id PROVE FALSE
      <4>1. i \in 1..Len(r) /\ j \in 1..Len(r) /\ i # j
        BY <1>0
      <4> QED
        BY <3>1, <4>1 DEF OnceEach
    <3> QED
      BY <3>1
  <2> HIDE DEF r
  <2> QED
    BY <2>1 DEF Duplicates
<1>2. Declared(msgs) = IdsOf(r)
  BY DEF Declared
<1>3. Orphans(r, Declared(msgs)) = {} /\ Unanswered(msgs, r) = {}
  BY <1>2 DEF Orphans, Unanswered
<1> QED
  BY <1>1, <1>3 DEF Warnings

\* The id of a block is among the ids.
LEMMA IdFound == ASSUME NEW s, NEW b \in ToSet(s) PROVE b.id \in IdsOf(s)
BY DEF IdsOf, ToSet

\* Nor does the envelope say more than that a kind of block was left out, if every result has its call.
LEMMA EnvelopeTells ==
  ASSUME NEW msgs, AreMessages(msgs), NEW need, NEW s, s.replace = FALSE,
         \A b \in ToSet(Results(msgs)) : b.id \in Declared(msgs),
         NEW v \in BuildCcRequest(msgs, need, s).warns
  PROVE  v[1] = "kind"
<1> DEFINE names == ToolNames(msgs)
<1>0. IsSequence(msgs) /\ Len(msgs) \in Nat /\ Parsed(msgs, s) = msgs
  BY SequenceLen DEF AreMessages, Parsed
<1>1. PICK t, w : /\ Len(t) = Len(msgs)
                  /\ \A i \in 1..Len(t) : w[i] = ConvertOne(msgs[i], names, s.reasoning).warns
                  /\ BuildCcRequest(msgs, need, s).warns = UNION {w[i] : i \in 1..Len(t)}
  <2>1. IsSequence(Parsed(msgs, s))
    BY <1>0
  <2>2. PICK t, w : BuiltBy(t, w, msgs, need, s)
    BY <2>1, BuiltIs
  <2> QED
    BY <1>0, <2>2 DEF BuiltBy
<1>2. DOMAIN names = Declared(msgs)
  BY DEF ToolNames, Declared
<1> HIDE DEF names
<1>3. PICK i \in 1..Len(msgs) : v \in ConvertOne(msgs[i], names, s.reasoning).warns
  BY <1>1
<1> DEFINE m == msgs[i]
<1>4. IsMessage(m) /\ IsSequence(m.blocks)
  BY <1>3 DEF AreMessages, IsMessage
<1>5. CASE m.role = "assistant"
  <2>1. v \in ConvertAssistant(m, s.reasoning).warns
    BY <1>3, <1>5 DEF ConvertOne
  <2>2. ConvertAssistant(m, s.reasoning).warns = {<<"kind", kind>> : kind \in AssistantLost(m, s.reasoning)}
    BY DEF ConvertAssistant
  <2> QED
    BY <2>1, <2>2
<1>6. CASE m.role # "assistant"
  <2>1. v \in ConvertUser(m, names).warns
    BY <1>3, <1>6 DEF ConvertOne
  <2>2. v[1] = "kind" \/ \E b \in ToSet(m.blocks) : b.kind = "tool_result" /\ b.id \notin DOMAIN names
    BY <1>4, <2>1, UserWarns
  <2>3. ASSUME NEW b \in ToSet(m.blocks), b.kind = "tool_result" PROVE b.id \in DOMAIN names
    <3>1. b \in ToSet(Blocks(msgs))
      BY <2>3, BlocksFound
    <3>2. b \in ToSet(Results(msgs))
      BY <2>3, <3>1, BlocksAreSequence, Filters DEF Results
    <3> QED
      BY <1>2, <3>2
  <2> QED
    BY <2>2, <2>3
<1> QED
  BY <1>5, <1>6

\* What was legal once merged passes as it is, and nothing is said of its pairing.
LEMMA BuiltIsUntouched == RequestBuilt => LegalUntouched
<1> DEFINE merged == MergeSameRole(made)
           calls  == OfKind(Blocks(made), "tool_use")
           e      == settings.endpoint
<1> SUFFICES ASSUME RequestBuilt, ~FromMessages, WellFormed(merged), Cardinality(IdsOf(calls)) = Len(calls)
             PROVE  messages = merged /\ \A w \in warns : w[1] \notin {"duplicate", "orphan", "unanswered"}
  BY DEF LegalUntouched
<1>1. /\ e \in {"chat", "responses"} /\ AreItems(e, history)
      /\ made = Converted(e, history) /\ messages = RepairToolPairing(made)
      /\ warns = InboundWarnings(e, history) \cup Warnings(made) \cup Built.warns
  BY EndpointsAre DEF RequestBuilt, HistoryRepaired, FromMessages, Said
<1>2. settings.replace = FALSE
  BY <1>1 DEF RequestBuilt, HistoryRepaired, Settings, Configuration
<1>3. AreMessages(made) /\ Filled(made)
  BY <1>1, ConvertedAreMessages, ConvertedFilled
<1>4. AreMessages(merged) /\ Filled(merged) /\ Blocks(merged) = Blocks(made)
  BY <1>3, MergingKeepsMessages, MergingFills, MergingKeepsBlocks
<1>5. OfKind(Blocks(merged), "tool_use") = calls /\ Results(merged) = Results(made)
  BY <1>4 DEF Results
<1> HIDE DEF merged, calls
<1>6. MergeSameRole(PairToolCalls(merged)) = merged
  BY <1>4, <1>5, PairingUndone
<1>7. messages = merged
  BY <1>1, <1>6 DEF RepairToolPairing, merged
<1>8. OnceEach(Results(merged)) /\ IdsOf(Results(merged)) = IdsOf(calls) /\ IsSequence(Results(merged))
  <2>1. OnceEach(Results(merged)) /\ IdsOf(Results(merged)) = IdsOf(OfKind(Blocks(merged), "tool_use"))
    BY <1>4, <1>5, AnswersOnce
  <2>2. IsSequence(Results(merged))
    BY <1>4, BlocksAreSequence, Filters DEF Results
  <2> QED
    BY <1>5, <2>1, <2>2
<1>9. Warnings(made) = {}
  BY <1>5, <1>8, NothingToSay DEF calls
<1>10. ASSUME NEW w \in Built.warns PROVE w[1] = "kind"
  <2>1. \A b \in ToSet(Results(messages)) : b.id \in Declared(messages)
    <3>1. Declared(merged) = IdsOf(calls)
      BY <1>5 DEF Declared
    <3> QED
      BY <1>7, <1>8, <3>1, IdFound
  <2> QED
    BY <1>2, <1>4, <1>7, <1>10, <2>1, EnvelopeTells DEF Built
<1>11. \A w \in InboundWarnings(e, history) : w[1] \in {"part", "call", "item", "role", "empty"}
  BY <1>1, InboundTells
<1> QED
  BY <1>1, <1>7, <1>9, <1>10, <1>11

\* A Chat or Responses history that was well-formed once its messages were merged, and calls no id
\* twice, goes upstream as it is, and its client is told of no mistake
\* (TestRepairToolPairing_ValidSequenceUntouched, for every such history).
THEOREM LegalAlwaysUntouched == RequestsSpec => []LegalUntouched
<1>1. RequestsSpec => []RequestBuilt
  BY RequestsBuilt
<1>2. RequestBuilt => LegalUntouched
  BY BuiltIsUntouched
<1> QED
  BY <1>1, <1>2, PTL

---------------------------------------------------------------------------
(* Envelopes, and the parts in them. *)

IsPart(p) == p = [kind |-> p.kind, id |-> p.id, no |-> p.no, name |-> p.name, cc |-> p.cc]

\* A message of an envelope, and a row of them.
IsCc(c) == c = CcMessage(c.role, c.parts) /\ IsSequence(c.parts) /\ \A j \in 1..Len(c.parts) : IsPart(c.parts[j])
IsEnvelope(e) == IsSequence(e) /\ \A i \in 1..Len(e) : IsCc(e[i])

PartsIn(e) == FlattenSeq([i \in DOMAIN e |-> e[i].parts])

\* A message has its role and its parts.
LEMMA CcFields == \A role, parts : CcMessage(role, parts).role = role /\ CcMessage(role, parts).parts = parts
BY DEF CcMessage

\* The last of some places.
LEMMA MaxOfPlaces ==
  ASSUME NEW n \in Nat, NEW P, P \subseteq 1..n, P # {}
  PROVE  Max(P) \in P /\ \A k \in P : k <= Max(P)
<1> DEFINE T == {n - k : k \in P}
<1>1. T \subseteq Nat /\ T # {}
  OBVIOUS
<1>2. PICK m \in T : \A k \in T : m <= k
  BY <1>1, LeastNumber
<1>3. PICK p \in P : m = n - p
  BY <1>2
<1>4. \A k \in P : p >= k
  <2> TAKE k \in P
  <2>1. n - k \in T /\ k \in Nat /\ p \in Nat
    OBVIOUS
  <2>2. n - p <= n - k
    BY <1>2, <1>3, <2>1
  <2> QED
    BY <2>1, <2>2
<1>5. \E x \in P : \A y \in P : x >= y
  BY <1>4
<1>6. Max(P) \in P /\ \A y \in P : Max(P) >= y
  BY <1>5 DEF Max
<1>7. \A k \in P : k \in Nat
  OBVIOUS
<1> QED
  BY <1>6, <1>7

\* Rows of rows.
LEMMA FlattenConcatenates ==
  ASSUME NEW a, NEW b, IsSequence(a), IsSequence(b),
         \A i \in 1..Len(a) : IsSequence(a[i]), \A i \in 1..Len(b) : IsSequence(b[i])
  PROVE  FlattenSeq(a \o b) = FlattenSeq(a) \o FlattenSeq(b)
<1> DEFINE c == a \o b
           k == Len(a)
<1>0. k \in Nat /\ Len(b) \in Nat
  BY SequenceLen
<1>1. /\ IsSequence(c) /\ Len(c) = k + Len(b)
      /\ (\A i \in 1..k : c[i] = a[i]) /\ \A i \in 1..Len(b) : c[k + i] = b[i]
  BY Concatenation
<1>2. \A i \in 1..Len(c) : IsSequence(c[i])
  <2> TAKE i \in 1..Len(c)
  <2>1. CASE i <= k
    BY <1>0, <1>1, <2>1
  <2>2. CASE i > k
    <3>1. i - k \in 1..Len(b) /\ k + (i - k) = i
      BY <1>0, <1>1, <2>2
    <3> QED
      BY <1>1, <3>1
  <2> QED
    BY <1>0, <1>1, <2>1, <2>2
<1> HIDE DEF c
<1>3. PICK p : Flattens(p, a) /\ FlattenSeq(a) = p[k]
  BY FlattenIs
<1>4. PICK q : Flattens(q, b) /\ FlattenSeq(b) = q[Len(b)]
  BY FlattenIs
<1>5. PICK g : Flattens(g, c) /\ FlattenSeq(c) = g[Len(c)]
  BY <1>1, <1>2, FlattenIs
<1> DEFINE S == {n \in Nat : n <= k => p[n] = g[n]}
<1>6. 0 \in S
  BY <1>3, <1>5 DEF Flattens
<1>7. ASSUME NEW n \in Nat, n \in S PROVE n + 1 \in S
  <2> SUFFICES ASSUME n + 1 <= k PROVE p[n + 1] = g[n + 1]
    OBVIOUS
  <2>1. n + 1 \in 1..k /\ n + 1 \in 1..Len(c) /\ (n + 1) - 1 = n /\ p[n] = g[n] /\ c[n + 1] = a[n + 1]
    BY <1>0, <1>1, <1>7
  <2>2. p[n + 1] = p[n] \o a[n + 1] /\ g[n + 1] = g[n] \o c[n + 1]
    BY <1>3, <1>5, <2>1 DEF Flattens
  <2> QED
    BY <2>1, <2>2
<1> HIDE DEF S
<1>8. g[k] = p[k]
  <2>1. k \in S
    BY <1>0, <1>6, <1>7, Induction
  <2> QED
    BY <1>0, <2>1 DEF S
<1> DEFINE x == p[k]
           R == {n \in Nat : n <= Len(b) => g[k + n] = x \o q[n]}
<1>9. IsSequence(x)
  <2>1. k \in 0..Len(a)
    BY <1>0
  <2> QED
    BY <1>3, <2>1 DEF Flattens
<1>10. 0 \in R
  <2>1. k + 0 = k /\ q[0] = <<>> /\ x \o <<>> = x
    BY <1>0, <1>4, <1>9, EmptyConcatenation DEF Flattens
  <2> QED
    BY <1>8, <2>1
<1> HIDE DEF x
<1>11. ASSUME NEW n \in Nat, n \in R PROVE n + 1 \in R
  <2> SUFFICES ASSUME n + 1 <= Len(b) PROVE g[k + (n + 1)] = x \o q[n + 1]
    OBVIOUS
  <2>1. /\ n + 1 \in 1..Len(b) /\ k + (n + 1) \in 1..Len(c) /\ (n + 1) - 1 = n /\ (k + (n + 1)) - 1 = k + n
        /\ n \in 0..Len(b)
    BY <1>0, <1>1
  <2>2. g[k + n] = x \o q[n] /\ c[k + (n + 1)] = b[n + 1]
    BY <1>1, <1>11, <2>1
  <2> DEFINE y == q[n]
             z == b[n + 1]
  <2>3. q[n + 1] = y \o z /\ g[k + (n + 1)] = g[k + n] \o c[k + (n + 1)] /\ IsSequence(y) /\ IsSequence(z)
    BY <1>4, <1>5, <2>1 DEF Flattens
  <2>4. g[k + (n + 1)] = (x \o y) \o z
    BY <2>2, <2>3
  <2>5. (x \o y) \o z = x \o (y \o z)
    <3> HIDE DEF y, z
    <3> QED
      BY ONLY <1>9, <2>3, ConcatenationAssociates
  <2> QED
    BY <2>3, <2>4, <2>5
<1> HIDE DEF R
<1>12. g[k + Len(b)] = x \o q[Len(b)]
  <2>1. Len(b) \in R
    BY <1>0, <1>10, <1>11, Induction
  <2> QED
    BY <1>0, <2>1 DEF R
<1> QED
  BY <1>1, <1>3, <1>4, <1>5, <1>12 DEF x, c

\* The row of what the messages of an envelope hold.
LEMMA PartsAreFlat ==
  ASSUME NEW e, IsEnvelope(e)
  PROVE  \E t : /\ PartsIn(e) = FlattenSeq(t)
                /\ IsSequence(t) /\ Len(t) = Len(e)
                /\ \A i \in 1..Len(e) : t[i] = e[i].parts /\ IsSequence(t[i])
<1> DEFINE t == [i \in DOMAIN e |-> e[i].parts]
<1>1. IsSequence(e) /\ DOMAIN e = 1..Len(e) /\ Len(e) \in Nat
      /\ \A i \in 1..Len(e) : IsSequence(e[i].parts)
  BY SequenceDomain DEF IsEnvelope, IsCc
<1>2. DOMAIN t = 1..Len(e) /\ t = [i \in DOMAIN t |-> t[i]]
      /\ \A i \in 1..Len(e) : t[i] = e[i].parts
  BY <1>1
<1>3. PartsIn(e) = FlattenSeq(t)
  BY DEF PartsIn
<1> HIDE DEF t
<1>4. IsSequence(t) /\ Len(t) = Len(e)
  BY <1>1, <1>2, TableIsSequence
<1> QED
  BY <1>1, <1>2, <1>3, <1>4

\* Two envelopes in a row.
LEMMA EnvelopesJoin ==
  ASSUME NEW a, NEW b, IsEnvelope(a), IsEnvelope(b)
  PROVE  IsEnvelope(a \o b) /\ PartsIn(a \o b) = PartsIn(a) \o PartsIn(b)
<1> DEFINE c == a \o b
           k == Len(a)
<1>0. k \in Nat /\ Len(b) \in Nat /\ IsSequence(a) /\ IsSequence(b)
  BY SequenceLen DEF IsEnvelope
<1>1. /\ IsSequence(c) /\ Len(c) = k + Len(b)
      /\ (\A i \in 1..k : c[i] = a[i]) /\ \A i \in 1..Len(b) : c[k + i] = b[i]
  BY <1>0, Concatenation
<1>2. \A i \in 1..Len(c) : \/ i \in 1..k /\ c[i] = a[i]
                           \/ i - k \in 1..Len(b) /\ k + (i - k) = i /\ c[i] = b[i - k]
  <2> TAKE i \in 1..Len(c)
  <2>1. i \in 1..k \/ (i - k \in 1..Len(b) /\ k + (i - k) = i)
    BY <1>0, <1>1
  <2> QED
    BY <1>1, <2>1
<1> HIDE DEF c
<1>3. IsEnvelope(c)
  BY <1>1, <1>2 DEF IsEnvelope
<1>4. PICK s : /\ PartsIn(a) = FlattenSeq(s) /\ IsSequence(s) /\ Len(s) = Len(a)
               /\ \A i \in 1..Len(a) : s[i] = a[i].parts /\ IsSequence(s[i])
  BY PartsAreFlat
<1>5. PICK t : /\ PartsIn(b) = FlattenSeq(t) /\ IsSequence(t) /\ Len(t) = Len(b)
               /\ \A i \in 1..Len(b) : t[i] = b[i].parts /\ IsSequence(t[i])
  BY PartsAreFlat
<1>6. PICK u : /\ PartsIn(c) = FlattenSeq(u) /\ IsSequence(u) /\ Len(u) = Len(c)
               /\ \A i \in 1..Len(c) : u[i] = c[i].parts /\ IsSequence(u[i])
  BY <1>3, PartsAreFlat
<1> DEFINE v == s \o t
<1>7. /\ IsSequence(v) /\ Len(v) = Len(s) + Len(t)
      /\ (\A i \in 1..Len(s) : v[i] = s[i]) /\ \A i \in 1..Len(t) : v[Len(s) + i] = t[i]
  <2>1. IsSequence(s) /\ IsSequence(t)
    BY <1>4, <1>5
  <2> QED
    BY <2>1, Concatenation
<1> HIDE DEF v
<1>8. \A i \in 1..Len(u) : u[i] = v[i]
  <2> TAKE i \in 1..Len(u)
  <2>1. i \in 1..Len(c) /\ u[i] = c[i].parts
    BY <1>6
  <2>2. CASE i \in 1..k /\ c[i] = a[i]
    BY <1>4, <1>7, <2>1, <2>2
  <2>3. CASE i - k \in 1..Len(b) /\ k + (i - k) = i /\ c[i] = b[i - k]
    <3>1. v[k + (i - k)] = t[i - k] /\ t[i - k] = b[i - k].parts
      BY <1>4, <1>5, <1>7, <2>3
    <3> QED
      BY <2>1, <2>3, <3>1
  <2> QED
    BY <1>2, <2>1, <2>2, <2>3
<1>9. u = v
  <2>1. Len(u) = Len(v)
    BY <1>1, <1>4, <1>5, <1>6, <1>7
  <2> QED
    BY <1>6, <1>7, <1>8, <2>1, SameSequence
<1>10. FlattenSeq(s \o t) = FlattenSeq(s) \o FlattenSeq(t)
  BY <1>4, <1>5, FlattenConcatenates
<1> QED
  BY <1>3, <1>4, <1>5, <1>6, <1>9, <1>10 DEF v, c

\* No message, and one.
LEMMA ShortEnvelopes ==
  /\ IsEnvelope(<<>>) /\ PartsIn(<<>>) = <<>>
  /\ \A c : IsCc(c) => IsEnvelope(<<c>>) /\ PartsIn(<<c>>) = c.parts
<1>1. IsEnvelope(<<>>)
  BY ShortSequences DEF IsEnvelope
<1>2. PartsIn(<<>>) = <<>>
  <2> DEFINE t == [i \in DOMAIN <<>> |-> <<>>[i].parts]
  <2>1. PartsIn(<<>>) = FlattenSeq(t)
    BY DEF PartsIn
  <2>2. t = <<>>
    OBVIOUS
  <2> HIDE DEF t
  <2> QED
    BY <2>1, <2>2, NothingFlattened
<1>3. ASSUME NEW c, IsCc(c) PROVE IsEnvelope(<<c>>) /\ PartsIn(<<c>>) = c.parts
  <2> DEFINE e == <<c>>
             p == c.parts
  <2>1. IsSequence(e) /\ Len(e) = 1 /\ e[1] = c
    BY ShortSequences
  <2> HIDE DEF e
  <2>2. IsEnvelope(e)
    BY <1>3, <2>1 DEF IsEnvelope
  <2>3. PICK t : /\ PartsIn(e) = FlattenSeq(t) /\ IsSequence(t) /\ Len(t) = 1
                 /\ t[1] = p /\ \A i \in 1..Len(t) : IsSequence(t[i])
    BY <2>1, <2>2, PartsAreFlat
  <2>4. PICK f : Flattens(f, t) /\ FlattenSeq(t) = f[Len(t)]
    BY <2>3, FlattenIs
  <2>5. 1 \in 1..Len(t) /\ 1 - 1 = 0
    BY <2>3
  <2>6. f[1] = f[0] \o p /\ f[0] = <<>> /\ IsSequence(p)
    BY <2>3, <2>4, <2>5 DEF Flattens
  <2>7. f[1] = p
    BY <2>6, EmptyConcatenation
  <2> QED
    BY <2>2, <2>3, <2>4, <2>7 DEF e
<1> QED
  BY <1>1, <1>2, <1>3

---------------------------------------------------------------------------
(* What the marker and the conversion of an assistant message leave. *)

\* The marker changes nothing but a text's mark.
SameButTexts(e, f) ==
  /\ IsEnvelope(e) /\ IsEnvelope(f) /\ Len(f) = Len(e)
  /\ \A i \in 1..Len(e) :
       /\ f[i].role = e[i].role /\ Len(f[i].parts) = Len(e[i].parts)
       /\ \A j \in 1..Len(e[i].parts) :
            \/ f[i].parts[j] = e[i].parts[j]
            \/ e[i].parts[j].kind = "text" /\ f[i].parts[j] = [e[i].parts[j] EXCEPT !.cc = TRUE]

\* One part of an envelope, marked.
MarkedAt(e, i, j) == [e EXCEPT ![i].parts[j].cc = TRUE]

\* A marked part is a part.
LEMMA PartMarked ==
  ASSUME NEW x, IsPart(x)
  PROVE  /\ IsPart([x EXCEPT !.cc = TRUE]) /\ [x EXCEPT !.cc = TRUE].cc = TRUE
         /\ [x EXCEPT !.cc = TRUE].kind = x.kind /\ [x EXCEPT !.cc = TRUE].id = x.id
         /\ [x EXCEPT !.cc = TRUE].no = x.no
<1> DEFINE v == TRUE
           y == [x EXCEPT !.cc = v]
<1> HIDE DEF v
<1>1. PICK a, b, c, d, e : x = [kind |-> a, id |-> b, no |-> c, name |-> d, cc |-> e]
  BY DEF IsPart
<1>2. x.kind = a /\ x.id = b /\ x.no = c
  BY <1>1
<1>3. y = [kind |-> a, id |-> b, no |-> c, name |-> d, cc |-> v]
  BY <1>1
<1> HIDE DEF y
<1>4. y.kind = a /\ y.id = b /\ y.no = c /\ y.name = d /\ y.cc = v
  BY <1>3
<1>5. IsPart(y)
  BY <1>3, <1>4 DEF IsPart
<1> QED
  BY <1>2, <1>4, <1>5 DEF y, v

\* Marking a text moves and changes nothing else.
LEMMA MarkedIs ==
  ASSUME NEW e, IsEnvelope(e), NEW i \in 1..Len(e), NEW j \in 1..Len(e[i].parts)
  PROVE  /\ IsEnvelope(MarkedAt(e, i, j)) /\ Len(MarkedAt(e, i, j)) = Len(e)
         /\ \A k \in 1..Len(e) : k # i => MarkedAt(e, i, j)[k] = e[k]
         /\ MarkedAt(e, i, j)[i].role = e[i].role
         /\ Len(MarkedAt(e, i, j)[i].parts) = Len(e[i].parts)
         /\ \A k \in 1..Len(e[i].parts) : k # j => MarkedAt(e, i, j)[i].parts[k] = e[i].parts[k]
         /\ MarkedAt(e, i, j)[i].parts[j] = [e[i].parts[j] EXCEPT !.cc = TRUE]
<1> DEFINE c == e[i]
           p == c.parts
           x == p[j]
           y == [x EXCEPT !.cc = TRUE]
           q == [p EXCEPT ![j] = y]
           d == [c EXCEPT !.parts = q]
           f == [e EXCEPT ![i] = d]
<1>0. IsSequence(e) /\ DOMAIN e = 1..Len(e) /\ Len(e) \in Nat /\ IsCc(c) /\ IsSequence(p) /\ DOMAIN p = 1..Len(p) /\ Len(p) \in Nat
  BY SequenceDomain DEF IsEnvelope, IsCc
<1>1. MarkedAt(e, i, j) = f
  BY DEF MarkedAt
<1>2. IsPart(y)
  <2>1. IsPart(x)
    BY <1>0 DEF IsCc
  <2> HIDE DEF x
  <2> QED
    BY <2>1, PartMarked
<1> HIDE DEF y
<1>3. IsSequence(q) /\ Len(q) = Len(p) /\ q[j] = y /\ \A k \in 1..Len(p) : k # j => q[k] = p[k]
  <2>1. DOMAIN q = 1..Len(p) /\ q = [k \in DOMAIN q |-> q[k]]
    BY <1>0
  <2>2. q[j] = y /\ \A k \in 1..Len(p) : k # j => q[k] = p[k]
    BY <1>0
  <2> HIDE DEF q
  <2>3. IsSequence(q) /\ Len(q) = Len(p)
    BY <1>0, <2>1, TableIsSequence
  <2> QED
    BY <2>2, <2>3
<1>4. \A k \in 1..Len(q) : IsPart(q[k])
  <2> TAKE k \in 1..Len(q)
  <2>1. k \in 1..Len(p) /\ IsPart(p[k])
    BY <1>0, <1>3 DEF IsCc
  <2> HIDE DEF q
  <2> QED
    BY <1>2, <1>3, <2>1
<1> HIDE DEF q
<1>5. IsCc(d) /\ d.role = c.role /\ d.parts = q
  <2>1. c = CcMessage(c.role, p)
    BY <1>0 DEF IsCc
  <2> HIDE DEF c, p
  <2>2. d = CcMessage(c.role, q)
    BY <2>1 DEF CcMessage
  <2>3. d.role = c.role /\ d.parts = q
    BY <2>2, CcFields
  <2> HIDE DEF d
  <2> QED
    BY <1>3, <1>4, <2>2, <2>3 DEF IsCc
<1> HIDE DEF d
<1>6. IsSequence(f) /\ Len(f) = Len(e) /\ f[i] = d /\ \A k \in 1..Len(e) : k # i => f[k] = e[k]
  <2>1. DOMAIN f = 1..Len(e) /\ f = [k \in DOMAIN f |-> f[k]]
    BY <1>0
  <2>2. f[i] = d /\ \A k \in 1..Len(e) : k # i => f[k] = e[k]
    BY <1>0
  <2> HIDE DEF f
  <2>3. IsSequence(f) /\ Len(f) = Len(e)
    BY <1>0, <2>1, TableIsSequence
  <2> QED
    BY <2>2, <2>3
<1> HIDE DEF f
<1>7. IsEnvelope(f)
  BY <1>5, <1>6 DEF IsEnvelope
<1> QED
  BY <1>1, <1>3, <1>5, <1>6, <1>7 DEF y

\* Where there are texts the last one is a text.
LEMMA LastText ==
  ASSUME NEW e, IsEnvelope(e), {i \in DOMAIN e : TextsIn(e[i]) # {}} # {}
  PROVE  LET i == Max({i \in DOMAIN e : TextsIn(e[i]) # {}})
             j == Max(TextsIn(e[i]))
         IN /\ i \in 1..Len(e) /\ j \in 1..Len(e[i].parts) /\ e[i].parts[j].kind = "text"
            /\ \A k \in 1..Len(e) : TextsIn(e[k]) # {} => k <= i
            /\ \A k \in TextsIn(e[i]) : k <= j
<1> DEFINE T == {i \in DOMAIN e : TextsIn(e[i]) # {}}
           i == Max(T)
           U == TextsIn(e[i])
           j == Max(U)
<1>0. IsSequence(e) /\ DOMAIN e = 1..Len(e) /\ Len(e) \in Nat
  BY SequenceDomain DEF IsEnvelope
<1>1. T \subseteq 1..Len(e) /\ T # {}
  BY <1>0
<1>2. \A k \in T : TextsIn(e[k]) # {}
  OBVIOUS
<1>3. \A k \in 1..Len(e) : TextsIn(e[k]) # {} => k \in T
  BY <1>0
<1> HIDE DEF T
<1>4. i \in T /\ \A k \in T : k <= i
  BY <1>0, <1>1, MaxOfPlaces
<1>5. i \in 1..Len(e) /\ U # {}
  BY <1>1, <1>2, <1>4
<1> HIDE DEF i
<1>6. DOMAIN e[i].parts = 1..Len(e[i].parts) /\ Len(e[i].parts) \in Nat
  BY <1>5, SequenceDomain DEF IsEnvelope, IsCc
<1>7. U \subseteq 1..Len(e[i].parts) /\ \A k \in U : e[i].parts[k].kind = "text"
  BY <1>6 DEF TextsIn
<1> HIDE DEF U
<1>8. j \in U /\ \A k \in U : k <= j
  BY <1>5, <1>6, <1>7, MaxOfPlaces
<1> HIDE DEF j
<1>9. /\ i \in 1..Len(e) /\ j \in 1..Len(e[i].parts) /\ e[i].parts[j].kind = "text"
      /\ \A k \in 1..Len(e) : TextsIn(e[k]) # {} => k <= i
      /\ \A k \in U : k <= j
  BY <1>3, <1>4, <1>5, <1>7, <1>8
<1> QED
  BY <1>9 DEF T, i, U, j

\* So the marker, if it is set, is a text's.
LEMMA MarkerKeeps ==
  ASSUME NEW e, IsEnvelope(e), NEW need
  PROVE  SameButTexts(e, SynthesizeCacheMarker(e, need))
<1> DEFINE f == SynthesizeCacheMarker(e, need)
           T == {i \in DOMAIN e : TextsIn(e[i]) # {}}
           i == Max(T)
           j == Max(TextsIn(e[i]))
<1>1. f = e \/ (f = MarkedAt(e, i, j) /\ T # {})
  BY DEF SynthesizeCacheMarker, MarkedAt
<1>2. CASE f = e
  BY <1>2 DEF SameButTexts
<1>3. CASE f = MarkedAt(e, i, j) /\ T # {}
  <2>1. i \in 1..Len(e) /\ j \in 1..Len(e[i].parts) /\ e[i].parts[j].kind = "text"
    BY <1>3, LastText
  <2> HIDE DEF f, i, j
  <2>2. /\ IsEnvelope(f) /\ Len(f) = Len(e)
        /\ \A k \in 1..Len(e) : k # i => f[k] = e[k]
        /\ f[i].role = e[i].role
        /\ Len(f[i].parts) = Len(e[i].parts)
        /\ \A k \in 1..Len(e[i].parts) : k # j => f[i].parts[k] = e[i].parts[k]
        /\ f[i].parts[j] = [e[i].parts[j] EXCEPT !.cc = TRUE]
    BY <1>3, <2>1, MarkedIs
  <2> QED
    BY <2>1, <2>2 DEF SameButTexts, f
<1> QED
  BY <1>1, <1>2, <1>3

\* The parts of some blocks.
PartsOf(blocks) == [i \in DOMAIN blocks |-> Part(blocks[i])]

\* A part has what its block has.
LEMMA PartFields ==
  \A b : /\ Part(b).kind = b.kind /\ Part(b).id = b.id /\ Part(b).no = b.no /\ Part(b).name = b.no
         /\ Part(b).cc = b.cc /\ IsPart(Part(b))
BY DEF Part, IsPart

\* There is one for each.
LEMMA PartsOfIs ==
  ASSUME NEW s, IsSequence(s)
  PROVE  /\ IsSequence(PartsOf(s)) /\ Len(PartsOf(s)) = Len(s)
         /\ \A i \in 1..Len(s) : PartsOf(s)[i] = Part(s[i])
<1> DEFINE t == [i \in DOMAIN s |-> Part(s[i])]
<1>0. DOMAIN s = 1..Len(s) /\ Len(s) \in Nat
  BY SequenceDomain
<1>1. DOMAIN t = 1..Len(s) /\ t = [i \in DOMAIN t |-> t[i]] /\ \A i \in 1..Len(s) : t[i] = Part(s[i])
  BY <1>0
<1>2. PartsOf(s) = t
  BY DEF PartsOf
<1> HIDE DEF t
<1>3. IsSequence(t) /\ Len(t) = Len(s)
  BY <1>0, <1>1, TableIsSequence
<1> QED
  BY <1>1, <1>2, <1>3

\* The parts of a kind are those of the blocks of the kind.
LEMMA PartsOfKind ==
  ASSUME NEW s, IsSequence(s), NEW kind PROVE OfKind(PartsOf(s), kind) = PartsOf(OfKind(s, kind))
<1> DEFINE t == PartsOf(s)
           T == {b \in ToSet(s) : b.kind = kind}
           U == {b \in ToSet(t) : b.kind = kind}
<1>0. IsSequence(t) /\ Len(t) = Len(s) /\ Len(s) \in Nat /\ \A i \in 1..Len(s) : t[i] = Part(s[i])
  BY PartsOfIs, SequenceLen
<1>1. OfKind(t, kind) = Select(t, U) /\ OfKind(s, kind) = Select(s, T)
  BY DEF OfKind
<1>2. \A i \in 1..Len(s) : t[i] \in U <=> s[i] \in T
  <2>1. DOMAIN s = 1..Len(s) /\ DOMAIN t = 1..Len(s)
    BY <1>0, SequenceDomain
  <2> TAKE i \in 1..Len(s)
  <2>2. s[i] \in ToSet(s) /\ t[i] \in ToSet(t)
    BY <2>1 DEF ToSet
  <2>3. t[i].kind = s[i].kind
    BY <1>0, PartFields
  <2> QED
    BY <2>2, <2>3
<1> HIDE DEF t, T, U
<1>3. PICK f : Selects(f, s, T) /\ Select(s, T) = f[Len(s)]
  BY SelectIs
<1>4. PICK g : Selects(g, t, U) /\ Select(t, U) = g[Len(t)]
  BY <1>0, SelectIs
<1> DEFINE S == {n \in Nat : n <= Len(s) => IsSequence(f[n]) /\ g[n] = PartsOf(f[n])}
<1>5. 0 \in S
  <2>1. f[0] = <<>> /\ g[0] = <<>>
    BY <1>3, <1>4 DEF Selects
  <2>2. PartsOf(<<>>) = <<>>
    BY DEF PartsOf
  <2> QED
    BY <2>1, <2>2, ShortSequences
<1>6. ASSUME NEW n \in Nat, n \in S PROVE n + 1 \in S
  <2> SUFFICES ASSUME n + 1 <= Len(s) PROVE IsSequence(f[n + 1]) /\ g[n + 1] = PartsOf(f[n + 1])
    OBVIOUS
  <2> DEFINE a == f[n]
             x == s[n + 1]
             b == Append(a, x)
  <2>1. n + 1 \in 1..Len(s) /\ n + 1 \in 1..Len(t) /\ (n + 1) - 1 = n /\ IsSequence(a) /\ g[n] = PartsOf(a)
    BY <1>0, <1>6
  <2>2. /\ f[n + 1] = IF x \in T THEN b ELSE a
        /\ g[n + 1] = IF t[n + 1] \in U THEN Append(PartsOf(a), Part(x)) ELSE PartsOf(a)
    BY <1>0, <1>3, <1>4, <2>1 DEF Selects
  <2>3. /\ IsSequence(b) /\ Len(b) = Len(a) + 1 /\ b[Len(a) + 1] = x
        /\ (\A i \in 1..Len(a) : b[i] = a[i]) /\ Len(a) \in Nat
    BY <2>1, Appended, SequenceLen
  <2> HIDE DEF a, b
  <2>4. Append(PartsOf(a), Part(x)) = PartsOf(b)
    <3> DEFINE p == PartsOf(a)
               q == Append(p, Part(x))
               r == PartsOf(b)
    <3>1. IsSequence(p) /\ Len(p) = Len(a) /\ \A i \in 1..Len(a) : p[i] = Part(a[i])
      BY <2>1, PartsOfIs
    <3>2. IsSequence(r) /\ Len(r) = Len(b) /\ \A i \in 1..Len(b) : r[i] = Part(b[i])
      BY <2>3, PartsOfIs
    <3> HIDE DEF p, r
    <3>3. IsSequence(q) /\ Len(q) = Len(p) + 1 /\ q[Len(p) + 1] = Part(x) /\ \A i \in 1..Len(p) : q[i] = p[i]
      BY <3>1, Appended
    <3> HIDE DEF q
    <3>4. \A i \in 1..Len(q) : q[i] = r[i]
      <4> TAKE i \in 1..Len(q)
      <4>1. i \in 1..Len(b) /\ (i \in 1..Len(a) \/ i = Len(a) + 1)
        BY <2>3, <3>1, <3>3
      <4>2. CASE i \in 1..Len(a)
        BY <2>3, <3>1, <3>2, <3>3, <4>1, <4>2
      <4>3. CASE i = Len(a) + 1
        BY <2>3, <3>1, <3>2, <3>3, <4>1, <4>3
      <4> QED
        BY <4>1, <4>2, <4>3
    <3>5. Len(q) = Len(r)
      BY <2>3, <3>1, <3>2, <3>3
    <3> QED
      BY <3>2, <3>3, <3>4, <3>5, SameSequence DEF p, q, r
  <2> QED
    BY <1>2, <2>1, <2>2, <2>3, <2>4 DEF a
<1> HIDE DEF S
<1>7. Len(s) \in S
  BY <1>0, <1>5, <1>6, Induction
<1>8. g[Len(s)] = PartsOf(f[Len(s)])
  BY <1>0, <1>7 DEF S
<1> QED
  BY <1>0, <1>1, <1>3, <1>4, <1>8 DEF t

---------------------------------------------------------------------------
(* Calls and results in an envelope. *)

\* The calls of a message that speaks for the model.
Uses(c) == IF c.role = "assistant" THEN OfKind(c.parts, "tool_use") ELSE <<>>

\* c brings the result of the call p, under the name it was called by.
AnswersCall(c, p, once) ==
  /\ c.role = "tool" /\ Len(c.parts) = 1 /\ c.parts[1].kind = "tool_result"
  /\ c.parts[1].id = p.id /\ (once => c.parts[1].name = p.name)

\* Every call is followed by its result, and there are no other results.
CallsFollowed(e, once) ==
  \A i \in 1..Len(e) : \A k \in 1..Len(Uses(e[i])) :
    i + k \in 1..Len(e) /\ AnswersCall(e[i + k], Uses(e[i])[k], once)
Whole(e, once) ==
  /\ IsEnvelope(e) /\ CallsFollowed(e, once)
  /\ Len(OfKind(PartsIn(e), "tool_use")) = Len(OfKind(PartsIn(e), "tool_result"))

\* The parts of an envelope are a sequence.
LEMMA PartsAreSequence == ASSUME NEW e, IsEnvelope(e) PROVE IsSequence(PartsIn(e))
<1>1. PICK t : /\ PartsIn(e) = FlattenSeq(t) /\ IsSequence(t) /\ Len(t) = Len(e)
               /\ \A i \in 1..Len(e) : t[i] = e[i].parts /\ IsSequence(t[i])
  BY PartsAreFlat
<1>2. PICK f : Flattens(f, t) /\ FlattenSeq(t) = f[Len(t)]
  BY <1>1, FlattenIs
<1>3. Len(t) \in 0..Len(t)
  BY <1>1, SequenceLen
<1> QED
  BY <1>1, <1>2, <1>3 DEF Flattens

\* An empty envelope is whole.
LEMMA NothingIsWhole == ASSUME NEW once PROVE Whole(<<>>, once)
<1>1. IsEnvelope(<<>>) /\ PartsIn(<<>>) = <<>> /\ Len(<<>>) = 0
  BY ShortEnvelopes, ShortSequences
<1>2. OfKind(PartsIn(<<>>), "tool_use") = OfKind(PartsIn(<<>>), "tool_result")
  BY <1>1, FiltersOfNone
<1> QED
  BY <1>1, <1>2 DEF Whole, CallsFollowed

\* Two whole envelopes in a row are whole.
LEMMA WholesJoin ==
  ASSUME NEW a, NEW b, NEW once, Whole(a, once), Whole(b, once) PROVE Whole(a \o b, once)
<1> DEFINE c == a \o b
           n == Len(a)
           p == PartsIn(a)
           q == PartsIn(b)
<1>0. IsSequence(a) /\ IsSequence(b) /\ IsEnvelope(a) /\ IsEnvelope(b) /\ n \in Nat /\ Len(b) \in Nat
  BY SequenceLen DEF Whole, IsEnvelope
<1>1. /\ IsSequence(c) /\ Len(c) = n + Len(b)
      /\ (\A i \in 1..n : c[i] = a[i]) /\ \A i \in 1..Len(b) : c[n + i] = b[i]
  BY <1>0, Concatenation
<1>2. IsEnvelope(c) /\ PartsIn(c) = p \o q
  BY <1>0, EnvelopesJoin
<1>3. IsSequence(p) /\ IsSequence(q)
  BY <1>0, PartsAreSequence
<1> HIDE DEF c
<1>4. CallsFollowed(c, once)
  <2> SUFFICES ASSUME NEW i \in 1..Len(c), NEW k \in 1..Len(Uses(c[i]))
               PROVE  i + k \in 1..Len(c) /\ AnswersCall(c[i + k], Uses(c[i])[k], once)
    BY DEF CallsFollowed
  <2>0. i \in Nat /\ k \in Int
    BY <1>0, <1>1
  <2>1. CASE i <= n
    <3>1. i \in 1..n /\ c[i] = a[i]
      BY <1>0, <1>1, <2>0, <2>1
    <3>2. i + k \in 1..n /\ AnswersCall(a[i + k], Uses(a[i])[k], once)
      BY <3>1 DEF Whole, CallsFollowed
    <3>3. i + k \in 1..Len(c) /\ c[i + k] = a[i + k]
      BY <1>0, <1>1, <3>2
    <3> QED
      BY <3>1, <3>2, <3>3
  <2>2. CASE i > n
    <3> DEFINE j == i - n
    <3>1. j \in 1..Len(b) /\ n + j = i /\ c[i] = b[j]
      <4>1. j \in 1..Len(b) /\ n + j = i
        BY <1>0, <1>1, <2>0, <2>2
      <4> QED
        BY <1>1, <4>1
    <3>2. j + k \in 1..Len(b) /\ AnswersCall(b[j + k], Uses(b[j])[k], once)
      BY <3>1 DEF Whole, CallsFollowed
    <3>3. i + k \in 1..Len(c) /\ i + k = n + (j + k)
      BY <1>0, <1>1, <2>0, <3>1, <3>2
    <3>4. c[i + k] = b[j + k]
      BY <1>1, <3>2, <3>3
    <3> QED
      BY <3>1, <3>2, <3>3, <3>4
  <2> QED
    BY <1>0, <2>0, <2>1, <2>2
<1>5. ASSUME NEW kind
      PROVE  Len(OfKind(p \o q, kind)) = Len(OfKind(p, kind)) + Len(OfKind(q, kind))
  <2> HIDE DEF p, q
  <2>1. OfKind(p \o q, kind) = OfKind(p, kind) \o OfKind(q, kind)
    BY <1>3, KindsSplit
  <2>2. IsSequence(OfKind(p, kind)) /\ IsSequence(OfKind(q, kind))
    BY <1>3, Filters
  <2> QED
    BY <2>1, <2>2, Concatenation
<1>6. Len(OfKind(PartsIn(c), "tool_use")) = Len(OfKind(PartsIn(c), "tool_result"))
  <2>1. /\ Len(OfKind(p, "tool_use")) = Len(OfKind(p, "tool_result"))
        /\ Len(OfKind(q, "tool_use")) = Len(OfKind(q, "tool_result"))
    BY DEF Whole
  <2> QED
    BY <1>2, <1>5, <2>1
<1> QED
  BY <1>2, <1>4, <1>6 DEF Whole, c

\* What an assistant message becomes: its calls, and no results.
LEMMA AssistantPiece ==
  ASSUME NEW m, IsMessage(m), m.role = "assistant", NEW reasoning
  PROVE  \E parts : /\ IsSequence(parts) /\ \A i \in 1..Len(parts) : IsPart(parts[i])
                    /\ OfKind(parts, "tool_use") = PartsOf(CallsOf(m))
                    /\ OfKind(parts, "tool_result") = <<>>
                    /\ ConvertAssistant(m, reasoning).msgs =
                         IF parts = <<>> THEN <<>> ELSE <<CcMessage("assistant", parts)>>
<1> DEFINE s == m.blocks
           kinds == AssistantKinds(reasoning)
           n == Len(kinds)
           ss == [k \in DOMAIN kinds |-> OfKind(s, kinds[k])]
           kept == FlattenSeq(ss)
           parts == PartsOf(kept)
<1>0. IsSequence(s)
  BY DEF IsMessage
<1>1. ConvertAssistant(m, reasoning).msgs =
        IF kept = <<>> THEN <<>> ELSE <<CcMessage("assistant", parts)>>
  BY DEF ConvertAssistant, PartsOf
<1>2. /\ n \in Nat /\ n >= 1 /\ DOMAIN kinds = 1..n /\ kinds[n] = "tool_use"
      /\ \A i \in 1..(n - 1) : kinds[i] \in {"thinking", "text"}
  <2>1. CASE reasoning
    <3> DEFINE p == <<"thinking">>
               q == <<"text", "tool_use">>
    <3>1. IsSequence(p) /\ Len(p) = 1 /\ p[1] = "thinking" /\ IsSequence(q) /\ Len(q) = 2
          /\ q[1] = "text" /\ q[2] = "tool_use"
      <4>1. IsSequence(q)
        BY PartsAre
      <4> QED
        BY <4>1, ShortSequences
    <3>2. kinds = p \o q
      BY <2>1 DEF AssistantKinds
    <3> HIDE DEF p, q
    <3> DEFINE ks == p \o q
    <3>3. /\ IsSequence(ks) /\ Len(ks) = Len(p) + Len(q)
           /\ (\A i \in 1..Len(p) : ks[i] = p[i]) /\ \A i \in 1..Len(q) : ks[Len(p) + i] = q[i]
      <4>1. IsSequence(p) /\ IsSequence(q)
        BY <3>1
      <4> QED
        BY <4>1, Concatenation
    <3>4. 1 \in 1..Len(p) /\ 1 \in 1..Len(q) /\ 2 \in 1..Len(q)
      BY <3>1
    <3> HIDE DEF ks
    <3>5. IsSequence(ks) /\ Len(ks) = 3 /\ ks[1] = p[1] /\ ks[1 + 1] = q[1] /\ ks[1 + 2] = q[2]
      BY <3>1, <3>3, <3>4
    <3>6. IsSequence(kinds) /\ n = 3 /\ kinds[1] = p[1] /\ kinds[1 + 1] = q[1] /\ kinds[1 + 2] = q[2]
      BY <3>2, <3>5 DEF ks
    <3>7. DOMAIN kinds = 1..n
      BY <3>6, SequenceDomain
    <3>8. kinds[2] = "text" /\ kinds[3] = "tool_use" /\ \A i \in 1..(n - 1) : i = 1 \/ i = 2
      BY <3>1, <3>6
    <3> QED
      BY <3>1, <3>6, <3>7, <3>8
  <2>2. CASE ~reasoning
    <3> DEFINE q == <<"text", "tool_use">>
    <3>1. IsSequence(q) /\ Len(q) = 2 /\ q[1] = "text" /\ q[2] = "tool_use"
      <4>1. IsSequence(q)
        BY PartsAre
      <4> QED
        BY <4>1
    <3>2. <<>> \o q = q
      BY <3>1, EmptyConcatenation
    <3>3. kinds = q
      BY <2>2, <3>2 DEF AssistantKinds
    <3> HIDE DEF q
    <3>4. DOMAIN kinds = 1..n /\ n = 2
      BY <3>1, <3>3, SequenceDomain
    <3>5. \A i \in 1..(n - 1) : i = 1
      BY <3>4
    <3> QED
      BY <3>1, <3>3, <3>4, <3>5
  <2> QED
    BY <2>1, <2>2
<1> HIDE DEF kinds, n
<1>3. DOMAIN ss = 1..n /\ ss = [k \in DOMAIN ss |-> ss[k]] /\ \A k \in 1..n : ss[k] = OfKind(s, kinds[k])
  BY <1>2
<1> HIDE DEF ss
<1>4. IsSequence(ss) /\ Len(ss) = n
  BY <1>2, <1>3, TableIsSequence
<1>5. \A k \in 1..n : IsSequence(ss[k]) /\ \A b \in ToSet(ss[k]) : b.kind = kinds[k]
  BY <1>0, <1>3, Filters
<1>6. PICK f : Flattens(f, ss) /\ FlattenSeq(ss) = f[n]
  BY <1>4, <1>5, FlattenIs
<1> DEFINE S == {i \in Nat : i < n => \A b \in ToSet(f[i]) : b.kind \in {"thinking", "text"}}
<1>7. 0 \in S
  <2>1. f[0] = <<>> /\ ToSet(<<>>) = {}
    BY <1>6 DEF Flattens, ToSet
  <2> QED
    BY <2>1
<1>8. ASSUME NEW i \in Nat, i \in S PROVE i + 1 \in S
  <2> SUFFICES ASSUME i + 1 < n PROVE \A b \in ToSet(f[i + 1]) : b.kind \in {"thinking", "text"}
    OBVIOUS
  <2>1. i + 1 \in 1..n /\ i + 1 \in 1..(n - 1) /\ (i + 1) - 1 = i /\ i < n /\ i \in 0..n
    BY <1>2
  <2>2. f[i + 1] = f[i] \o ss[i + 1] /\ IsSequence(f[i]) /\ IsSequence(ss[i + 1])
    BY <1>4, <1>5, <1>6, <2>1 DEF Flattens
  <2>3. ToSet(f[i + 1]) = ToSet(f[i]) \cup ToSet(ss[i + 1])
    BY <2>2, ElementsOfConcatenation
  <2> QED
    BY <1>2, <1>5, <1>8, <2>1, <2>3
<1> HIDE DEF S
<1> DEFINE x == f[n - 1]
           c == CallsOf(m)
<1>9. \A b \in ToSet(x) : b.kind \in {"thinking", "text"}
  <2>1. n - 1 \in Nat /\ n - 1 < n
    BY <1>2
  <2>2. n - 1 \in S
    BY <1>7, <1>8, <2>1, Induction
  <2> QED
    BY <2>1, <2>2 DEF S
<1>10. kept = x \o c /\ IsSequence(x) /\ IsSequence(c) /\ Every(c, "tool_use")
  <2>1. n \in 1..n /\ n - 1 \in 0..n
    BY <1>2
  <2>2. f[n] = f[n - 1] \o ss[n] /\ IsSequence(f[n - 1])
    BY <1>4, <1>6, <2>1 DEF Flattens
  <2>3. ss[n] = c
    BY <1>2, <1>3, <2>1 DEF CallsOf
  <2>4. IsSequence(ss[n]) /\ \A b \in ToSet(ss[n]) : b.kind = "tool_use"
    BY <1>2, <1>5, <2>1
  <2> QED
    BY <1>6, <2>2, <2>3, <2>4 DEF Every
<1> HIDE DEF x, c, kept
<1>11. /\ OfKind(x, "tool_use") = <<>> /\ OfKind(x, "tool_result") = <<>>
       /\ OfKind(c, "tool_use") = c /\ OfKind(c, "tool_result") = <<>>
  <2>1. Lacks(x, "tool_use") /\ Lacks(x, "tool_result") /\ Lacks(c, "tool_result")
    BY <1>9, <1>10 DEF Lacks, Every
  <2> QED
    BY <1>10, <2>1, NoneOfKind
<1>12. IsSequence(kept) /\ OfKind(kept, "tool_use") = c /\ OfKind(kept, "tool_result") = <<>>
  <2>1. IsSequence(x \o c)
    BY <1>10, Concatenation
  <2>2. \A kind : OfKind(x \o c, kind) = OfKind(x, kind) \o OfKind(c, kind)
    BY <1>10, KindsSplit
  <2>3. <<>> \o c = c /\ <<>> \o <<>> = <<>>
    BY <1>10, EmptyConcatenation, ShortSequences
  <2> QED
    BY <1>10, <1>11, <2>1, <2>2, <2>3
<1>13. /\ IsSequence(parts) /\ Len(parts) = Len(kept) /\ \A i \in 1..Len(kept) : parts[i] = Part(kept[i])
  BY <1>12, PartsOfIs
<1>14. /\ OfKind(parts, "tool_use") = PartsOf(c) /\ OfKind(parts, "tool_result") = <<>>
  <2>1. PartsOf(<<>>) = <<>>
    BY DEF PartsOf
  <2> QED
    BY <1>12, <2>1, PartsOfKind
<1> HIDE DEF parts
<1>15. (kept = <<>>) <=> (parts = <<>>)
  <2>1. \A z : IsSequence(z) => (z = <<>> <=> Len(z) = 0)
    <3> TAKE z
    <3>1. Len(<<>>) = 0 /\ IsSequence(<<>>)
      BY ShortSequences
    <3>2. ASSUME IsSequence(z), Len(z) = 0 PROVE z = <<>>
      BY <3>1, <3>2, SameSequence
    <3> QED
      BY <3>1, <3>2
  <2> QED
    BY <1>12, <1>13, <2>1
<1>16. \A i \in 1..Len(parts) : IsPart(parts[i])
  BY <1>13, PartFields
<1> QED
  BY <1>1, <1>13, <1>14, <1>15, <1>16 DEF c

---------------------------------------------------------------------------
(* What a user message becomes. *)

\* Parts of contents alone.
Plains(s) == IsSequence(s) /\ \A j \in 1..Len(s) : IsPart(s[j]) /\ s[j].kind \in {"text", "image"}

\* s has a part of this kind and number.
Has(s, kind, x) == \E j \in 1..Len(s) : s[j].kind = kind /\ s[j].no = x

\* Behind the message i the user shows the image x, before the model speaks again.
Shown(e, i, x) ==
  \E j \in (i + 1)..Len(e) : /\ e[j].role = "user" /\ Has(e[j].parts, "image", x)
                             /\ \A k \in i..j : e[k].role # "assistant"

\* The results of the numbers N hold images.
Pictured(m, N) ==
  \A b \in ToSet(m.blocks) : b.kind = "tool_result" => IsSequence(b.parts) /\ (b.no \in N => "image" \in ToSet(b.parts))

\* A state of the conversion: the images of results that have gone out are shown or wait.
Sound(acc, N) ==
  /\ IsAcc(acc) /\ IsEnvelope(acc.out) /\ Plains(acc.user) /\ Plains(acc.reloc)
  /\ \A i \in 1..Len(acc.out) : acc.out[i].role \in {"tool", "user"}
  /\ \A i \in 1..Len(acc.out) : \A x \in N :
       Has(acc.out[i].parts, "tool_result", x) => Shown(acc.out, i, x) \/ Has(acc.reloc, "image", x)

\* A state has its fields.
LEMMA AccFields ==
  \A o, u, r, w : LET acc == Acc(o, u, r, w)
                  IN IsAcc(acc) /\ acc.out = o /\ acc.user = u /\ acc.reloc = r /\ acc.warns = w
BY DEF Acc, IsAcc

\* No contents, one, and contents in a row.
LEMMA PlainsAre ==
  /\ Plains(<<>>)
  /\ \A p : IsPart(p) /\ p.kind \in {"text", "image"} => Plains(<<p>>)
  /\ \A s, t : Plains(s) /\ Plains(t) =>
       /\ Plains(s \o t)
       /\ \A x : Has(s, "image", x) \/ Has(t, "image", x) => Has(s \o t, "image", x)
<1>1. Plains(<<>>)
  BY ShortSequences DEF Plains
<1>2. ASSUME NEW p, IsPart(p), p.kind \in {"text", "image"} PROVE Plains(<<p>>)
  <2> DEFINE s == <<p>>
  <2>1. IsSequence(s) /\ Len(s) = 1 /\ s[1] = p
    BY ShortSequences
  <2> HIDE DEF s
  <2>2. \A j \in 1..Len(s) : s[j] = p
    BY <2>1
  <2>3. Plains(s)
    BY <1>2, <2>1, <2>2 DEF Plains
  <2> QED
    BY <2>3 DEF s
<1>3. ASSUME NEW s, NEW t, Plains(s), Plains(t)
      PROVE  Plains(s \o t) /\ \A x : Has(s, "image", x) \/ Has(t, "image", x) => Has(s \o t, "image", x)
  <2> DEFINE c == s \o t
             n == Len(s)
  <2>0. IsSequence(s) /\ IsSequence(t) /\ n \in Nat /\ Len(t) \in Nat
    BY <1>3, SequenceLen DEF Plains
  <2>1. /\ IsSequence(c) /\ Len(c) = n + Len(t)
        /\ (\A i \in 1..n : c[i] = s[i]) /\ \A i \in 1..Len(t) : c[n + i] = t[i]
    BY <2>0, Concatenation
  <2> HIDE DEF c
  <2>2. \A i \in 1..Len(c) : \/ i \in 1..n /\ c[i] = s[i]
                             \/ i - n \in 1..Len(t) /\ c[i] = t[i - n]
    <3> TAKE i \in 1..Len(c)
    <3>1. i \in 1..n \/ (i - n \in 1..Len(t) /\ n + (i - n) = i)
      BY <2>0, <2>1
    <3> QED
      BY <2>1, <3>1
  <2>3. Plains(c)
    BY <1>3, <2>1, <2>2 DEF Plains
  <2>4. ASSUME NEW x, Has(s, "image", x) PROVE Has(c, "image", x)
    <3>1. PICK j \in 1..n : s[j].kind = "image" /\ s[j].no = x
      BY <2>4 DEF Has
    <3>2. j \in 1..Len(c) /\ c[j] = s[j]
      BY <2>0, <2>1, <3>1
    <3> QED
      BY <3>1, <3>2 DEF Has
  <2>5. ASSUME NEW x, Has(t, "image", x) PROVE Has(c, "image", x)
    <3>1. PICK j \in 1..Len(t) : t[j].kind = "image" /\ t[j].no = x
      BY <2>5 DEF Has
    <3>2. n + j \in 1..Len(c) /\ c[n + j] = t[j]
      BY <2>0, <2>1, <3>1
    <3> QED
      BY <3>1, <3>2 DEF Has
  <2> QED
    BY <2>3, <2>4, <2>5 DEF c
<1> QED
  BY <1>1, <1>2, <1>3

\* Contents have no calls and no results.
LEMMA PlainsHaveNoTools ==
  ASSUME NEW s, Plains(s)
  PROVE  OfKind(s, "tool_use") = <<>> /\ OfKind(s, "tool_result") = <<>> /\ \A x : ~Has(s, "tool_result", x)
<1>1. IsSequence(s) /\ DOMAIN s = 1..Len(s) /\ \A j \in 1..Len(s) : s[j].kind \in {"text", "image"}
  BY SequenceDomain DEF Plains
<1>2. Lacks(s, "tool_use") /\ Lacks(s, "tool_result")
  BY <1>1 DEF Lacks, ToSet
<1> QED
  BY <1>1, <1>2, NoneOfKind DEF Has

\* The images of a result become contents, which bear its number.
LEMMA RelocatedIs ==
  ASSUME NEW b, IsSequence(b.parts)
  PROVE  Plains(Relocated(b)) /\ ("image" \in ToSet(b.parts) => Has(Relocated(b), "image", b.no))
<1> DEFINE images == Select(b.parts, {"image"})
           moved(kind) == Part(Block(kind, b.id, b.no, <<>>, FALSE))
           pair == <<moved("text"), moved("image")>>
           ss == [i \in DOMAIN images |-> pair]
           n == Len(images)
           N == {b.no}
           Q == {s \in {FlattenSeq(ss)} : TRUE}
<1>0. IsSequence(images) /\ DOMAIN images = 1..n /\ n \in Nat /\ ToSet(images) = ToSet(b.parts) \cap {"image"}
  BY Selected, SequenceDomain
<1>1. Relocated(b) = FlattenSeq(ss)
  BY DEF Relocated
<1>2. \A kind : moved(kind).kind = kind /\ moved(kind).no = b.no /\ IsPart(moved(kind))
  BY PartFields DEF Block
<1> HIDE DEF moved
<1>3. Plains(pair) /\ Has(pair, "image", b.no) /\ IsSequence(pair)
  <2> DEFINE p == moved("text")
             q == moved("image")
  <2>1. IsPart(p) /\ IsPart(q) /\ p.kind = "text" /\ q.kind = "image" /\ q.no = b.no
    BY <1>2
  <2> HIDE DEF p, q
  <2>2. Plains(<<p>>) /\ Plains(<<q>>)
    BY <2>1, PlainsAre
  <2>3. Has(<<q>>, "image", b.no)
    BY <2>1, ShortSequences DEF Has
  <2>4. pair = <<p>> \o <<q>>
    BY TwoInARow DEF p, q
  <2>5. Plains(<<p>> \o <<q>>) /\ Has(<<p>> \o <<q>>, "image", b.no)
    BY <2>2, <2>3, PlainsAre
  <2> QED
    BY <2>4, <2>5 DEF Plains
<1> HIDE DEF images, n, pair
<1>4. DOMAIN ss = 1..n /\ ss = [i \in DOMAIN ss |-> ss[i]] /\ \A i \in 1..n : ss[i] = pair
  BY <1>0
<1> HIDE DEF ss
<1>5. IsSequence(ss) /\ Len(ss) = n
  BY <1>0, <1>4, TableIsSequence
<1>6. PICK f : Flattens(f, ss) /\ FlattenSeq(ss) = f[n]
  <2>1. \A i \in 1..Len(ss) : IsSequence(ss[i])
    BY <1>3, <1>4, <1>5
  <2> QED
    BY <1>5, <2>1, FlattenIs
<1> DEFINE S == {i \in Nat : i <= n => Plains(f[i]) /\ (i # 0 => Has(f[i], "image", b.no))}
<1>7. 0 \in S
  BY <1>6, PlainsAre DEF Flattens
<1>8. ASSUME NEW i \in Nat, i \in S PROVE i + 1 \in S
  <2> SUFFICES ASSUME i + 1 <= n PROVE Plains(f[i + 1]) /\ Has(f[i + 1], "image", b.no)
    OBVIOUS
  <2>1. i + 1 \in 1..n /\ (i + 1) - 1 = i /\ i <= n
    BY <1>0
  <2>2. f[i + 1] = f[i] \o pair
    BY <1>4, <1>5, <1>6, <2>1 DEF Flattens
  <2>3. Plains(f[i])
    BY <1>8, <2>1
  <2> QED
    BY <1>3, <2>2, <2>3, PlainsAre
<1> HIDE DEF S
<1>9. n \in S
  BY <1>0, <1>7, <1>8, Induction
<1>10. Plains(f[n]) /\ (n # 0 => Has(f[n], "image", b.no))
  BY <1>0, <1>9 DEF S
<1>11. "image" \in ToSet(b.parts) => n # 0
  <2>1. ASSUME "image" \in ToSet(b.parts) PROVE n # 0
    <3>1. "image" \in ToSet(images)
      BY <1>0, <2>1
    <3> QED
      BY <1>0, <3>1 DEF ToSet
  <2> QED
    BY <2>1
<1> QED
  BY <1>1, <1>6, <1>10, <1>11

\* A result's message has its one part.
LEMMA ToolMessageIs ==
  ASSUME NEW b, NEW names
  PROVE  LET c == ToolMessage(b, names)
         IN /\ IsCc(c) /\ c.role = "tool" /\ Len(c.parts) = 1
            /\ c.parts[1].kind = b.kind /\ c.parts[1].id = b.id /\ c.parts[1].no = b.no
            /\ c.parts[1].name = names[b.id]
<1> DEFINE x == names[b.id]
           p == [Part(b) EXCEPT !.name = x]
           s == <<p>>
           c == CcMessage("tool", s)
<1>1. IsPart(p) /\ p.kind = b.kind /\ p.id = b.id /\ p.no = b.no /\ p.name = x
  <2> HIDE DEF x
  <2>1. p = [kind |-> b.kind, id |-> b.id, no |-> b.no, name |-> x, cc |-> b.cc]
    BY DEF Part
  <2> HIDE DEF p
  <2> QED
    BY <2>1 DEF IsPart
<1> HIDE DEF p
<1>2. IsSequence(s) /\ Len(s) = 1 /\ s[1] = p
  BY ShortSequences
<1>3. ToolMessage(b, names) = c
  BY DEF ToolMessage, p, x
<1> HIDE DEF s
<1>4. c.role = "tool" /\ c.parts = s /\ c = CcMessage(c.role, c.parts)
  BY CcFields
<1> HIDE DEF c
<1>5. IsCc(c)
  <2>1. \A j \in 1..Len(s) : s[j] = p
    BY <1>2
  <2>2. \A j \in 1..Len(s) : IsPart(s[j])
    BY <1>1, <2>1
  <2>3. \A j \in 1..Len(c.parts) : IsPart(c.parts[j])
    BY <1>4, <2>2
  <2> QED
    BY <1>2, <1>4, <2>3 DEF IsCc
<1> QED
  BY <1>1, <1>2, <1>3, <1>4, <1>5 DEF x

\* One more message, which is not the model's.
LEMMA MessageSent ==
  ASSUME NEW e, IsEnvelope(e), \A i \in 1..Len(e) : e[i].role \in {"tool", "user"},
         NEW c, IsCc(c), c.role \in {"tool", "user"}
  PROVE  LET a == Append(e, c)
         IN /\ IsEnvelope(a) /\ Len(a) = Len(e) + 1 /\ a[Len(e) + 1] = c
            /\ \A i \in 1..Len(e) : a[i] = e[i]
            /\ \A i \in 1..Len(a) : a[i].role \in {"tool", "user"}
            /\ \A i \in 1..Len(e) : \A x : Shown(e, i, x) => Shown(a, i, x)
            /\ c.role = "user" => \A i \in 1..Len(e) : \A x : Has(c.parts, "image", x) => Shown(a, i, x)
<1> DEFINE a == Append(e, c)
           n == Len(e)
<1>0. IsSequence(e) /\ n \in Nat
  BY SequenceLen DEF IsEnvelope
<1>1. IsSequence(a) /\ Len(a) = n + 1 /\ a[n + 1] = c /\ \A i \in 1..n : a[i] = e[i]
  BY <1>0, Appended
<1> HIDE DEF a
<1>2. \A i \in 1..Len(a) : i \in 1..n \/ i = n + 1
  BY <1>0, <1>1
<1>3. IsEnvelope(a) /\ \A i \in 1..Len(a) : a[i].role \in {"tool", "user"}
  BY <1>1, <1>2 DEF IsEnvelope
<1>4. ASSUME NEW i \in 1..n, NEW x, Shown(e, i, x) PROVE Shown(a, i, x)
  <2>1. PICK j \in (i + 1)..n : e[j].role = "user" /\ Has(e[j].parts, "image", x)
    BY <1>4 DEF Shown
  <2>2. j \in 1..n /\ j \in (i + 1)..Len(a) /\ \A k \in i..j : k \in 1..Len(a)
    BY <1>0, <1>1, <2>1
  <2>3. a[j] = e[j] /\ \A k \in i..j : a[k].role # "assistant"
    BY <1>1, <1>3, <2>2
  <2> QED
    BY <2>1, <2>2, <2>3 DEF Shown
<1>5. ASSUME NEW i \in 1..n, NEW x, c.role = "user", Has(c.parts, "image", x) PROVE Shown(a, i, x)
  <2>1. n + 1 \in (i + 1)..Len(a) /\ \A k \in i..(n + 1) : k \in 1..Len(a)
    BY <1>0, <1>1
  <2>2. \A k \in i..(n + 1) : a[k].role # "assistant"
    BY <1>3, <2>1
  <2> QED
    BY <1>1, <1>5, <2>1, <2>2 DEF Shown
<1> QED
  BY <1>1, <1>3, <1>4, <1>5 DEF a

---------------------------------------------------------------------------
(* The conversion of a user message, block by block. *)

\* The user segment, or the images that wait, as a message.
LEMMA PlainMessage ==
  ASSUME NEW s, Plains(s)
  PROVE  LET c == CcMessage("user", s) IN IsCc(c) /\ c.role = "user" /\ c.parts = s
<1> DEFINE c == CcMessage("user", s)
<1>1. c.role = "user" /\ c.parts = s
  BY CcFields
<1> HIDE DEF c
<1>2. IsCc(c)
  BY <1>1 DEF IsCc, Plains, c
<1> QED
  BY <1>1, <1>2 DEF c

\* Sending the user segment.
LEMMA FlushIsSound ==
  ASSUME NEW acc, NEW N, Sound(acc, N)
  PROVE  /\ Sound(FlushUser(acc), N) /\ FlushUser(acc).user = <<>>
         /\ FlushUser(acc).out = OutAfter(acc.out, acc.user, acc.reloc)
         /\ FlushUser(acc).reloc = RelocAfter(acc.user, acc.reloc)
         /\ FlushUser(acc).warns = acc.warns
<1> DEFINE o == acc.out
           u == acc.user
           r == acc.reloc
           w == acc.warns
           o2 == OutAfter(o, u, r)
           r2 == RelocAfter(u, r)
           new == FlushUser(acc)
<1>0. acc = Acc(o, u, r, w) /\ IsEnvelope(o) /\ Plains(u) /\ Plains(r)
      /\ (\A i \in 1..Len(o) : o[i].role \in {"tool", "user"})
      /\ \A i \in 1..Len(o) : \A x \in N :
           Has(o[i].parts, "tool_result", x) => Shown(o, i, x) \/ Has(r, "image", x)
  BY DEF Sound, IsAcc
<1> HIDE DEF o, u, r, w
<1>1. new = Acc(o2, <<>>, r2, w)
  BY <1>0, FlushIs
<1> HIDE DEF new
<1>2. IsAcc(new) /\ new.out = o2 /\ new.user = <<>> /\ new.reloc = r2 /\ new.warns = w
  BY <1>1, AccFields
<1>3. CASE u = <<>>
  <2>1. o2 = o /\ r2 = r
    BY <1>3 DEF OutAfter, RelocAfter
  <2>2. Sound(new, N)
    BY <1>0, <1>2, <2>1, PlainsAre DEF Sound
  <2> QED
    BY <1>2, <2>2 DEF new, o, u, r, w
<1>4. CASE u # <<>>
  <2> DEFINE s == r \o u
             c == CcMessage("user", s)
             a == Append(o, c)
  <2>1. o2 = a /\ r2 = <<>>
    BY <1>4 DEF OutAfter, RelocAfter
  <2>2. Plains(s) /\ \A x : Has(r, "image", x) => Has(s, "image", x)
    BY <1>0, PlainsAre
  <2> HIDE DEF s
  <2>3. IsCc(c) /\ c.role = "user" /\ c.parts = s
    BY <2>2, PlainMessage
  <2>4. \A x : ~Has(c.parts, "tool_result", x)
    BY <2>2, <2>3, PlainsHaveNoTools
  <2> HIDE DEF c
  <2>5. /\ IsEnvelope(a) /\ Len(a) = Len(o) + 1 /\ a[Len(o) + 1] = c
        /\ \A i \in 1..Len(o) : a[i] = o[i]
        /\ \A i \in 1..Len(a) : a[i].role \in {"tool", "user"}
        /\ \A i \in 1..Len(o) : \A x : Shown(o, i, x) => Shown(a, i, x)
        /\ \A i \in 1..Len(o) : \A x : Has(c.parts, "image", x) => Shown(a, i, x)
    BY <1>0, <2>3, MessageSent
  <2>6. Len(o) \in Nat
    BY <1>0, SequenceLen DEF IsEnvelope
  <2> HIDE DEF a
  <2>7. ASSUME NEW i \in 1..Len(a), NEW x \in N, Has(a[i].parts, "tool_result", x) PROVE Shown(a, i, x)
    <3>1. i \in 1..Len(o) \/ i = Len(o) + 1
      BY <2>5, <2>6
    <3>2. i \in 1..Len(o) /\ a[i] = o[i]
      BY <2>4, <2>5, <2>7, <3>1
    <3>3. Shown(o, i, x) \/ Has(r, "image", x)
      BY <1>0, <2>7, <3>2
    <3> QED
      BY <2>2, <2>3, <2>5, <3>2, <3>3
  <2>8. Sound(new, N)
    BY <1>2, <2>1, <2>5, <2>7, PlainsAre DEF Sound
  <2> QED
    BY <1>2, <2>8 DEF new, o, u, r, w
<1> QED
  BY <1>3, <1>4

\* One more block.
LEMMA BlockIsSound ==
  ASSUME NEW acc, NEW N, Sound(acc, N), NEW names, NEW b,
         b.kind = "tool_result" => IsSequence(b.parts) /\ (b.no \in N => "image" \in ToSet(b.parts))
  PROVE  Sound(UserBlock(acc, b, names), N)
<1> DEFINE o == acc.out
           u == acc.user
           r == acc.reloc
           w == acc.warns
           o2 == OutAfter(o, u, r)
           r2 == RelocAfter(u, r)
           new == UserBlock(acc, b, names)
           fl == FlushUser(acc)
           c == ToolMessage(b, names)
           l == Relocated(b)
<1>0. IsAcc(acc) /\ IsEnvelope(o) /\ Plains(u) /\ Plains(r)
      /\ (\A i \in 1..Len(o) : o[i].role \in {"tool", "user"})
      /\ \A i \in 1..Len(o) : \A x \in N :
           Has(o[i].parts, "tool_result", x) => Shown(o, i, x) \/ Has(r, "image", x)
  BY DEF Sound
<1>1. Sound(fl, N) /\ fl.out = o2 /\ fl.reloc = r2
  BY FlushIsSound
<1>2. IsEnvelope(o2) /\ Plains(r2)
      /\ (\A i \in 1..Len(o2) : o2[i].role \in {"tool", "user"})
      /\ \A i \in 1..Len(o2) : \A x \in N :
           Has(o2[i].parts, "tool_result", x) => Shown(o2, i, x) \/ Has(r2, "image", x)
  <2> HIDE DEF fl, o2, r2
  <2> QED
    BY <1>1 DEF Sound
<1>3. CASE b.kind \in {"text", "image"}
  <2> DEFINE v == Append(u, Part(b))
  <2>1. new = Acc(o, v, r, w)
    BY <1>0, <1>3, UserBlockIs
  <2>2. Plains(v)
    <3>1. IsPart(Part(b)) /\ Part(b).kind \in {"text", "image"}
      BY <1>3, PartFields
    <3>2. v = u \o <<Part(b)>>
      BY <1>0, AppendIs DEF Plains
    <3>3. Plains(<<Part(b)>>)
      BY <3>1, PlainsAre
    <3> QED
      BY <1>0, <3>2, <3>3, PlainsAre
  <2> HIDE DEF v, new, o, u, r, w
  <2>3. IsAcc(new) /\ new.out = o /\ new.user = v /\ new.reloc = r
    BY <2>1, AccFields
  <2>4. Sound(new, N)
    BY <1>0, <2>2, <2>3 DEF Sound
  <2> QED
    BY <2>4 DEF new
<1>4. CASE b.kind = "tool_result" /\ b.id \in DOMAIN names
  <2> DEFINE a == Append(o2, c)
             s == r2 \o l
  <2>1. new = Acc(a, <<>>, s, w)
    BY <1>0, <1>4, UserBlockIs
  <2>2. Plains(l) /\ (b.no \in N => Has(l, "image", b.no))
    BY <1>4, RelocatedIs
  <2>3. IsCc(c) /\ c.role = "tool" /\ Len(c.parts) = 1 /\ c.parts[1].no = b.no
    BY ToolMessageIs
  <2> HIDE DEF c, l, o2, r2, o, u, r, w, new
  <2>4. Plains(s) /\ \A x : Has(r2, "image", x) \/ Has(l, "image", x) => Has(s, "image", x)
    BY <1>2, <2>2, PlainsAre
  <2>5. /\ IsEnvelope(a) /\ Len(a) = Len(o2) + 1 /\ a[Len(o2) + 1] = c
        /\ \A i \in 1..Len(o2) : a[i] = o2[i]
        /\ \A i \in 1..Len(a) : a[i].role \in {"tool", "user"}
        /\ \A i \in 1..Len(o2) : \A x : Shown(o2, i, x) => Shown(a, i, x)
    BY <1>2, <2>3, MessageSent
  <2>6. Len(o2) \in Nat
    BY <1>2, SequenceLen DEF IsEnvelope
  <2> HIDE DEF a, s
  <2>7. ASSUME NEW i \in 1..Len(a), NEW x \in N, Has(a[i].parts, "tool_result", x)
        PROVE  Shown(a, i, x) \/ Has(s, "image", x)
    <3>1. i \in 1..Len(o2) \/ i = Len(o2) + 1
      BY <2>5, <2>6
    <3>2. CASE i \in 1..Len(o2)
      <4>1. a[i] = o2[i]
        BY <2>5, <3>2
      <4>2. Shown(o2, i, x) \/ Has(r2, "image", x)
        BY <1>2, <2>7, <3>2, <4>1
      <4> QED
        BY <2>4, <2>5, <3>2, <4>2
    <3>3. CASE i = Len(o2) + 1
      <4>1. Has(c.parts, "tool_result", x)
        BY <2>5, <2>7, <3>3
      <4>2. x = b.no
        <5>1. PICK j \in 1..Len(c.parts) : c.parts[j].no = x
          BY <4>1 DEF Has
        <5>2. j = 1
          BY <2>3, <5>1
        <5> QED
          BY <2>3, <5>1, <5>2
      <4> QED
        BY <2>2, <2>4, <2>7, <4>2
    <3> QED
      BY <3>1, <3>2, <3>3
  <2>8. IsAcc(new) /\ new.out = a /\ new.user = <<>> /\ new.reloc = s
    BY <2>1, AccFields
  <2>9. Sound(new, N)
    BY <2>4, <2>5, <2>7, <2>8, PlainsAre DEF Sound
  <2> QED
    BY <2>9 DEF new
<1>5. CASE b.kind = "tool_result" /\ b.id \notin DOMAIN names
  <2> DEFINE y == w \cup {<<"orphan", b.id>>}
  <2>1. new = Acc(o2, <<>>, r2, y)
    BY <1>0, <1>5, UserBlockIs
  <2> HIDE DEF y, o2, r2, o, u, r, w, new
  <2>2. IsAcc(new) /\ new.out = o2 /\ new.user = <<>> /\ new.reloc = r2
    BY <2>1, AccFields
  <2>3. Sound(new, N)
    BY <1>2, <2>2, PlainsAre DEF Sound
  <2> QED
    BY <2>3 DEF new
<1>6. CASE b.kind \notin {"text", "image", "tool_result"}
  <2> DEFINE y == w \cup {<<"kind", b.kind>>}
  <2>1. new = Acc(o, u, r, y)
    BY <1>0, <1>6, UserBlockIs
  <2> HIDE DEF y, o, u, r, w, new
  <2>2. IsAcc(new) /\ new.out = o /\ new.user = u /\ new.reloc = r
    BY <2>1, AccFields
  <2>3. Sound(new, N)
    BY <1>0, <2>2 DEF Sound
  <2> QED
    BY <2>3 DEF new
<1> QED
  BY <1>3, <1>4, <1>5, <1>6

\* All of them.
LEMMA StepsAreSound ==
  ASSUME NEW m, IsSequence(m.blocks), NEW N, Pictured(m, N), NEW names, NEW f, UserSteps(f, m, names)
  PROVE  \A n \in 0..Len(m.blocks) : Sound(f[n], N)
<1> DEFINE s == m.blocks
           S == {n \in Nat : n <= Len(s) => Sound(f[n], N)}
<1>0. DOMAIN s = 1..Len(s) /\ Len(s) \in Nat
  BY SequenceDomain
<1>1. 0 \in S
  <2> DEFINE acc == f[0]
             e == <<>>
  <2>1. acc = Acc(e, e, e, {})
    BY DEF UserSteps
  <2>2. IsEnvelope(e) /\ Plains(e) /\ Len(e) = 0
    BY ShortEnvelopes, PlainsAre, ShortSequences
  <2> HIDE DEF acc, e
  <2>3. IsAcc(acc) /\ acc.out = e /\ acc.user = e /\ acc.reloc = e
    BY <2>1, AccFields
  <2>4. Sound(acc, N)
    BY <2>2, <2>3 DEF Sound
  <2> QED
    BY <2>4 DEF acc
<1>2. ASSUME NEW n \in Nat, n \in S PROVE n + 1 \in S
  <2> SUFFICES ASSUME n + 1 <= Len(s) PROVE Sound(f[n + 1], N)
    OBVIOUS
  <2>1. n + 1 \in 1..Len(s) /\ (n + 1) - 1 = n /\ n <= Len(s)
    BY <1>0
  <2>2. Sound(f[n], N) /\ f[n + 1] = UserBlock(f[n], s[n + 1], names)
    BY <1>2, <2>1 DEF UserSteps
  <2>3. s[n + 1] \in ToSet(s)
    BY <1>0, <2>1 DEF ToSet
  <2> QED
    BY <2>2, <2>3, BlockIsSound DEF Pictured
<1> HIDE DEF S
<1>3. \A n \in Nat : n \in S
  BY <1>1, <1>2, Induction
<1> QED
  BY <1>0, <1>3 DEF S

\* No message of e is the model's, and the images of the results N are shown behind them.
Tended(e, N) ==
  /\ IsEnvelope(e)
  /\ \A i \in 1..Len(e) : e[i].role \in {"tool", "user"}
  /\ \A i \in 1..Len(e) : \A x \in N : Has(e[i].parts, "tool_result", x) => Shown(e, i, x)

\* So a user message's conversion leaves no image behind.
LEMMA UserTended ==
  ASSUME NEW m, IsSequence(m.blocks), NEW N, Pictured(m, N), NEW names
  PROVE  Tended(ConvertUser(m, names).msgs, N)
<1> DEFINE n == Len(m.blocks)
           e == ConvertUser(m, names).msgs
<1>1. PICK f : UserSteps(f, m, names) /\ UserBlocks(m, names) = FlushUser(f[n])
  BY UserBlocksAre
<1> DEFINE done == FlushUser(f[n])
           o == done.out
           r == done.reloc
           c == CcMessage("user", r)
           a == Append(o, c)
<1>2. Sound(f[n], N)
  <2>1. n \in 0..n
    BY SequenceLen
  <2> QED
    BY <1>1, <2>1, StepsAreSound
<1>3. Sound(done, N)
  BY <1>2, FlushIsSound
<1>4. e = IF r = <<>> THEN o ELSE a
  BY <1>1 DEF ConvertUser
<1> HIDE DEF e
<1>5. IsEnvelope(o) /\ Plains(r)
      /\ (\A i \in 1..Len(o) : o[i].role \in {"tool", "user"})
      /\ \A i \in 1..Len(o) : \A x \in N :
           Has(o[i].parts, "tool_result", x) => Shown(o, i, x) \/ Has(r, "image", x)
  <2> HIDE DEF done
  <2> QED
    BY <1>3 DEF Sound
<1> HIDE DEF o, r
<1>6. CASE r = <<>>
  <2>1. \A x : ~Has(r, "image", x)
    BY <1>6, ShortSequences DEF Has
  <2> QED
    BY <1>4, <1>5, <1>6, <2>1 DEF Tended, e
<1>7. CASE r # <<>>
  <2>1. IsCc(c) /\ c.role = "user" /\ c.parts = r
    BY <1>5, PlainMessage
  <2>2. \A x : ~Has(c.parts, "tool_result", x)
    BY <1>5, <2>1, PlainsHaveNoTools
  <2> HIDE DEF c
  <2>3. /\ IsEnvelope(a) /\ Len(a) = Len(o) + 1 /\ a[Len(o) + 1] = c
        /\ \A i \in 1..Len(o) : a[i] = o[i]
        /\ \A i \in 1..Len(a) : a[i].role \in {"tool", "user"}
        /\ \A i \in 1..Len(o) : \A x : Shown(o, i, x) => Shown(a, i, x)
        /\ \A i \in 1..Len(o) : \A x : Has(c.parts, "image", x) => Shown(a, i, x)
    BY <1>5, <2>1, MessageSent
  <2>4. Len(o) \in Nat
    BY <1>5, SequenceLen DEF IsEnvelope
  <2> HIDE DEF a
  <2>5. ASSUME NEW i \in 1..Len(a), NEW x \in N, Has(a[i].parts, "tool_result", x) PROVE Shown(a, i, x)
    <3>1. i \in 1..Len(o) \/ i = Len(o) + 1
      BY <2>3, <2>4
    <3>2. i \in 1..Len(o) /\ a[i] = o[i]
      BY <2>2, <2>3, <2>5, <3>1
    <3> QED
      BY <1>5, <2>1, <2>3, <2>5, <3>2
  <2> QED
    BY <1>4, <1>7, <2>3, <2>5 DEF Tended, e
<1> QED
  BY <1>6, <1>7

---------------------------------------------------------------------------
(* A user message whose results come first. *)

\* After n blocks the first results have gone out, and nothing else.
Leads(acc, rs, names, n) ==
  LET k == IF n <= Len(rs) THEN n ELSE Len(rs)
  IN /\ IsAcc(acc) /\ IsSequence(acc.out) /\ Len(acc.out) = k
     /\ \A i \in 1..k : acc.out[i] = ToolMessage(rs[i], names)
     /\ n <= Len(rs) => acc.user = <<>>

\* Every block keeps it: first the results come, then none.
LEMMA ResultsLead ==
  ASSUME NEW m, IsMessage(m), m.role = "user", InOrder(m), NEW names,
         \A r \in ToSet(ResultsOf(m)) : r.id \in DOMAIN names,
         NEW f, UserSteps(f, m, names)
  PROVE  \A n \in 0..Len(m.blocks) : Leads(f[n], ResultsOf(m), names, n)
<1> DEFINE s == m.blocks
           rs == ResultsOf(m)
           os == Except(s, "tool_result")
           h == Len(rs)
           S == {n \in Nat : n <= Len(s) => Leads(f[n], rs, names, n)}
<1>0. IsSequence(s) /\ Len(s) \in Nat
  BY SequenceLen DEF IsMessage
<1>1. IsSequence(rs) /\ IsSequence(os) /\ h \in Nat /\ Len(os) \in Nat
      /\ (\A r \in ToSet(rs) : r.kind = "tool_result") /\ \A b \in ToSet(os) : b.kind # "tool_result"
  BY <1>0, Filters, SequenceLen DEF ResultsOf
<1>2. s = rs \o os
  <2>1. "user" # "assistant"
    OBVIOUS
  <2> QED
    BY <2>1 DEF InOrder
<1>3. /\ Len(s) = h + Len(os)
      /\ (\A i \in 1..h : s[i] = rs[i]) /\ \A i \in 1..Len(os) : s[h + i] = os[i]
  <2> HIDE DEF rs, os, s
  <2> QED
    BY <1>1, <1>2, Concatenation
<1>4. DOMAIN rs = 1..h /\ DOMAIN os = 1..Len(os)
  BY <1>1, SequenceDomain
<1>5. /\ \A i \in 1..h : s[i].kind = "tool_result" /\ s[i].id \in DOMAIN names
      /\ \A i \in 1..Len(s) : i > h => s[i].kind # "tool_result"
  <2>1. ASSUME NEW i \in 1..h PROVE s[i].kind = "tool_result" /\ s[i].id \in DOMAIN names
    <3>1. rs[i] \in ToSet(rs)
      BY <1>4 DEF ToSet
    <3> QED
      BY <1>1, <1>3, <3>1
  <2>2. ASSUME NEW i \in 1..Len(s), i > h PROVE s[i].kind # "tool_result"
    <3>1. i - h \in 1..Len(os) /\ h + (i - h) = i
      BY <1>1, <1>3, <2>2
    <3>2. os[i - h] \in ToSet(os)
      BY <1>4, <3>1 DEF ToSet
    <3> QED
      BY <1>1, <1>3, <3>1, <3>2
  <2> QED
    BY <2>1, <2>2
<1> HIDE DEF rs, os, s, h
<1>6. 0 \in S
  <2> DEFINE acc == f[0]
             e == <<>>
  <2>1. acc = Acc(e, e, e, {})
    BY DEF UserSteps
  <2>2. IsSequence(e) /\ Len(e) = 0
    BY ShortSequences
  <2> HIDE DEF acc, e
  <2>3. IsAcc(acc) /\ acc.out = e /\ acc.user = e
    BY <2>1, AccFields
  <2>4. Leads(acc, rs, names, 0)
    BY <1>1, <2>2, <2>3 DEF Leads, h, e
  <2> QED
    BY <2>4 DEF acc
<1>7. ASSUME NEW n \in Nat, n \in S PROVE n + 1 \in S
  <2> SUFFICES ASSUME n + 1 <= Len(s) PROVE Leads(f[n + 1], rs, names, n + 1)
    OBVIOUS
  <2> DEFINE acc == f[n]
             new == f[n + 1]
             b == s[n + 1]
             o == acc.out
             u == acc.user
             r == acc.reloc
             w == acc.warns
  <2>1. n + 1 \in 1..Len(s) /\ (n + 1) - 1 = n /\ n <= Len(s)
    BY <1>0
  <2>2. Leads(acc, rs, names, n) /\ new = UserBlock(acc, b, names)
    BY <1>7, <2>1 DEF UserSteps, s
  <2>3. CASE n + 1 <= h
    <3> DEFINE c == ToolMessage(b, names)
               a == Append(o, c)
               r2 == RelocAfter(u, r) \o Relocated(b)
    <3>1. n <= h /\ n + 1 \in 1..h
      BY <1>1, <2>3
    <3>2. IsAcc(acc) /\ IsSequence(o) /\ Len(o) = n /\ u = <<>>
          /\ \A i \in 1..n : o[i] = ToolMessage(rs[i], names)
      BY <2>2, <3>1 DEF Leads, h
    <3>3. b.kind = "tool_result" /\ b.id \in DOMAIN names /\ b = rs[n + 1]
      BY <1>3, <1>5, <3>1
    <3>4. new = Acc(Append(OutAfter(o, u, r), c), <<>>, r2, w)
      BY <2>2, <3>2, <3>3, UserBlockIs
    <3>5. OutAfter(o, u, r) = o
      BY <3>2 DEF OutAfter
    <3>6. new = Acc(a, <<>>, r2, w)
      BY <3>4, <3>5
    <3>7. IsSequence(a) /\ Len(a) = n + 1 /\ a[n + 1] = c /\ \A i \in 1..n : a[i] = o[i]
      BY <3>2, Appended
    <3> HIDE DEF a, r2, w, o, u, r, new, acc
    <3>8. IsAcc(new) /\ new.out = a /\ new.user = <<>>
      BY <3>6, AccFields
    <3>9. \A i \in 1..(n + 1) : a[i] = ToolMessage(rs[i], names)
      <4> TAKE i \in 1..(n + 1)
      <4>1. i \in 1..n \/ i = n + 1
        OBVIOUS
      <4> QED
        BY <3>2, <3>3, <3>7, <4>1
    <3>10. Leads(new, rs, names, n + 1)
      BY <2>3, <3>7, <3>8, <3>9 DEF Leads, h
    <3> QED
      BY <3>10 DEF new
  <2>4. CASE n + 1 > h
    <3>1. b.kind # "tool_result"
      BY <1>5, <2>1, <2>4
    <3>2. IsAcc(acc) /\ IsSequence(o) /\ Len(o) = h /\ \A i \in 1..h : o[i] = ToolMessage(rs[i], names)
      <4>1. (IF n <= h THEN n ELSE h) = h
        BY <1>1, <2>4
      <4> QED
        BY <2>2, <4>1 DEF Leads, h
    <3>3. new.out = o /\ IsAcc(new)
      <4>1. CASE b.kind \in {"text", "image"}
        <5>1. new = Acc(o, Append(u, Part(b)), r, w)
          BY <2>2, <3>2, <4>1, UserBlockIs
        <5> QED
          BY <5>1, AccFields
      <4>2. CASE b.kind \notin {"text", "image"}
        <5>1. new = Acc(o, u, r, w \cup {<<"kind", b.kind>>})
          BY <2>2, <3>1, <3>2, <4>2, UserBlockIs
        <5> QED
          BY <5>1, AccFields
      <4> QED
        BY <4>1, <4>2
    <3> HIDE DEF o, new, acc
    <3>4. ~(n + 1 <= h)
      BY <1>1, <2>4
    <3>5. Leads(new, rs, names, n + 1)
      BY <3>2, <3>3, <3>4 DEF Leads, h
    <3> QED
      BY <3>5 DEF new
  <2> QED
    BY <1>1, <2>3, <2>4
<1> HIDE DEF S
<1>8. \A n \in Nat : n \in S
  BY <1>6, <1>7, Induction
<1> QED
  BY <1>0, <1>8 DEF S, s, rs

\* What such a message becomes: its results, one message each, and then contents.
LEMMA UserPiece ==
  ASSUME NEW m, IsMessage(m), m.role = "user", InOrder(m), Pictured(m, {}), NEW names,
         \A r \in ToSet(ResultsOf(m)) : r.id \in DOMAIN names
  PROVE  LET e == ConvertUser(m, names).msgs
             h == Len(ResultsOf(m))
         IN /\ Tended(e, {}) /\ h \in 0..Len(e)
            /\ \A i \in 1..h : e[i] = ToolMessage(ResultsOf(m)[i], names)
            /\ \A i \in 1..Len(e) : i > h => Plains(e[i].parts)
<1> DEFINE n == Len(m.blocks)
           e == ConvertUser(m, names).msgs
           rs == ResultsOf(m)
           h == Len(rs)
<1>0. IsSequence(m.blocks) /\ n \in Nat /\ h \in Nat /\ h <= n
  <2>1. IsSequence(m.blocks) /\ n \in Nat
    BY SequenceLen DEF IsMessage
  <2>2. IsSequence(rs) /\ IsSequence(Except(m.blocks, "tool_result"))
    BY <2>1, Filters DEF ResultsOf
  <2>3. m.blocks = rs \o Except(m.blocks, "tool_result")
    <3>1. "user" # "assistant"
      OBVIOUS
    <3> QED
      BY <3>1 DEF InOrder
  <2> DEFINE os == Except(m.blocks, "tool_result")
  <2>4. Len(rs \o os) = h + Len(os) /\ Len(os) \in Nat /\ h \in Nat
    BY <2>2, Concatenation, SequenceLen
  <2>5. n = h + Len(os)
    BY <2>3, <2>4
  <2> QED
    BY <2>1, <2>4, <2>5
<1>1. PICK f : UserSteps(f, m, names) /\ UserBlocks(m, names) = FlushUser(f[n])
  BY <1>0, UserBlocksAre
<1> DEFINE acc == f[n]
           done == FlushUser(acc)
           o == acc.out
           u == acc.user
           r == acc.reloc
           o2 == OutAfter(o, u, r)
           r2 == RelocAfter(u, r)
<1>2. Sound(acc, {}) /\ Leads(acc, rs, names, n)
  <2>1. n \in 0..n
    BY <1>0
  <2>2. Sound(f[n], {})
    BY <1>0, <1>1, <2>1, StepsAreSound
  <2>3. Leads(f[n], rs, names, n)
    BY <1>1, <2>1, ResultsLead
  <2> QED
    BY <2>2, <2>3
<1>3. done.out = o2 /\ done.reloc = r2
  BY <1>2, FlushIsSound
<1>4. e = IF r2 = <<>> THEN o2 ELSE Append(o2, CcMessage("user", r2))
  BY <1>1, <1>3 DEF ConvertUser
<1>5. Tended(e, {})
  BY <1>0, UserTended
<1> HIDE DEF e
<1>6. IsSequence(o) /\ Len(o) = h /\ \A i \in 1..h : o[i] = ToolMessage(rs[i], names)
  <2>1. (IF n <= h THEN n ELSE h) = h
    BY <1>0
  <2> QED
    BY <1>2, <2>1 DEF Leads
<1>7. Plains(u) /\ Plains(r)
  BY <1>2 DEF Sound
<1> HIDE DEF o, u, r, acc
<1>8. \/ e = o
      \/ \E x : Plains(x) /\ e = Append(o, CcMessage("user", x))
  <2>1. CASE u = <<>>
    <3>1. o2 = o /\ r2 = r
      BY <2>1 DEF OutAfter, RelocAfter
    <3> QED
      BY <1>4, <1>7, <3>1
  <2>2. CASE u # <<>>
    <3> DEFINE x == r \o u
    <3>1. o2 = Append(o, CcMessage("user", x)) /\ r2 = <<>>
      BY <2>2 DEF OutAfter, RelocAfter
    <3>2. Plains(x)
      BY <1>7, PlainsAre
    <3> HIDE DEF x
    <3> QED
      BY <1>4, <3>1, <3>2
  <2> QED
    BY <2>1, <2>2
<1>9. CASE e = o
  <2>1. h \in 0..Len(e) /\ \A i \in 1..Len(e) : ~(i > h)
    BY <1>0, <1>6, <1>9
  <2>2. /\ Tended(e, {}) /\ h \in 0..Len(e)
        /\ \A i \in 1..h : e[i] = ToolMessage(rs[i], names)
        /\ \A i \in 1..Len(e) : i > h => Plains(e[i].parts)
    BY <1>5, <1>6, <1>9, <2>1
  <2> QED
    BY <2>2 DEF e
<1>10. CASE \E x : Plains(x) /\ e = Append(o, CcMessage("user", x))
  <2>1. PICK x : Plains(x) /\ e = Append(o, CcMessage("user", x))
    BY <1>10
  <2> DEFINE c == CcMessage("user", x)
  <2>2. c.parts = x
    BY CcFields
  <2> HIDE DEF c
  <2>3. Len(e) = h + 1 /\ e[h + 1] = c /\ \A i \in 1..h : e[i] = o[i]
    BY <1>6, <2>1, Appended DEF c
  <2>4. h \in 0..Len(e) /\ \A i \in 1..Len(e) : i > h => i = h + 1
    BY <1>0, <2>3
  <2>5. /\ Tended(e, {}) /\ h \in 0..Len(e)
        /\ \A i \in 1..h : e[i] = ToolMessage(rs[i], names)
        /\ \A i \in 1..Len(e) : i > h => Plains(e[i].parts)
    BY <1>5, <1>6, <2>1, <2>2, <2>3, <2>4
  <2> QED
    BY <2>5 DEF e
<1> QED
  BY <1>8, <1>9, <1>10

\* Counting the results of an envelope that starts with h of them.
LEMMA ResultsCounted ==
  ASSUME NEW e, IsEnvelope(e), NEW h \in 0..Len(e),
         \A i \in 1..h : Len(e[i].parts) = 1 /\ e[i].parts[1].kind = "tool_result",
         \A i \in 1..Len(e) : i > h => Plains(e[i].parts)
  PROVE  OfKind(PartsIn(e), "tool_use") = <<>> /\ Len(OfKind(PartsIn(e), "tool_result")) = h
<1>1. PICK t : /\ PartsIn(e) = FlattenSeq(t) /\ IsSequence(t) /\ Len(t) = Len(e)
               /\ \A i \in 1..Len(e) : t[i] = e[i].parts /\ IsSequence(t[i])
  BY PartsAreFlat
<1>2. PICK f : Flattens(f, t) /\ FlattenSeq(t) = f[Len(t)]
  BY <1>1, FlattenIs
<1>3. Len(e) \in Nat /\ h \in Nat /\ h <= Len(e)
  BY <1>1, SequenceLen
<1> DEFINE S == {n \in Nat : n <= Len(e) =>
                   /\ OfKind(f[n], "tool_use") = <<>>
                   /\ Len(OfKind(f[n], "tool_result")) = IF n <= h THEN n ELSE h}
<1>4. 0 \in S
  <2>1. f[0] = <<>>
    BY <1>2 DEF Flattens
  <2> QED
    BY <1>3, <2>1, FiltersOfNone, ShortSequences
<1>5. ASSUME NEW n \in Nat, n \in S PROVE n + 1 \in S
  <2> SUFFICES ASSUME n + 1 <= Len(e)
               PROVE  /\ OfKind(f[n + 1], "tool_use") = <<>>
                      /\ Len(OfKind(f[n + 1], "tool_result")) = IF n + 1 <= h THEN n + 1 ELSE h
    OBVIOUS
  <2> DEFINE x == f[n]
             y == t[n + 1]
             k == IF n <= h THEN n ELSE h
  <2>1. n + 1 \in 1..Len(e) /\ (n + 1) - 1 = n /\ n \in 0..Len(e) /\ n <= Len(e)
    BY <1>3
  <2>2. f[n + 1] = x \o y /\ IsSequence(x) /\ IsSequence(y) /\ y = e[n + 1].parts
    BY <1>1, <1>2, <2>1 DEF Flattens
  <2>3. OfKind(x, "tool_use") = <<>> /\ Len(OfKind(x, "tool_result")) = k
    BY <1>5, <2>1
  <2>4. OfKind(y, "tool_use") = <<>> /\ Len(OfKind(y, "tool_result")) = IF n + 1 <= h THEN 1 ELSE 0
    <3>1. CASE n + 1 <= h
      <4>1. n + 1 \in 1..h
        BY <3>1
      <4>2. Len(y) = 1 /\ y[1].kind = "tool_result"
        BY <2>2, <4>1
      <4>3. DOMAIN y = 1..1
        BY <2>2, <4>2, SequenceDomain
      <4>4. Every(y, "tool_result") /\ Lacks(y, "tool_use")
        <5>1. \A b \in ToSet(y) : b = y[1]
          BY <4>3 DEF ToSet
        <5> QED
          BY <4>2, <5>1 DEF Every, Lacks
      <4>5. OfKind(y, "tool_use") = <<>> /\ OfKind(y, "tool_result") = y
        BY <2>2, <4>4, NoneOfKind
      <4> QED
        BY <3>1, <4>2, <4>5
    <3>2. CASE ~(n + 1 <= h)
      <4>1. n + 1 > h
        BY <1>3, <3>2
      <4>2. Plains(y)
        BY <2>1, <2>2, <4>1
      <4>3. OfKind(y, "tool_use") = <<>> /\ OfKind(y, "tool_result") = <<>>
        BY <4>2, PlainsHaveNoTools
      <4> QED
        BY <3>2, <4>3, ShortSequences
    <3> QED
      BY <3>1, <3>2
  <2> HIDE DEF x, y
  <2>5. \A kind : /\ OfKind(x \o y, kind) = OfKind(x, kind) \o OfKind(y, kind)
                  /\ IsSequence(OfKind(x, kind)) /\ IsSequence(OfKind(y, kind))
    BY <2>2, KindsSplit, Filters
  <2>6. OfKind(x \o y, "tool_use") = <<>>
    BY <2>3, <2>4, <2>5, EmptyConcatenation, ShortSequences
  <2>7. Len(OfKind(x \o y, "tool_result")) = Len(OfKind(x, "tool_result")) + Len(OfKind(y, "tool_result"))
    BY <2>5, Concatenation
  <2> QED
    BY <1>3, <2>2, <2>3, <2>4, <2>6, <2>7
<1> HIDE DEF S
<1>6. Len(e) \in S
  BY <1>3, <1>4, <1>5, Induction
<1>7. OfKind(f[Len(e)], "tool_use") = <<>> /\ Len(OfKind(f[Len(e)], "tool_result")) = h
  BY <1>3, <1>6 DEF S
<1> QED
  BY <1>1, <1>2, <1>7

---------------------------------------------------------------------------
(* A message with calls and the one that answers them. *)

\* Whoever calls no id twice knows each tool by the call of its id.
LEMMA NamesAre ==
  ASSUME NEW M, AreMessages(M)
  PROVE  /\ DOMAIN ToolNames(M) = Declared(M)
         /\ OnceEach(OfKind(Blocks(M), "tool_use")) =>
              \A c \in ToSet(OfKind(Blocks(M), "tool_use")) : ToolNames(M)[c.id] = c.no
<1> DEFINE calls == OfKind(Blocks(M), "tool_use")
<1>0. IsSequence(calls)
  BY BlocksAreSequence, Filters
<1>1. ToolNames(M) = [id \in IdsOf(calls) |-> ResultFor(calls, id).no] /\ Declared(M) = IdsOf(calls)
  BY DEF ToolNames, Declared, ResultFor
<1> HIDE DEF calls
<1>2. ASSUME OnceEach(calls), NEW c \in ToSet(calls) PROVE ToolNames(M)[c.id] = c.no
  <2>1. c.id \in IdsOf(calls)
    BY IdFound
  <2>2. ResultFor(calls, c.id) = c
    BY <1>0, <1>2, OnlyAnswer
  <2> QED
    BY <1>1, <2>1, <2>2
<1> QED
  BY <1>1, <1>2 DEF calls

\* The message of an assistant, as an envelope.
LEMMA AssistantSent ==
  ASSUME NEW m, IsMessage(m), m.role = "assistant", NEW reasoning
  PROVE  LET e == ConvertAssistant(m, reasoning).msgs
         IN /\ IsEnvelope(e) /\ Len(e) <= 1 /\ Len(e) \in Nat
            /\ (\A i \in 1..Len(e) : e[i].role = "assistant" /\ Uses(e[i]) = PartsOf(CallsOf(m)))
            /\ OfKind(PartsIn(e), "tool_use") = PartsOf(CallsOf(m))
            /\ OfKind(PartsIn(e), "tool_result") = <<>>
            /\ CallsOf(m) # <<>> => Len(e) = 1
            /\ \A i \in 1..Len(e) : \A x : ~Has(e[i].parts, "tool_result", x)
<1> DEFINE e == ConvertAssistant(m, reasoning).msgs
           c == CallsOf(m)
<1>1. PICK s : /\ IsSequence(s) /\ \A i \in 1..Len(s) : IsPart(s[i])
               /\ OfKind(s, "tool_use") = PartsOf(c) /\ OfKind(s, "tool_result") = <<>>
               /\ e = IF s = <<>> THEN <<>> ELSE <<CcMessage("assistant", s)>>
  BY AssistantPiece
<1>2. PartsOf(c) = <<>> => c = <<>>
  <2>1. IsSequence(c)
    BY Filters DEF IsMessage, CallsOf
  <2> HIDE DEF c
  <2>2. ASSUME PartsOf(c) = <<>> PROVE c = <<>>
    <3>1. Len(PartsOf(c)) = Len(c) /\ Len(<<>>) = 0 /\ IsSequence(<<>>)
      BY <2>1, PartsOfIs, ShortSequences
    <3> QED
      BY <2>1, <2>2, <3>1, SameSequence
  <2> QED
    BY <2>2
<1> HIDE DEF e, c
<1>3. CASE s = <<>>
  <2>1. e = <<>> /\ IsEnvelope(e) /\ PartsIn(e) = s /\ Len(e) = 0
    BY <1>1, <1>3, ShortEnvelopes, ShortSequences
  <2>2. OfKind(s, "tool_use") = <<>>
    BY <1>3, FiltersOfNone
  <2> QED
    BY <1>1, <1>2, <2>1, <2>2 DEF e, c
<1>4. CASE s # <<>>
  <2> DEFINE d == CcMessage("assistant", s)
  <2>1. e = <<d>>
    BY <1>1, <1>4
  <2>2. d.role = "assistant" /\ d.parts = s
    BY CcFields
  <2> HIDE DEF d
  <2>3. IsCc(d)
    BY <1>1, <2>2 DEF IsCc, d
  <2>4. IsEnvelope(e) /\ PartsIn(e) = s
    BY <2>1, <2>2, <2>3, ShortEnvelopes
  <2>5. Len(e) = 1 /\ e[1] = d
    BY <2>1, ShortSequences
  <2>6. Uses(d) = PartsOf(c)
    BY <1>1, <2>2 DEF Uses
  <2>7. \A x : ~Has(s, "tool_result", x)
    <3>1. Lacks(s, "tool_result") /\ DOMAIN s = 1..Len(s)
      BY <1>1, NoneOfKind, SequenceDomain
    <3> QED
      BY <3>1 DEF Lacks, Has, ToSet
  <2>8. \A i \in 1..Len(e) : e[i] = d
    BY <2>5
  <2>9. /\ IsEnvelope(e) /\ Len(e) <= 1 /\ Len(e) \in Nat
        /\ (\A i \in 1..Len(e) : e[i].role = "assistant" /\ Uses(e[i]) = PartsOf(c))
        /\ OfKind(PartsIn(e), "tool_use") = PartsOf(c)
        /\ OfKind(PartsIn(e), "tool_result") = <<>>
        /\ c # <<>> => Len(e) = 1
        /\ \A i \in 1..Len(e) : \A x : ~Has(e[i].parts, "tool_result", x)
    BY <1>1, <2>2, <2>4, <2>5, <2>6, <2>7, <2>8
  <2> QED
    BY <2>9 DEF e, c
<1> QED
  BY <1>3, <1>4

\* One without calls is whole by itself, ...
LEMMA AssistantAlone ==
  ASSUME NEW m, IsMessage(m), m.role = "assistant", CallsOf(m) = <<>>, NEW reasoning, NEW once
  PROVE  Whole(ConvertAssistant(m, reasoning).msgs, once)
<1> DEFINE e == ConvertAssistant(m, reasoning).msgs
<1>1. PartsOf(CallsOf(m)) = <<>>
  BY DEF PartsOf
<1>2. /\ IsEnvelope(e) /\ \A i \in 1..Len(e) : Uses(e[i]) = PartsOf(CallsOf(m))
      /\ OfKind(PartsIn(e), "tool_use") = PartsOf(CallsOf(m)) /\ OfKind(PartsIn(e), "tool_result") = <<>>
  BY AssistantSent
<1> HIDE DEF e
<1>3. \A i \in 1..Len(e) : Len(Uses(e[i])) = 0
  BY <1>1, <1>2, ShortSequences
<1>4. CallsFollowed(e, once)
  BY <1>3 DEF CallsFollowed
<1> QED
  BY <1>1, <1>2, <1>4 DEF Whole, e

\* The messages of a user message call nothing, and their results are counted.
LEMMA UserSent ==
  ASSUME NEW m, IsMessage(m), m.role = "user", InOrder(m), Pictured(m, {}), NEW names,
         \A r \in ToSet(ResultsOf(m)) : r.id \in DOMAIN names
  PROVE  LET e == ConvertUser(m, names).msgs
         IN /\ IsEnvelope(e) /\ \A i \in 1..Len(e) : Uses(e[i]) = <<>>
            /\ OfKind(PartsIn(e), "tool_use") = <<>>
            /\ Len(OfKind(PartsIn(e), "tool_result")) = Len(ResultsOf(m))
            /\ Len(ResultsOf(m)) <= Len(e)
            /\ \A i \in 1..Len(ResultsOf(m)) : e[i] = ToolMessage(ResultsOf(m)[i], names)
<1> DEFINE e == ConvertUser(m, names).msgs
           rs == ResultsOf(m)
           h == Len(rs)
<1>1. /\ Tended(e, {}) /\ h \in 0..Len(e)
      /\ \A i \in 1..h : e[i] = ToolMessage(rs[i], names)
      /\ \A i \in 1..Len(e) : i > h => Plains(e[i].parts)
  BY UserPiece
<1> HIDE DEF e
<1>2. IsEnvelope(e) /\ \A i \in 1..Len(e) : Uses(e[i]) = <<>>
  BY <1>1 DEF Tended, Uses
<1>3. IsSequence(rs) /\ h \in Nat /\ DOMAIN rs = 1..h /\ \A r \in ToSet(rs) : r.kind = "tool_result"
  BY Filters, SequenceDomain DEF IsMessage, ResultsOf
<1> HIDE DEF rs
<1>4. \A i \in 1..h : Len(e[i].parts) = 1 /\ e[i].parts[1].kind = "tool_result"
  <2> TAKE i \in 1..h
  <2>1. rs[i] \in ToSet(rs)
    BY <1>3 DEF ToSet
  <2>2. rs[i].kind = "tool_result" /\ e[i] = ToolMessage(rs[i], names)
    BY <1>1, <1>3, <2>1
  <2> QED
    BY <2>2, ToolMessageIs
<1>5. OfKind(PartsIn(e), "tool_use") = <<>> /\ Len(OfKind(PartsIn(e), "tool_result")) = h
  BY <1>1, <1>2, <1>4, ResultsCounted
<1>6. h <= Len(e)
  BY <1>1
<1> QED
  BY <1>1, <1>2, <1>5, <1>6 DEF e, rs

\* ... so is a user message without results, ...
LEMMA UserAlone ==
  ASSUME NEW m, IsMessage(m), m.role = "user", InOrder(m), Pictured(m, {}), NEW names, ResultsOf(m) = <<>>, NEW once
  PROVE  Whole(ConvertUser(m, names).msgs, once)
<1> DEFINE e == ConvertUser(m, names).msgs
<1>1. ToSet(ResultsOf(m)) = {} /\ Len(ResultsOf(m)) = 0
  BY ShortSequences DEF ToSet
<1>2. /\ IsEnvelope(e) /\ \A i \in 1..Len(e) : Uses(e[i]) = <<>>
      /\ OfKind(PartsIn(e), "tool_use") = <<>>
      /\ Len(OfKind(PartsIn(e), "tool_result")) = 0
  BY <1>1, UserSent
<1> HIDE DEF e
<1>3. \A i \in 1..Len(e) : Len(Uses(e[i])) = 0
  BY <1>2, ShortSequences
<1>4. CallsFollowed(e, once)
  BY <1>3 DEF CallsFollowed
<1>5. Len(<<>>) = 0
  BY ShortSequences
<1> QED
  BY <1>2, <1>4, <1>5 DEF Whole, e

\* ... and so are a message with calls and the one behind it that starts with their results.
LEMMA PairIsWhole ==
  ASSUME NEW m, IsMessage(m), m.role = "assistant", CallsOf(m) # <<>>,
         NEW u, IsMessage(u), u.role = "user", InOrder(u), Pictured(u, {}),
         IdSeq(ResultsOf(u)) = IdSeq(CallsOf(m)),
         NEW names, \A c \in ToSet(CallsOf(m)) : c.id \in DOMAIN names,
         NEW once, once => \A c \in ToSet(CallsOf(m)) : names[c.id] = c.no,
         NEW reasoning
  PROVE  Whole(ConvertAssistant(m, reasoning).msgs \o ConvertUser(u, names).msgs, once)
<1> DEFINE a == ConvertAssistant(m, reasoning).msgs
           b == ConvertUser(u, names).msgs
           e == a \o b
           cs == CallsOf(m)
           rs == ResultsOf(u)
           n == Len(cs)
<1>0. IsSequence(cs) /\ IsSequence(rs) /\ n \in Nat /\ DOMAIN cs = 1..n /\ DOMAIN rs = 1..Len(rs)
      /\ \A r \in ToSet(rs) : r.kind = "tool_result"
  BY Filters, SequenceDomain DEF IsMessage, CallsOf, ResultsOf
<1>1. Len(rs) = n /\ \A i \in 1..n : rs[i].id = cs[i].id
  <2> HIDE DEF cs, rs
  <2>1. /\ Len(IdSeq(cs)) = n /\ \A i \in 1..n : IdSeq(cs)[i] = cs[i].id
        /\ Len(IdSeq(rs)) = Len(rs) /\ \A i \in 1..Len(rs) : IdSeq(rs)[i] = rs[i].id
    BY <1>0, IdSeqIs
  <2>2. IdSeq(rs) = IdSeq(cs)
    BY DEF cs, rs
  <2> QED
    BY <2>1, <2>2
<1>2. \A r \in ToSet(rs) : r.id \in DOMAIN names
  <2> TAKE r \in ToSet(rs)
  <2>1. PICK i \in 1..n : r = rs[i]
    BY <1>0, <1>1 DEF ToSet
  <2>2. cs[i] \in ToSet(cs)
    BY <1>0 DEF ToSet
  <2> QED
    BY <1>1, <2>1, <2>2
<1>3. /\ IsEnvelope(a) /\ Len(a) = 1 /\ a[1].role = "assistant" /\ Uses(a[1]) = PartsOf(cs)
      /\ OfKind(PartsIn(a), "tool_use") = PartsOf(cs) /\ OfKind(PartsIn(a), "tool_result") = <<>>
  <2>1. /\ IsEnvelope(a) /\ Len(a) = 1
        /\ (\A i \in 1..Len(a) : a[i].role = "assistant" /\ Uses(a[i]) = PartsOf(cs))
        /\ OfKind(PartsIn(a), "tool_use") = PartsOf(cs) /\ OfKind(PartsIn(a), "tool_result") = <<>>
    BY AssistantSent
  <2>2. 1 \in 1..Len(a)
    BY <2>1
  <2> QED
    BY <2>1, <2>2
<1>4. /\ IsEnvelope(b) /\ \A i \in 1..Len(b) : Uses(b[i]) = <<>>
      /\ OfKind(PartsIn(b), "tool_use") = <<>> /\ Len(OfKind(PartsIn(b), "tool_result")) = n /\ n <= Len(b)
      /\ \A i \in 1..n : b[i] = ToolMessage(rs[i], names)
  <2>1. \A r \in ToSet(ResultsOf(u)) : r.id \in DOMAIN names
    BY <1>2
  <2>2. /\ IsEnvelope(b) /\ \A i \in 1..Len(b) : Uses(b[i]) = <<>>
        /\ OfKind(PartsIn(b), "tool_use") = <<>>
        /\ Len(OfKind(PartsIn(b), "tool_result")) = Len(rs) /\ Len(rs) <= Len(b)
        /\ \A i \in 1..Len(rs) : b[i] = ToolMessage(rs[i], names)
    BY <2>1, UserSent
  <2> HIDE DEF b, rs, cs, n
  <2> QED
    BY <1>1, <2>2
<1> HIDE DEF a, b, rs, n
<1>5. IsSequence(a) /\ IsSequence(b) /\ Len(b) \in Nat
  BY <1>3, <1>4, SequenceLen DEF IsEnvelope
<1>6. /\ IsSequence(e) /\ Len(e) = 1 + Len(b) /\ e[1] = a[1] /\ \A i \in 1..Len(b) : e[1 + i] = b[i]
  <2>1. IsSequence(a) /\ IsSequence(b)
    BY <1>5
  <2>2. /\ IsSequence(e) /\ Len(e) = Len(a) + Len(b)
        /\ (\A i \in 1..Len(a) : e[i] = a[i]) /\ \A i \in 1..Len(b) : e[Len(a) + i] = b[i]
    BY <2>1, Concatenation
  <2>3. 1 \in 1..Len(a)
    BY <1>3
  <2> HIDE DEF e
  <2> QED
    BY <1>3, <2>2, <2>3
<1>7. IsEnvelope(e) /\ PartsIn(e) = PartsIn(a) \o PartsIn(b)
  BY <1>3, <1>4, EnvelopesJoin
<1> HIDE DEF e
<1>8. IsSequence(PartsOf(cs)) /\ Len(PartsOf(cs)) = n /\ \A i \in 1..n : PartsOf(cs)[i] = Part(cs[i])
  BY <1>0, PartsOfIs DEF n
<1>9. CallsFollowed(e, once)
  <2> SUFFICES ASSUME NEW i \in 1..Len(e), NEW k \in 1..Len(Uses(e[i]))
               PROVE  i + k \in 1..Len(e) /\ AnswersCall(e[i + k], Uses(e[i])[k], once)
    BY DEF CallsFollowed
  <2>1. i = 1
    <3>1. ASSUME i # 1 PROVE FALSE
      <4>1. i - 1 \in 1..Len(b) /\ 1 + (i - 1) = i
        BY <1>5, <1>6, <3>1
      <4>2. Uses(e[i]) = <<>>
        BY <1>4, <1>6, <4>1
      <4>3. Len(Uses(e[i])) = 0
        BY <4>2, ShortSequences
      <4> QED
        BY <4>3
    <3> QED
      BY <3>1
  <2>2. Uses(e[i]) = PartsOf(cs) /\ k \in 1..n
    BY <1>3, <1>6, <1>8, <2>1
  <2> DEFINE r == rs[k]
             c == cs[k]
  <2>3. Uses(e[i])[k] = Part(c) /\ r.id = c.id
    BY <1>1, <1>8, <2>2
  <2>4. r \in ToSet(rs) /\ c \in ToSet(cs)
    BY <1>0, <1>1, <2>2 DEF ToSet, n
  <2>5. r.kind = "tool_result" /\ (once => names[r.id] = c.no)
    BY <1>0, <2>3, <2>4 DEF rs
  <2>6. i + k \in 1..Len(e) /\ k \in 1..Len(b) /\ i + k = 1 + k
    BY <1>0, <1>4, <1>5, <1>6, <2>1, <2>2
  <2>7. e[i + k] = ToolMessage(r, names)
    BY <1>4, <1>6, <2>2, <2>6
  <2> HIDE DEF r, c
  <2>8. Part(c).id = c.id /\ Part(c).name = c.no
    BY PartFields
  <2>9. LET d == ToolMessage(r, names)
        IN d.role = "tool" /\ Len(d.parts) = 1 /\ d.parts[1].kind = r.kind /\ d.parts[1].id = r.id
           /\ d.parts[1].name = names[r.id]
    BY ToolMessageIs
  <2>10. AnswersCall(ToolMessage(r, names), Part(c), once)
    BY <2>3, <2>5, <2>8, <2>9 DEF AnswersCall
  <2> QED
    BY <2>3, <2>6, <2>7, <2>10
<1>10. Len(OfKind(PartsIn(e), "tool_use")) = Len(OfKind(PartsIn(e), "tool_result"))
  <2> DEFINE p == PartsIn(a)
             q == PartsIn(b)
  <2>1. IsSequence(p) /\ IsSequence(q)
    BY <1>3, <1>4, PartsAreSequence
  <2> HIDE DEF p, q
  <2>2. \A kind : /\ OfKind(p \o q, kind) = OfKind(p, kind) \o OfKind(q, kind)
                  /\ IsSequence(OfKind(p, kind)) /\ IsSequence(OfKind(q, kind))
    BY <2>1, KindsSplit, Filters
  <2>3. \A kind : Len(OfKind(p \o q, kind)) = Len(OfKind(p, kind)) + Len(OfKind(q, kind))
    BY <2>2, Concatenation
  <2>4. Len(OfKind(p, "tool_use")) = n /\ Len(OfKind(p, "tool_result")) = 0
    BY <1>3, <1>8, ShortSequences DEF p
  <2>5. Len(OfKind(q, "tool_use")) = 0 /\ Len(OfKind(q, "tool_result")) = n
    BY <1>4, ShortSequences DEF q
  <2>6. PartsIn(e) = p \o q
    BY <1>7 DEF p, q
  <2> QED
    BY <1>0, <2>3, <2>4, <2>5, <2>6 DEF n
<1> QED
  BY <1>7, <1>9, <1>10 DEF Whole, e, a, b

---------------------------------------------------------------------------
(* The whole envelope, for messages the repair made well-formed. *)

\* Messages whose every call is followed by the message that answers it make a whole envelope: after
\* each of them what has gone out is whole, but for the calls of the last.
LEMMA EnvelopeIsWhole ==
  ASSUME NEW M, AreMessages(M), WellFormed(M), \A i \in 1..Len(M) : Pictured(M[i], {}),
         NEW reasoning, NEW once, once => OnceEach(OfKind(Blocks(M), "tool_use")),
         NEW t, IsSequence(t), Len(t) = Len(M),
         \A i \in 1..Len(t) : t[i] = ConvertOne(M[i], ToolNames(M), reasoning).msgs
  PROVE  Whole(FlattenSeq(t), once)
<1> DEFINE names == ToolNames(M)
           A(m) == ConvertAssistant(m, reasoning).msgs
           U(m) == ConvertUser(m, names).msgs
<1>0. Len(M) \in Nat /\ IsSequence(M)
  BY SequenceLen DEF AreMessages
<1>1. \A i \in 1..Len(M) :
        /\ IsMessage(M[i]) /\ M[i].role \in {"user", "assistant"}
        /\ (M[i].role = "assistant" => t[i] = A(M[i]))
        /\ (M[i].role = "user" => t[i] = U(M[i]) /\ CallsOf(M[i]) = <<>>)
        /\ (i > 1 => M[i].role # M[i - 1].role)
        /\ InOrder(M[i]) /\ IdSeq(ResultsOf(M[i])) = Due(M, i - 1)
        /\ (i = Len(M) => CallsOf(M[i]) = <<>>)
        /\ IsSequence(CallsOf(M[i])) /\ IsSequence(ResultsOf(M[i]))
  <2> TAKE i \in 1..Len(M)
  <2>1. IsMessage(M[i]) /\ M[i].role \in {"user", "assistant"} /\ IsSequence(M[i].blocks)
    BY DEF AreMessages, IsMessage
  <2>2. /\ (M[i].role = "assistant" => t[i] = A(M[i])) /\ (M[i].role = "user" => t[i] = U(M[i]))
    BY DEF ConvertOne
  <2>3. M[i].role = "user" => CallsOf(M[i]) = <<>>
    BY <2>1, NoneOfKind DEF IsMessage, CallsOf
  <2>4. /\ (i > 1 => M[i].role # M[i - 1].role)
        /\ InOrder(M[i]) /\ IdSeq(ResultsOf(M[i])) = Due(M, i - 1)
        /\ (i = Len(M) => CallsOf(M[i]) = <<>>)
    BY ShapeOf
  <2>5. IsSequence(CallsOf(M[i])) /\ IsSequence(ResultsOf(M[i]))
    BY <2>1, Filters DEF CallsOf, ResultsOf
  <2> QED
    BY <2>1, <2>2, <2>3, <2>4, <2>5
<1>2. DOMAIN names = Declared(M)
      /\ (once => \A c \in ToSet(OfKind(Blocks(M), "tool_use")) : names[c.id] = c.no)
  BY NamesAre
<1>3. \A i \in 1..Len(M) : \A c \in ToSet(CallsOf(M[i])) :
        c.id \in DOMAIN names /\ (once => names[c.id] = c.no)
  <2> TAKE i \in 1..Len(M)
  <2> TAKE c \in ToSet(CallsOf(M[i]))
  <2>1. IsSequence(M[i].blocks) /\ IsSequence(Blocks(M))
    BY <1>1, BlocksAreSequence DEF IsMessage
  <2>2. c \in ToSet(M[i].blocks) /\ c.kind = "tool_use"
    BY <2>1, Filters DEF CallsOf
  <2>3. c \in ToSet(OfKind(Blocks(M), "tool_use"))
    BY <2>1, <2>2, BlocksFound, Filters
  <2>4. c.id \in Declared(M)
    BY <2>3, IdFound DEF Declared
  <2> QED
    BY <1>2, <2>3, <2>4
<1> HIDE DEF names
<1>4. ASSUME NEW i \in 1..Len(M), CallsOf(M[i]) = <<>>, i > 1 => CallsOf(M[i - 1]) = <<>> PROVE Whole(t[i], once)
  <2>1. CASE M[i].role = "assistant"
    BY <1>1, <1>4, <2>1, AssistantAlone
  <2>2. CASE M[i].role = "user"
    <3>1. ResultsOf(M[i]) = <<>>
      <4>1. Due(M, i - 1) = <<>>
        <5>1. CASE i = 1
          BY <5>1 DEF Due
        <5>2. CASE i # 1
          <6>1. i > 1 /\ i - 1 # 0
            BY <1>0, <5>2
          <6>2. IdSeq(CallsOf(M[i - 1])) = <<>>
            BY <1>4, <6>1, NoIds
          <6> QED
            BY <6>1, <6>2 DEF Due
        <5> QED
          BY <5>1, <5>2
      <4>2. IsSequence(ResultsOf(M[i])) /\ IdSeq(ResultsOf(M[i])) = <<>>
        BY <1>1, <4>1
      <4> QED
        BY <4>2, NoIds
    <3>2. IsMessage(M[i]) /\ InOrder(M[i]) /\ Pictured(M[i], {}) /\ t[i] = U(M[i])
      BY <1>1, <2>2
    <3> QED
      BY <2>2, <3>1, <3>2, UserAlone
  <2> QED
    BY <1>1, <2>1, <2>2
<1>5. ASSUME NEW i \in 1..Len(M), CallsOf(M[i]) # <<>>
      PROVE  i + 1 \in 1..Len(M) /\ Whole(t[i] \o t[i + 1], once) /\ CallsOf(M[i + 1]) = <<>>
  <2>1. i + 1 \in 1..Len(M) /\ (i + 1) - 1 = i /\ i + 1 > 1 /\ i # 0
    BY <1>0, <1>1, <1>5
  <2>2. M[i].role = "assistant" /\ M[i + 1].role = "user"
    BY <1>1, <1>5, <2>1
  <2> DEFINE m == M[i]
             u == M[i + 1]
  <2>3. /\ IsMessage(m) /\ m.role = "assistant" /\ CallsOf(m) # <<>>
        /\ IsMessage(u) /\ u.role = "user" /\ InOrder(u) /\ Pictured(u, {})
        /\ t[i] = A(m) /\ t[i + 1] = U(u) /\ CallsOf(u) = <<>>
    BY <1>1, <1>5, <2>1, <2>2
  <2>4. IdSeq(ResultsOf(u)) = IdSeq(CallsOf(m))
    BY <1>1, <2>1 DEF Due
  <2>5. /\ \A c \in ToSet(CallsOf(m)) : c.id \in DOMAIN names
        /\ once => \A c \in ToSet(CallsOf(m)) : names[c.id] = c.no
    BY <1>3
  <2> HIDE DEF m, u
  <2>6. Whole(A(m) \o U(u), once)
    BY <2>3, <2>4, <2>5, PairIsWhole
  <2> QED
    BY <2>1, <2>3, <2>6 DEF m, u
<1> HIDE DEF A, U
<1>6. \A i \in 1..Len(M) : IsSequence(t[i])
  <2> TAKE i \in 1..Len(M)
  <2>1. CASE M[i].role = "assistant"
    <3>1. IsEnvelope(A(M[i]))
      BY <1>1, <2>1, AssistantSent DEF A
    <3> QED
      BY <1>1, <2>1, <3>1 DEF IsEnvelope
  <2>2. CASE M[i].role = "user"
    <3>1. IsSequence(M[i].blocks) /\ Pictured(M[i], {})
      BY <1>1 DEF IsMessage
    <3>2. Tended(U(M[i]), {})
      BY <3>1, UserTended DEF U
    <3> QED
      BY <1>1, <2>2, <3>2 DEF Tended, IsEnvelope
  <2> QED
    BY <1>1, <2>1, <2>2
<1>7. PICK f : Flattens(f, t) /\ FlattenSeq(t) = f[Len(t)]
  BY <1>6, FlattenIs
<1> DEFINE Open(n) == n # 0 /\ CallsOf(M[n]) # <<>>
           S == {n \in Nat : n <= Len(M) =>
                   IF Open(n) THEN Whole(f[n - 1], once) /\ ~Open(n - 1) ELSE Whole(f[n], once)}
<1>8. 0 \in S
  <2>1. f[0] = <<>>
    BY <1>7 DEF Flattens
  <2> QED
    BY <2>1, NothingIsWhole
<1>9. ASSUME NEW n \in Nat, n \in S PROVE n + 1 \in S
  <2> SUFFICES ASSUME n + 1 <= Len(M)
               PROVE  IF Open(n + 1) THEN Whole(f[n], once) /\ ~Open(n) ELSE Whole(f[n + 1], once)
    OBVIOUS
  <2>1. n + 1 \in 1..Len(M) /\ n + 1 \in 1..Len(t) /\ (n + 1) - 1 = n /\ n <= Len(M) /\ n \in 0..Len(t)
    BY <1>0
  <2>2. f[n + 1] = f[n] \o t[n + 1] /\ IsSequence(f[n])
    BY <1>7, <2>1 DEF Flattens
  <2>3. CASE ~Open(n)
    <3>1. Whole(f[n], once)
      BY <1>9, <2>1, <2>3
    <3>2. CASE Open(n + 1)
      BY <2>3, <3>1, <3>2
    <3>3. CASE ~Open(n + 1)
      <4>1. CallsOf(M[n + 1]) = <<>> /\ (n + 1 > 1 => CallsOf(M[n]) = <<>>)
        BY <2>3, <3>3
      <4>2. Whole(t[n + 1], once)
        BY <1>4, <2>1, <4>1
      <4> QED
        BY <2>2, <3>1, <3>3, <4>2, WholesJoin
    <3> QED
      BY <3>2, <3>3
  <2>4. CASE Open(n)
    <3>1. n \in 1..Len(M) /\ n \in 1..Len(t) /\ n - 1 \in 0..Len(t)
      BY <1>0, <2>1, <2>4
    <3>2. Whole(f[n - 1], once)
      BY <1>9, <2>1, <2>4
    <3>3. Whole(t[n] \o t[n + 1], once) /\ ~Open(n + 1)
      BY <1>5, <2>4, <3>1
    <3>4. f[n] = f[n - 1] \o t[n] /\ IsSequence(f[n - 1])
      BY <1>7, <3>1 DEF Flattens
    <3> DEFINE x == f[n - 1]
               y == t[n]
               z == t[n + 1]
    <3>5. IsSequence(x) /\ IsSequence(y) /\ IsSequence(z) /\ f[n + 1] = (x \o y) \o z
      BY <1>6, <2>1, <2>2, <3>1, <3>4
    <3> HIDE DEF x, y, z
    <3>6. (x \o y) \o z = x \o (y \o z)
      BY ONLY <3>5, ConcatenationAssociates
    <3>7. Whole(x \o (y \o z), once)
      BY <3>2, <3>3, WholesJoin DEF x, y, z
    <3> QED
      BY <3>3, <3>5, <3>6, <3>7
  <2> QED
    BY <2>3, <2>4
<1> HIDE DEF S
<1>10. \A n \in Nat : n \in S
  BY <1>8, <1>9, Induction
<1>11. ~Open(Len(M))
  <2>1. CASE Len(M) = 0
    BY <2>1
  <2>2. CASE Len(M) # 0
    <3>1. Len(M) \in 1..Len(M)
      BY <1>0, <2>2
    <3> QED
      BY <1>1, <3>1
  <2> QED
    BY <2>1, <2>2
<1>12. Whole(f[Len(M)], once)
  BY <1>0, <1>10, <1>11 DEF S
<1> QED
  BY <1>7, <1>12

\* A mark on a text changes no other kind.
LEMMA KindsKept ==
  ASSUME NEW p, NEW q, IsSequence(p), IsSequence(q), Len(q) = Len(p), \A j \in 1..Len(p) : IsPart(p[j]),
         \A j \in 1..Len(p) : q[j] = p[j] \/ (p[j].kind = "text" /\ q[j] = [p[j] EXCEPT !.cc = TRUE]),
         NEW kind, kind # "text"
  PROVE  OfKind(q, kind) = OfKind(p, kind)
<1> DEFINE T == {b \in ToSet(p) : b.kind = kind}
           U == {b \in ToSet(q) : b.kind = kind}
<1>0. DOMAIN p = 1..Len(p) /\ DOMAIN q = 1..Len(p) /\ Len(p) \in Nat
  BY SequenceDomain
<1>1. \A j \in 1..Len(p) : (q[j] \in U <=> p[j] \in T) /\ (p[j] \in T => q[j] = p[j])
  <2> TAKE j \in 1..Len(p)
  <2>1. p[j] \in ToSet(p) /\ q[j] \in ToSet(q)
    BY <1>0 DEF ToSet
  <2>2. CASE q[j] = p[j]
    BY <2>1, <2>2
  <2>3. CASE p[j].kind = "text" /\ q[j] = [p[j] EXCEPT !.cc = TRUE]
    <3>1. q[j].kind = p[j].kind
      BY <2>3, PartMarked
    <3> QED
      BY <2>3, <3>1
  <2> QED
    BY <2>2, <2>3
<1>2. OfKind(p, kind) = Select(p, T) /\ OfKind(q, kind) = Select(q, U)
  BY DEF OfKind
<1> HIDE DEF T, U
<1>3. PICK f : Selects(f, p, T) /\ Select(p, T) = f[Len(p)]
  BY SelectIs
<1>4. PICK g : Selects(g, q, U) /\ Select(q, U) = g[Len(q)]
  BY SelectIs
<1> DEFINE S == {n \in Nat : n <= Len(p) => g[n] = f[n]}
<1>5. 0 \in S
  BY <1>3, <1>4 DEF Selects
<1>6. ASSUME NEW n \in Nat, n \in S PROVE n + 1 \in S
  <2> SUFFICES ASSUME n + 1 <= Len(p) PROVE g[n + 1] = f[n + 1]
    OBVIOUS
  <2>1. n + 1 \in 1..Len(p) /\ n + 1 \in 1..Len(q) /\ (n + 1) - 1 = n /\ n <= Len(p)
    BY <1>0
  <2>2. /\ f[n + 1] = IF p[n + 1] \in T THEN Append(f[n], p[n + 1]) ELSE f[n]
        /\ g[n + 1] = IF q[n + 1] \in U THEN Append(g[n], q[n + 1]) ELSE g[n]
    BY <1>3, <1>4, <2>1 DEF Selects
  <2>3. g[n] = f[n]
    BY <1>6, <2>1
  <2> QED
    BY <1>1, <2>1, <2>2, <2>3
<1> HIDE DEF S
<1>7. Len(p) \in S
  BY <1>0, <1>5, <1>6, Induction
<1> QED
  BY <1>0, <1>2, <1>3, <1>4, <1>7 DEF S

\* So the marker leaves an envelope whole.
LEMMA MarkedIsWhole ==
  ASSUME NEW e, NEW once, Whole(e, once), NEW g, SameButTexts(e, g) PROVE Whole(g, once)
<1>0. IsEnvelope(e) /\ IsEnvelope(g) /\ Len(g) = Len(e) /\ Len(e) \in Nat
  BY SequenceLen DEF SameButTexts, IsEnvelope
<1>1. ASSUME NEW i \in 1..Len(e)
      PROVE  /\ g[i].role = e[i].role /\ Len(g[i].parts) = Len(e[i].parts)
             /\ IsSequence(e[i].parts) /\ IsSequence(g[i].parts)
             /\ \A kind : kind # "text" => OfKind(g[i].parts, kind) = OfKind(e[i].parts, kind)
  <2>1. /\ g[i].role = e[i].role /\ Len(g[i].parts) = Len(e[i].parts)
        /\ \A j \in 1..Len(e[i].parts) :
             \/ g[i].parts[j] = e[i].parts[j]
             \/ e[i].parts[j].kind = "text" /\ g[i].parts[j] = [e[i].parts[j] EXCEPT !.cc = TRUE]
    BY DEF SameButTexts
  <2>2. /\ IsSequence(e[i].parts) /\ IsSequence(g[i].parts) /\ \A j \in 1..Len(e[i].parts) : IsPart(e[i].parts[j])
    BY <1>0 DEF IsEnvelope, IsCc
  <2> DEFINE p == e[i].parts
             q == g[i].parts
  <2>3. /\ IsSequence(p) /\ IsSequence(q) /\ Len(q) = Len(p) /\ \A j \in 1..Len(p) : IsPart(p[j])
        /\ \A j \in 1..Len(p) : q[j] = p[j] \/ (p[j].kind = "text" /\ q[j] = [p[j] EXCEPT !.cc = TRUE])
    BY <2>1, <2>2
  <2> HIDE DEF p, q
  <2>4. \A kind : kind # "text" => OfKind(q, kind) = OfKind(p, kind)
    BY <2>3, KindsKept
  <2> QED
    BY <2>1, <2>2, <2>4 DEF p, q
<1>2. \A i \in 1..Len(e) : Uses(g[i]) = Uses(e[i])
  BY <1>1 DEF Uses
<1>3. ASSUME NEW i \in 1..Len(e), NEW x, AnswersCall(e[i], x, once) PROVE AnswersCall(g[i], x, once)
  <2>1. e[i].role = "tool" /\ Len(e[i].parts) = 1 /\ e[i].parts[1].kind = "tool_result"
    BY <1>3 DEF AnswersCall
  <2>2. 1 \in 1..Len(e[i].parts)
    BY <2>1
  <2>3. g[i].parts[1] = e[i].parts[1]
    BY <2>1, <2>2 DEF SameButTexts
  <2> QED
    BY <1>1, <1>3, <2>3 DEF AnswersCall
<1>4. CallsFollowed(g, once)
  <2> SUFFICES ASSUME NEW i \in 1..Len(g), NEW k \in 1..Len(Uses(g[i]))
               PROVE  i + k \in 1..Len(g) /\ AnswersCall(g[i + k], Uses(g[i])[k], once)
    BY DEF CallsFollowed
  <2>1. i \in 1..Len(e) /\ k \in 1..Len(Uses(e[i])) /\ Uses(g[i]) = Uses(e[i])
    BY <1>0, <1>2
  <2>2. i + k \in 1..Len(e) /\ AnswersCall(e[i + k], Uses(e[i])[k], once)
    BY <2>1 DEF Whole, CallsFollowed
  <2> QED
    BY <1>0, <1>3, <2>1, <2>2
<1>5. PICK s : /\ PartsIn(e) = FlattenSeq(s) /\ IsSequence(s) /\ Len(s) = Len(e)
               /\ \A i \in 1..Len(e) : s[i] = e[i].parts /\ IsSequence(s[i])
  BY <1>0, PartsAreFlat
<1>6. PICK t : /\ PartsIn(g) = FlattenSeq(t) /\ IsSequence(t) /\ Len(t) = Len(g)
               /\ \A i \in 1..Len(g) : t[i] = g[i].parts /\ IsSequence(t[i])
  BY <1>0, PartsAreFlat
<1>7. PICK f : Flattens(f, s) /\ FlattenSeq(s) = f[Len(s)]
  BY <1>5, FlattenIs
<1>8. PICK h : Flattens(h, t) /\ FlattenSeq(t) = h[Len(t)]
  BY <1>6, FlattenIs
<1>9. ASSUME NEW kind, kind # "text" PROVE OfKind(PartsIn(g), kind) = OfKind(PartsIn(e), kind)
  <2> DEFINE S == {n \in Nat : n <= Len(e) => OfKind(h[n], kind) = OfKind(f[n], kind)}
  <2>1. 0 \in S
    BY <1>7, <1>8 DEF Flattens
  <2>2. ASSUME NEW n \in Nat, n \in S PROVE n + 1 \in S
    <3> SUFFICES ASSUME n + 1 <= Len(e) PROVE OfKind(h[n + 1], kind) = OfKind(f[n + 1], kind)
      OBVIOUS
    <3>1. n + 1 \in 1..Len(e) /\ (n + 1) - 1 = n /\ n \in 0..Len(e) /\ n <= Len(e)
      BY <1>0
    <3>2. /\ f[n + 1] = f[n] \o s[n + 1] /\ IsSequence(f[n]) /\ IsSequence(s[n + 1]) /\ s[n + 1] = e[n + 1].parts
          /\ h[n + 1] = h[n] \o t[n + 1] /\ IsSequence(h[n]) /\ IsSequence(t[n + 1]) /\ t[n + 1] = g[n + 1].parts
      BY <1>0, <1>5, <1>6, <1>7, <1>8, <3>1 DEF Flattens
    <3>3. OfKind(t[n + 1], kind) = OfKind(s[n + 1], kind) /\ OfKind(h[n], kind) = OfKind(f[n], kind)
      BY <1>1, <1>9, <2>2, <3>1, <3>2
    <3> DEFINE x == f[n]
               y == s[n + 1]
               u == h[n]
               v == t[n + 1]
    <3>4. IsSequence(x) /\ IsSequence(y) /\ IsSequence(u) /\ IsSequence(v) /\ f[n + 1] = x \o y /\ h[n + 1] = u \o v
      BY <3>2
    <3> HIDE DEF x, y, u, v
    <3>5. OfKind(x \o y, kind) = OfKind(x, kind) \o OfKind(y, kind)
      BY <3>4, KindsSplit
    <3>6. OfKind(u \o v, kind) = OfKind(u, kind) \o OfKind(v, kind)
      BY <3>4, KindsSplit
    <3>7. OfKind(v, kind) = OfKind(y, kind) /\ OfKind(u, kind) = OfKind(x, kind)
      BY <3>3 DEF x, y, u, v
    <3> QED
      BY <3>4, <3>5, <3>6, <3>7
  <2> HIDE DEF S
  <2>3. Len(e) \in S
    BY <1>0, <2>1, <2>2, Induction
  <2> QED
    BY <1>0, <1>5, <1>6, <1>7, <1>8, <2>3 DEF S
<1>10. /\ OfKind(PartsIn(g), "tool_use") = OfKind(PartsIn(e), "tool_use")
       /\ OfKind(PartsIn(g), "tool_result") = OfKind(PartsIn(e), "tool_result")
  BY <1>9
<1> QED
  BY <1>0, <1>4, <1>10 DEF Whole

---------------------------------------------------------------------------
(* The results of a repaired history. *)

\* A result is made of an item as a whole.
LEMMA ItemResults ==
  ASSUME NEW endpoint \in {"chat", "responses"}, NEW m, IsItem(endpoint, m),
         NEW b \in ToSet(BlocksOf(endpoint, m)), b.kind = "tool_result"
  PROVE  b = Result(Head(m.calls), m.no, Select(m.parts, {"text", "image"})) /\ IsSequence(b.parts)
<1> DEFINE r == Result(Head(m.calls), m.no, Select(m.parts, {"text", "image"}))
<1>0. IsSequence(m.parts) /\ IsSequence(m.calls) /\ m.kind \in KindsOf(endpoint)
  BY DEF IsItem
<1>1. \A kinds : "tool_result" \notin kinds => b \notin ToSet(Contents(m, kinds))
  BY <1>0, ContentsAre
<1>2. b \notin ToSet(ToolUses(m))
  BY <1>0, ToolUsesAre
<1>3. b \notin ToSet(<<>>)
  BY NoElements, ShortSequences DEF ToSet
<1>4. b \notin ToSet(ChatAssistantBlocks(m))
  <2> DEFINE x == Contents(m, {"thinking"})
             y == Contents(m, {"text"})
             z == ToolUses(m)
  <2>1. IsSequence(x) /\ IsSequence(y) /\ IsSequence(z)
    BY <1>0, ContentsAre, ToolUsesAre
  <2>2. b \notin ToSet(x) /\ b \notin ToSet(y) /\ b \notin ToSet(z)
    BY <1>1, <1>2
  <2>3. ChatAssistantBlocks(m) = (x \o y) \o z
    BY DEF ChatAssistantBlocks
  <2> HIDE DEF x, y, z
  <2> DEFINE u == x \o y
  <2>4. IsSequence(u) /\ ToSet(u) = ToSet(x) \cup ToSet(y)
    BY <2>1, Concatenation, ElementsOfConcatenation
  <2> HIDE DEF u
  <2>5. ToSet(u \o z) = ToSet(u) \cup ToSet(z)
    BY <2>1, <2>4, ElementsOfConcatenation
  <2> QED
    BY <2>2, <2>3, <2>4, <2>5 DEF u
<1>5. b \in ToSet(ToolResult(m))
  <2>1. CASE endpoint = "chat"
    <3>1. m.kind \in {"system", "user", "other", "assistant", "tool"}
      BY <1>0, <2>1 DEF KindsOf
    <3>2. b \in ToSet(ChatBlocks(m))
      BY <2>1 DEF BlocksOf
    <3>3. b \notin ToSet(ChatUserBlocks(m))
      BY <1>1 DEF ChatUserBlocks
    <3> QED
      BY <1>3, <1>4, <3>1, <3>2, <3>3 DEF ChatBlocks
  <2>2. CASE endpoint = "responses"
    <3>1. m.kind \in {"system", "unsupported", "user", "other", "assistant", "call", "output", "reasoning"}
      BY <1>0, <2>2 DEF KindsOf
    <3>2. b \in ToSet(ResponsesBlocks(m))
      BY <2>2 DEF BlocksOf
    <3>3. /\ b \notin ToSet(Contents(m, {"text", "image"})) /\ b \notin ToSet(Contents(m, {"text"}))
          /\ b \notin ToSet(Contents(m, {"thinking"}))
      BY <1>1
    <3> QED
      BY <1>2, <1>3, <3>1, <3>2, <3>3 DEF ResponsesBlocks
  <2> QED
    BY <2>1, <2>2
<1>6. ToolResult(m) = <<>> \/ ToolResult(m) = <<r>>
  BY DEF ToolResult
<1> HIDE DEF r
<1>7. ToSet(<<r>>) = {r}
  BY ShortSequences DEF ToSet
<1>8. b = r
  BY <1>3, <1>5, <1>6, <1>7
<1>9. r.parts = Select(m.parts, {"text", "image"})
  BY DEF r, Result, Block
<1>10. IsSequence(r.parts)
  BY <1>0, <1>9, Selected
<1> QED
  BY <1>8, <1>10 DEF r

\* What is made of a history is made of its items.
LEMMA ConvertedBlocks ==
  ASSUME NEW endpoint \in {"chat", "responses"}, NEW items, AreItems(endpoint, items)
  PROVE  ToSet(Blocks(Converted(endpoint, items))) \subseteq
           UNION {ToSet(BlocksOf(endpoint, items[i])) : i \in 1..Len(items)}
<1> DEFINE R == UNION {ToSet(BlocksOf(endpoint, items[i])) : i \in 1..Len(items)}
<1>0. IsSequence(items) /\ Len(items) \in Nat /\ \A i \in 1..Len(items) : IsItem(endpoint, items[i])
  BY SequenceLen DEF AreItems
<1>1. PICK t : /\ Converted(endpoint, items) = FlattenSeq(t)
               /\ IsSequence(t) /\ Len(t) = Len(items)
               /\ \A i \in 1..Len(items) : t[i] = PieceOf(endpoint, items[i])
  BY <1>0, ConvertedIs
<1>2. ASSUME NEW i \in 1..Len(t)
      PROVE  AreMessages(t[i]) /\ IsSequence(t[i]) /\ ToSet(Blocks(t[i])) \subseteq R
  <2>1. IsItem(endpoint, items[i]) /\ t[i] = PieceOf(endpoint, items[i]) /\ i \in 1..Len(items)
    BY <1>0, <1>1
  <2>2. AreMessages(t[i]) /\ IsSequence(t[i])
    BY <2>1, PieceIsMessage DEF AreMessages
  <2>3. Blocks(t[i]) = BlocksOf(endpoint, items[i])
    BY <2>1, PieceBlocks
  <2> QED
    BY <2>1, <2>2, <2>3
<1> HIDE DEF R
<1> DEFINE U == UNION {ToSet(t[i]) : i \in DOMAIN t}
           Q == {q \in Seq(U) : AreMessages(q) /\ ToSet(Blocks(q)) \subseteq R}
<1>3. ASSUME NEW i \in 1..Len(t) PROVE t[i] \in Q
  <2>1. i \in DOMAIN t
    BY <1>1, SequenceDomain
  <2>2. ToSet(t[i]) \subseteq U
    BY <2>1
  <2> HIDE DEF U
  <2>3. t[i] \in Seq(U)
    BY <1>2, <2>2, TypedSequence
  <2> QED
    BY <1>2, <2>3
<1> HIDE DEF U
<1>4. \A a, b \in Q : a \o b \in Q
  <2> TAKE a, b \in Q
  <2>1. /\ a \in Seq(U) /\ b \in Seq(U) /\ AreMessages(a) /\ AreMessages(b)
        /\ ToSet(Blocks(a)) \subseteq R /\ ToSet(Blocks(b)) \subseteq R
    OBVIOUS
  <2>2. a \o b \in Seq(U)
    BY <2>1
  <2> HIDE DEF Q
  <2> DEFINE x == Blocks(a)
             y == Blocks(b)
  <2>3. AreMessages(a \o b) /\ Blocks(a \o b) = x \o y /\ IsSequence(x) /\ IsSequence(y)
    BY <2>1, BlocksConcatenate, MessagesConcatenate, BlocksAreSequence
  <2> HIDE DEF x, y
  <2>4. ToSet(x \o y) = ToSet(x) \cup ToSet(y)
    BY <2>3, ElementsOfConcatenation
  <2>5. ToSet(Blocks(a \o b)) \subseteq R
    BY <2>1, <2>3, <2>4 DEF x, y
  <2> QED
    BY <2>2, <2>3, <2>5 DEF Q
<1>5. <<>> \in Q
  <2> DEFINE e == <<>>
  <2>1. e \in Seq(U)
    OBVIOUS
  <2>2. Len(e) = 0 /\ IsSequence(e)
    BY ShortSequences
  <2>3. Blocks(e) = <<>> /\ ToSet(Blocks(e)) = {}
    BY BlocksOfNone, NoElements, ShortSequences DEF ToSet
  <2> HIDE DEF e
  <2>4. AreMessages(e)
    BY <2>2 DEF AreMessages
  <2>5. e \in Q
    BY <2>1, <2>3, <2>4
  <2> QED
    BY <2>5 DEF e
<1>6. \A q \in Q : ToSet(Blocks(q)) \subseteq R
  OBVIOUS
<1> HIDE DEF Q
<1>7. FlattenSeq(t) \in Q
  BY <1>1, <1>2, <1>3, <1>4, <1>5, FlattenKeeps
<1> QED
  BY <1>1, <1>6, <1>7 DEF R

\* Every result holds a row of parts and has the number of its own item.
Numbered(msgs) ==
  /\ \A b \in ToSet(Results(msgs)) : IsSequence(b.parts)
  /\ \A b, c \in ToSet(Results(msgs)) : b.no = c.no => b = c

\* The results that go upstream came from the client.
LEMMA ResultsNumbered == HistoryRepaired /\ ~FromMessages => Numbered(messages)
<1> DEFINE e == settings.endpoint
           given == Blocks(made)
           kept == Blocks(messages)
           results == Results(made)
<1> SUFFICES ASSUME HistoryRepaired, ~FromMessages PROVE Numbered(messages)
  OBVIOUS
<1>1. /\ e \in {"chat", "responses"} /\ AreItems(e, history) /\ \A i \in 1..Len(history) : history[i].no = i
      /\ made = Converted(e, history) /\ messages = RepairToolPairing(made)
  BY EndpointsAre DEF HistoryRepaired, FromMessages
<1>2. AreMessages(made) /\ IsSequence(given)
  BY <1>1, ConvertedAreMessages, BlocksAreSequence
<1>3. IsSequence(results) /\ \A b \in ToSet(results) : b \in ToSet(given) /\ b.kind = "tool_result"
  BY <1>2, Filters DEF Results
<1>4. ASSUME NEW b \in ToSet(results)
      PROVE  \E i \in 1..Len(history) :
               /\ b = Result(Head(history[i].calls), i, Select(history[i].parts, {"text", "image"}))
               /\ IsSequence(b.parts)
  <2>1. ToSet(given) \subseteq UNION {ToSet(BlocksOf(e, history[i])) : i \in 1..Len(history)}
    BY <1>1, ConvertedBlocks
  <2>2. PICK i \in 1..Len(history) : b \in ToSet(BlocksOf(e, history[i]))
    BY <1>3, <2>1
  <2>3. IsItem(e, history[i]) /\ history[i].no = i
    BY <1>1 DEF AreItems
  <2> QED
    BY <1>1, <1>3, <2>2, <2>3, ItemResults
<1>5. \A b \in ToSet(Results(messages)) : b \in ToSet(results)
  <2> TAKE b \in ToSet(Results(messages))
  <2>1. b.id \in IdsOf(results) /\ b = ResultFor(results, b.id)
    BY <1>1, <1>2, RepairKeeps DEF KeptOf, Results
  <2> DEFINE id == b.id
  <2>2. id \in IdsOf(results)
    BY <2>1
  <2> HIDE DEF id, results
  <2>3. ResultFor(results, id) \in ToSet(results)
    BY <1>3, <2>2, ResultAnswers
  <2> QED
    BY <2>1, <2>3 DEF id
<1> HIDE DEF results
<1>6. \A b, c \in ToSet(results) : b.no = c.no => b = c
  <2> TAKE b, c \in ToSet(results)
  <2>1. PICK i \in 1..Len(history) : b = Result(Head(history[i].calls), i, Select(history[i].parts, {"text", "image"}))
    BY <1>4
  <2>2. PICK j \in 1..Len(history) : c = Result(Head(history[j].calls), j, Select(history[j].parts, {"text", "image"}))
    BY <1>4
  <2>3. b.no = i /\ c.no = j
    BY <2>1, <2>2, BlockFields
  <2> QED
    BY <2>1, <2>2, <2>3
<1> QED
  BY <1>4, <1>5, <1>6 DEF Numbered

---------------------------------------------------------------------------
(* Calls and results in the envelope of a request. *)

Called == OfKind(Blocks(messages), "tool_use")

\* The envelope of a Chat or Responses request is whole.
LEMMA BuiltIsWhole ==
  RequestBuilt /\ ~FromMessages => Whole(envelope, Cardinality(IdsOf(Called)) = Len(Called))
<1> DEFINE once == Cardinality(IdsOf(Called)) = Len(Called)
           e == settings.endpoint
           need == NeedsMarker
           reasoning == settings.reasoning
<1> SUFFICES ASSUME RequestBuilt, ~FromMessages PROVE Whole(envelope, once)
  OBVIOUS
<1>1. /\ e \in {"chat", "responses"} /\ AreItems(e, history)
      /\ made = Converted(e, history) /\ messages = RepairToolPairing(made)
      /\ envelope = BuildCcRequest(messages, need, settings).msgs
  BY EndpointsAre DEF RequestBuilt, HistoryRepaired, FromMessages, Built
<1>2. settings.replace = FALSE
  BY <1>1 DEF RequestBuilt, HistoryRepaired, Settings, Configuration
<1>3. AreMessages(made)
  BY <1>1, ConvertedAreMessages
<1>4. AreMessages(messages) /\ WellFormed(messages)
  BY <1>1, <1>3, RepairIsWellFormed
<1>5. \A i \in 1..Len(messages) : Pictured(messages[i], {})
  <2> TAKE i \in 1..Len(messages)
  <2>1. \A b \in ToSet(Results(messages)) : IsSequence(b.parts)
    BY ResultsNumbered DEF RequestBuilt, Numbered
  <2>2. IsSequence(messages[i].blocks) /\ IsSequence(Blocks(messages))
    BY <1>4, BlocksAreSequence DEF AreMessages, IsMessage
  <2>3. \A b \in ToSet(messages[i].blocks) : b \in ToSet(Blocks(messages))
    BY <1>4, BlocksFound
  <2>4. \A b \in ToSet(messages[i].blocks) : b.kind = "tool_result" => b \in ToSet(Results(messages))
    BY <2>2, <2>3, Filters DEF Results
  <2> QED
    BY <2>1, <2>4 DEF Pictured
<1>6. once => OnceEach(Called)
  <2>1. IsSequence(Called)
    BY <1>4, BlocksAreSequence, Filters DEF Called
  <2> QED
    BY <2>1, CountedOnce
<1>7. Parsed(messages, settings) = messages /\ IsSequence(messages)
  BY <1>2, <1>4 DEF Parsed, AreMessages
<1>8. PICK t, w : BuiltBy(t, w, messages, need, settings)
  BY <1>7, BuiltIs
<1>9. /\ IsSequence(t) /\ Len(t) = Len(messages)
      /\ \A i \in 1..Len(t) : t[i] = ConvertOne(messages[i], ToolNames(messages), reasoning).msgs
      /\ envelope = SynthesizeCacheMarker(FlattenSeq(t), need \/ settings.replace)
  BY <1>1, <1>7, <1>8 DEF BuiltBy
<1> HIDE DEF once, need, reasoning
<1>10. once => OnceEach(OfKind(Blocks(messages), "tool_use"))
  BY <1>6 DEF Called
<1>11. Whole(FlattenSeq(t), once)
  BY <1>4, <1>5, <1>9, <1>10, EnvelopeIsWhole
<1> DEFINE x == FlattenSeq(t)
           y == need \/ settings.replace
<1>12. Whole(x, once) /\ envelope = SynthesizeCacheMarker(x, y)
  BY <1>9, <1>11
<1> HIDE DEF x, y
<1>13. SameButTexts(x, SynthesizeCacheMarker(x, y))
  BY <1>12, MarkerKeeps DEF Whole
<1> QED
  BY <1>12, <1>13, MarkedIsWhole

\* What the property says of such an envelope.
LEMMA BuiltFollows == RequestBuilt => ResultsFollowCalls
<1> DEFINE due(i) == IF envelope[i].role = "assistant" THEN OfKind(envelope[i].parts, "tool_use") ELSE <<>>
           once == Cardinality(IdsOf(Called)) = Len(Called)
           answered(i, k) == /\ i + k \in DOMAIN envelope
                             /\ envelope[i + k].role = "tool"
                             /\ Head(envelope[i + k].parts).id = due(i)[k].id
                             /\ once => Head(envelope[i + k].parts).name = due(i)[k].name
<1> SUFFICES ASSUME RequestBuilt, ~FromMessages
             PROVE  /\ \A i \in DOMAIN envelope : \A k \in DOMAIN due(i) : answered(i, k)
                    /\ Len(OfKind(EnvelopeParts, "tool_result")) = Len(OfKind(EnvelopeParts, "tool_use"))
  BY DEF ResultsFollowCalls, Called
<1>1. Whole(envelope, once)
  BY BuiltIsWhole
<1> HIDE DEF once
<1>2. EnvelopeParts = PartsIn(envelope)
  BY DEF EnvelopeParts, PartsIn
<1>3. IsEnvelope(envelope) /\ CallsFollowed(envelope, once) /\ DOMAIN envelope = 1..Len(envelope)
  BY <1>1, SequenceDomain DEF Whole, IsEnvelope
<1>4. \A i \in DOMAIN envelope : due(i) = Uses(envelope[i]) /\ DOMAIN due(i) = 1..Len(due(i))
  <2> TAKE i \in DOMAIN envelope
  <2>1. due(i) = Uses(envelope[i])
    BY DEF Uses
  <2>2. IsSequence(envelope[i].parts)
    BY <1>3 DEF IsEnvelope, IsCc
  <2>3. IsSequence(due(i))
    BY <2>2, Filters, ShortSequences
  <2> HIDE DEF due
  <2> QED
    BY <2>1, <2>3, SequenceDomain
<1>5. ASSUME NEW i \in DOMAIN envelope, NEW k \in DOMAIN due(i) PROVE answered(i, k)
  <2>1. i \in 1..Len(envelope) /\ k \in 1..Len(Uses(envelope[i])) /\ due(i)[k] = Uses(envelope[i])[k]
    BY <1>3, <1>4, <1>5
  <2> HIDE DEF due
  <2>2. i + k \in 1..Len(envelope) /\ AnswersCall(envelope[i + k], Uses(envelope[i])[k], once)
    BY <1>3, <2>1 DEF CallsFollowed
  <2>3. Head(envelope[i + k].parts) = envelope[i + k].parts[1]
    OBVIOUS
  <2> QED
    BY <1>3, <2>1, <2>2, <2>3 DEF AnswersCall
<1> QED
  BY <1>1, <1>2, <1>5 DEF Whole

\* Whatever a Chat or Responses client resends, every call in the envelope is followed by its result,
\* under the name of the tool that was called, and there are no other results.
THEOREM ResultsAlwaysFollow == RequestsSpec => []ResultsFollowCalls
<1>1. RequestsSpec => []RequestBuilt
  BY RequestsBuilt
<1>2. RequestBuilt => ResultsFollowCalls
  BY BuiltFollows
<1> QED
  BY <1>1, <1>2, PTL

---------------------------------------------------------------------------
(* The history of the Messages endpoint, which is not repaired. *)

\* A block has the fields of one, and its parts are a sequence.
IsBlock(b) == b = Block(b.kind, b.id, b.no, b.parts, b.cc) /\ IsSequence(b.parts)

\* What every step of a Messages client leaves: its messages, whose blocks have their places as
\* numbers.
BlocksInOrder ==
  FromMessages =>
    /\ settings \in Settings /\ messages = history /\ AreMessages(history)
    /\ \A k \in 1..Len(Blocks(history)) : IsBlock(Blocks(history)[k]) /\ Blocks(history)[k].no = k

\* A message of one block.
LEMMA OneBlock ==
  ASSUME NEW role \in {"user", "assistant"}, NEW b,
         role = "user" => b.kind # "tool_use", role = "assistant" => b.kind # "tool_result"
  PROVE  LET m == Message(role, <<b>>) IN IsMessage(m) /\ m.role = role /\ m.blocks = <<b>>
<1> DEFINE m == Message(role, <<b>>)
           s == <<b>>
<1>1. IsSequence(s) /\ ToSet(s) = {b}
  BY ShortSequences DEF ToSet
<1>2. m.role = role /\ m.blocks = s
  BY MessageFields
<1>3. m = Message(m.role, m.blocks)
  BY <1>2 DEF m, s
<1> HIDE DEF m, s
<1>4. IsMessage(m)
  BY <1>1, <1>2, <1>3 DEF IsMessage, Lacks
<1> QED
  BY <1>2, <1>4 DEF m, s

\* A block joins the last message: so does a merge with a message of that block alone.
LastGrown(h, b) == [h EXCEPT ![Len(h)].blocks = Append(@, b)]

\* And it is that merge.
LEMMA LastGrownIs ==
  ASSUME NEW h, AreMessages(h), h # <<>>, NEW role, Last(h).role = role, NEW b
  PROVE  LastGrown(h, b) = Merged(h, Message(role, <<b>>))
<1> DEFINE m == Message(role, <<b>>)
           n == Len(h)
           x == h[n]
           s == x.blocks
           v == Append(s, b)
           y == [x EXCEPT !.blocks = v]
<1>1. n # 0 /\ n \in Nat
  <2>1. PICK S : h \in Seq(S)
    BY DEF AreMessages, IsSequence
  <2> QED
    BY <2>1
<1>2. n \in 1..n /\ Last(h) = x
  BY <1>1 DEF Last
<1>3. x = Message(role, s) /\ IsSequence(s)
  BY <1>1, <1>2 DEF AreMessages, IsMessage
<1>4. v = s \o <<b>>
  BY <1>3, AppendIs
<1>5. \A z : [Message(role, z) EXCEPT !.blocks = v] = Message(role, v)
  <2> HIDE DEF v
  <2> QED
    BY DEF Message
<1>6. y = Message(role, v)
  BY <1>3, <1>5
<1>7. LastGrown(h, b) = [h EXCEPT ![n] = y]
  BY DEF LastGrown
<1>8. m.role = role /\ m.blocks = <<b>>
  BY MessageFields
<1>9. Merged(h, m) = [h EXCEPT ![n] = Message(m.role, s \o m.blocks)]
  BY <1>8 DEF Merged
<1> HIDE DEF m, n, s, v, y
<1>10. Message(m.role, s \o m.blocks) = y
  BY <1>4, <1>6, <1>8
<1> QED
  BY <1>7, <1>9, <1>10 DEF m

\* A history that is one block longer, in its last message or in a new one.
LEMMA BlockAdded ==
  ASSUME NEW h, AreMessages(h), NEW role \in {"user", "assistant"}, NEW b,
         role = "user" => b.kind # "tool_use", role = "assistant" => b.kind # "tool_result",
         NEW g,
         g = Append(h, Message(role, <<b>>)) \/ (h # <<>> /\ Last(h).role = role /\ g = LastGrown(h, b))
  PROVE  AreMessages(g) /\ Blocks(g) = Blocks(h) \o <<b>>
<1> DEFINE m == Message(role, <<b>>)
           n == Len(h)
<1>0. IsSequence(h) /\ n \in Nat /\ (\A i \in 1..n : IsMessage(h[i]))
  BY SequenceLen DEF AreMessages
<1>1. IsMessage(m) /\ m.role = role /\ m.blocks = <<b>>
  BY OneBlock
<1> HIDE DEF n
<1>2. CASE g = Append(h, m)
  <2> HIDE DEF m
  <2>1. /\ IsSequence(g) /\ Len(g) = n + 1 /\ g[n + 1] = m /\ \A i \in 1..n : g[i] = h[i]
    BY <1>0, <1>2, Appended DEF n
  <2>2. \A i \in 1..Len(g) : i \in 1..n \/ i = n + 1
    BY <1>0, <2>1
  <2>3. AreMessages(g)
    BY <1>0, <1>1, <2>1, <2>2 DEF AreMessages
  <2>4. Blocks(g) = Blocks(h) \o g[n + 1].blocks
    BY <2>1, <2>3, BlocksAdded DEF n
  <2> QED
    BY <1>1, <2>1, <2>3, <2>4
<1>3. CASE h # <<>> /\ Last(h).role = role /\ g = LastGrown(h, b)
  <2>1. g = Merged(h, m)
    BY <1>3, LastGrownIs
  <2> HIDE DEF m
  <2>2. AreMessages(Merged(h, m)) /\ Blocks(Merged(h, m)) = Blocks(h) \o m.blocks
    BY <1>1, BlocksMerged, MergedAreMessages
  <2> QED
    BY <1>1, <2>1, <2>2
<1> QED
  BY <1>2, <1>3

\* A step that adds a block keeps their order.
LEMMA AddsInOrder ==
  ASSUME BlocksInOrder, FromMessages, NEW role \in {"user", "assistant"}, NEW b, AddBlock(role, b), IsBlock(b),
         b.no = BlockNo, role = "user" => b.kind # "tool_use", role = "assistant" => b.kind # "tool_result"
  PROVE  BlocksInOrder'
<1> DEFINE h == history
           g == history'
           s == Blocks(h)
           t == Blocks(g)
<1>1. /\ settings \in Settings /\ AreMessages(h)
      /\ \A k \in 1..Len(s) : IsBlock(s[k]) /\ s[k].no = k
  BY DEF BlocksInOrder
<1>2. /\ settings' = settings /\ messages' = g
      /\ g = Append(h, Message(role, <<b>>)) \/ (h # <<>> /\ Last(h).role = role /\ g = LastGrown(h, b))
  BY DEF AddBlock, RunPipeline, LastGrown
<1> HIDE DEF h, g
<1>3. AreMessages(g) /\ t = s \o <<b>>
  BY <1>1, <1>2, BlockAdded
<1>4. IsSequence(s) /\ Len(s) \in Nat /\ b.no = Len(s) + 1
  BY <1>1, BlocksAreSequence, SequenceLen DEF BlockNo, h
<1> HIDE DEF s, t
<1> DEFINE u == <<b>>
<1>5. IsSequence(u) /\ Len(u) = 1 /\ u[1] = b
  BY ShortSequences
<1>6. t = s \o u
  BY <1>3
<1> HIDE DEF u
<1>7. /\ Len(s \o u) = Len(s) + Len(u)
      /\ (\A i \in 1..Len(s) : (s \o u)[i] = s[i]) /\ \A i \in 1..Len(u) : (s \o u)[Len(s) + i] = u[i]
  <2>1. IsSequence(s) /\ IsSequence(u)
    BY <1>4, <1>5
  <2> QED
    BY <2>1, Concatenation
<1>8. Len(t) = Len(s) + 1 /\ (\A i \in 1..Len(s) : t[i] = s[i]) /\ t[Len(s) + 1] = b
  <2>1. 1 \in 1..Len(u)
    BY <1>5
  <2> QED
    BY <1>5, <1>6, <1>7, <2>1
<1>9. \A k \in 1..Len(t) : IsBlock(t[k]) /\ t[k].no = k
  <2> TAKE k \in 1..Len(t)
  <2>1. k \in 1..Len(s) \/ k = Len(s) + 1
    BY <1>4, <1>8
  <2> QED
    BY <1>1, <1>4, <1>8, <2>1 DEF s
<1> QED
  BY <1>1, <1>2, <1>3, <1>9 DEF BlocksInOrder, FromMessages, g, t

\* Every step keeps it.
LEMMA StepKeepsOrder == BlocksInOrder /\ [RequestsNext]_requestVars => BlocksInOrder'
<1> SUFFICES ASSUME BlocksInOrder, [RequestsNext]_requestVars PROVE BlocksInOrder'
  OBVIOUS
<1>0. \A kind, id, no, parts, cc : LET b == Block(kind, id, no, parts, cc)
                                  IN /\ b.kind = kind /\ b.no = no /\ b.parts = parts
                                     /\ b = Block(b.kind, b.id, b.no, b.parts, b.cc)
  BY DEF Block
<1>1. IsSequence(<<>>) /\ \A part : IsSequence(<<part>>)
  BY ShortSequences
<1>2. ASSUME NEW m, Resend(m), ~FromMessages PROVE BlocksInOrder'
  <2>1. settings' = settings
    BY <1>2 DEF Resend, RunPipeline
  <2> QED
    BY <1>2, <2>1 DEF BlocksInOrder, FromMessages
<1>3. ASSUME MessagesUser PROVE BlocksInOrder'
  <2>1. PICK kind, id, parts, cc :
          /\ kind \in {"text", "document", "tool_result"} /\ IsSequence(parts)
          /\ AddBlock("user", Block(kind, id, BlockNo, parts, cc))
    BY <1>1, <1>3 DEF MessagesUser
  <2> DEFINE b == Block(kind, id, BlockNo, parts, cc)
  <2>2. IsBlock(b) /\ b.no = BlockNo /\ b.kind # "tool_use"
    BY <1>0, <2>1 DEF IsBlock
  <2>3. AddBlock("user", b) /\ FromMessages
    BY <1>3, <2>1 DEF MessagesUser
  <2> HIDE DEF b
  <2> QED
    BY <2>2, <2>3, AddsInOrder
<1>4. ASSUME MessagesAssistant PROVE BlocksInOrder'
  <2> DEFINE Kinds == {"text", "thinking", "redacted_thinking", "tool_use"}
  <2>0. {"text", "thinking", "redacted_thinking"} \subseteq Kinds /\ "tool_use" \in Kinds /\ "tool_result" \notin Kinds
    OBVIOUS
  <2> HIDE DEF Kinds
  <2>1. \E kind \in Kinds : \E id, cc : AddBlock("assistant", Block(kind, id, BlockNo, <<>>, cc))
    <3>1. CASE \E kind \in {"text", "thinking", "redacted_thinking"} : AddBlock("assistant", Block(kind, NoId, BlockNo, <<>>, FALSE))
      BY <2>0, <3>1
    <3>2. CASE \E id \in Ids : AddBlock("assistant", Block("tool_use", id, BlockNo, <<>>, FALSE))
      BY <2>0, <3>2
    <3> QED
      BY <1>4, <3>1, <3>2 DEF MessagesAssistant
  <2>4. PICK kind \in Kinds : \E id, cc : AddBlock("assistant", Block(kind, id, BlockNo, <<>>, cc))
    BY <2>1
  <2>5. PICK id, cc : AddBlock("assistant", Block(kind, id, BlockNo, <<>>, cc))
    BY <2>4
  <2> DEFINE b == Block(kind, id, BlockNo, <<>>, cc)
  <2>2. IsBlock(b) /\ b.no = BlockNo /\ b.kind # "tool_result"
    BY <1>0, <1>1, <2>0 DEF IsBlock
  <2>3. AddBlock("assistant", b) /\ FromMessages
    BY <1>4, <2>5 DEF MessagesAssistant
  <2> HIDE DEF b
  <2> QED
    BY <2>2, <2>3, AddsInOrder
<1>5. CASE UNCHANGED requestVars
  <2>1. settings' = settings /\ history' = history /\ messages' = messages
    BY <1>5 DEF requestVars
  <2> QED
    BY <2>1 DEF BlocksInOrder, FromMessages
<1>6. CASE RequestsNext
  <2>1. CASE FromMessages
    <3>1. MessagesUser \/ MessagesAssistant
      BY <1>6, <2>1 DEF RequestsNext, ChatMessage, ChatAssistant, ChatTool, ResponsesMessage, ResponsesCall,
                        ResponsesOutput, FromMessages
    <3> QED
      BY <1>3, <1>4, <3>1
  <2>2. CASE ~FromMessages
    BY <1>2, <1>6, <2>2, StepsAre
  <2> QED
    BY <2>1, <2>2
<1> QED
  BY <1>5, <1>6

\* On the Messages endpoint the history goes upstream as it is, and each block has its place as its
\* number.
THEOREM MessagesInOrder == RequestsSpec => []BlocksInOrder
<1>1. RequestsInit => BlocksInOrder
  <2> DEFINE e == <<>>
  <2>1. IsSequence(e) /\ Len(e) = 0 /\ Blocks(e) = e
    BY ShortSequences, BlocksOfNone
  <2> HIDE DEF e
  <2>2. AreMessages(e) /\ 1..Len(Blocks(e)) = {}
    BY <2>1 DEF AreMessages
  <2>3. ASSUME RequestsInit PROVE settings \in Settings /\ messages = history /\ history = e
    BY <2>3 DEF RequestsInit, e
  <2> QED
    BY <2>2, <2>3 DEF BlocksInOrder
<1>2. BlocksInOrder /\ [RequestsNext]_requestVars => BlocksInOrder'
  BY StepKeepsOrder
<1> QED
  BY <1>1, <1>2, PTL DEF RequestsSpec

---------------------------------------------------------------------------
(* The images of results, in an envelope. *)

\* Behind every result of the numbers N its images are shown, before the model speaks again.
Cared(e, N) ==
  /\ IsEnvelope(e)
  /\ \A i \in 1..Len(e) : \A x \in N : Has(e[i].parts, "tool_result", x) => Shown(e, i, x)

\* So it is in two envelopes in a row.
LEMMA CaresJoin ==
  ASSUME NEW a, NEW b, NEW N, Cared(a, N), Cared(b, N) PROVE Cared(a \o b, N)
<1> DEFINE c == a \o b
           n == Len(a)
<1>0. IsSequence(a) /\ IsSequence(b) /\ IsEnvelope(a) /\ IsEnvelope(b) /\ n \in Nat /\ Len(b) \in Nat
  BY SequenceLen DEF Cared, IsEnvelope
<1>1. /\ IsSequence(c) /\ Len(c) = n + Len(b)
      /\ (\A i \in 1..n : c[i] = a[i]) /\ \A i \in 1..Len(b) : c[n + i] = b[i]
  BY <1>0, Concatenation
<1>2. IsEnvelope(c)
  BY <1>0, EnvelopesJoin
<1> HIDE DEF c
<1>3. ASSUME NEW i \in 1..Len(c), NEW x \in N, Has(c[i].parts, "tool_result", x) PROVE Shown(c, i, x)
  <2>1. CASE i <= n
    <3>1. i \in 1..n /\ c[i] = a[i]
      BY <1>0, <1>1, <2>1
    <3>2. Shown(a, i, x)
      BY <1>3, <3>1 DEF Cared
    <3>3. PICK j \in (i + 1)..n : /\ a[j].role = "user" /\ Has(a[j].parts, "image", x)
                                  /\ \A k \in i..j : a[k].role # "assistant"
      BY <3>2 DEF Shown
    <3>4. j \in (i + 1)..Len(c) /\ j \in 1..n /\ \A k \in i..j : k \in 1..n
      BY <1>0, <1>1, <3>1, <3>3
    <3>5. c[j] = a[j] /\ \A k \in i..j : c[k] = a[k]
      BY <1>1, <3>4
    <3> QED
      BY <3>3, <3>4, <3>5 DEF Shown
  <2>2. CASE ~(i <= n)
    <3> DEFINE h == i - n
    <3>1. h \in 1..Len(b) /\ i = n + h
      BY <1>0, <1>1, <2>2
    <3>2. c[i] = b[h]
      BY <1>1, <3>1
    <3> HIDE DEF h
    <3>3. Shown(b, h, x)
      BY <1>3, <3>1, <3>2 DEF Cared
    <3>4. PICK j \in (h + 1)..Len(b) : /\ b[j].role = "user" /\ Has(b[j].parts, "image", x)
                                       /\ \A k \in h..j : b[k].role # "assistant"
      BY <3>3 DEF Shown
    <3>5. n + j \in (i + 1)..Len(c) /\ j \in 1..Len(b)
      BY <1>0, <1>1, <3>1, <3>4
    <3>6. \A k \in i..(n + j) : k - n \in h..j /\ k - n \in 1..Len(b) /\ n + (k - n) = k
      BY <1>0, <3>1, <3>4
    <3>7. \A k \in i..(n + j) : c[k] = b[k - n]
      BY <1>1, <3>6
    <3>8. c[n + j].role = "user" /\ Has(c[n + j].parts, "image", x)
      BY <1>1, <3>4, <3>5
    <3>9. \A k \in i..(n + j) : c[k].role # "assistant"
      BY <3>4, <3>6, <3>7
    <3> QED
      BY <3>5, <3>8, <3>9 DEF Shown
  <2> QED
    BY <2>1, <2>2
<1> QED
  BY <1>2, <1>3 DEF Cared, c

\* And in any number of them.
LEMMA CaresFlatten ==
  ASSUME NEW t, IsSequence(t), NEW N, \A i \in 1..Len(t) : Cared(t[i], N)
  PROVE  Cared(FlattenSeq(t), N)
<1> DEFINE U == UNION {ToSet(t[i]) : i \in DOMAIN t}
           Q == {q \in Seq(U) : Cared(q, N)}
<1>1. \A i \in 1..Len(t) : IsSequence(t[i])
  BY DEF Cared, IsEnvelope
<1>2. ASSUME NEW i \in 1..Len(t) PROVE t[i] \in Q
  <2>1. i \in DOMAIN t
    BY SequenceDomain
  <2>2. ToSet(t[i]) \subseteq U
    BY <2>1
  <2> HIDE DEF U
  <2>3. t[i] \in Seq(U)
    BY <1>1, <2>2, TypedSequence
  <2> QED
    BY <2>3
<1> HIDE DEF U
<1>3. \A a, b \in Q : a \o b \in Q
  <2> TAKE a, b \in Q
  <2>1. a \in Seq(U) /\ b \in Seq(U) /\ Cared(a, N) /\ Cared(b, N)
    OBVIOUS
  <2>2. a \o b \in Seq(U)
    BY <2>1
  <2> QED
    BY <2>1, <2>2, CaresJoin
<1>4. <<>> \in Q
  <2> DEFINE e == <<>>
  <2>1. e \in Seq(U) /\ IsEnvelope(e) /\ Len(e) = 0
    BY ShortEnvelopes, ShortSequences
  <2> HIDE DEF e
  <2>2. Cared(e, N)
    BY <2>1 DEF Cared
  <2> QED
    BY <2>1, <2>2 DEF e
<1>5. \A q \in Q : Cared(q, N)
  OBVIOUS
<1> HIDE DEF Q
<1>6. FlattenSeq(t) \in Q
  BY <1>1, <1>2, <1>3, <1>4, FlattenKeeps
<1> QED
  BY <1>5, <1>6

\* The marker moves no image.
LEMMA MarkedIsCared ==
  ASSUME NEW e, NEW N, Cared(e, N), NEW g, SameButTexts(e, g) PROVE Cared(g, N)
<1>0. IsEnvelope(e) /\ IsEnvelope(g) /\ Len(g) = Len(e)
  BY DEF SameButTexts
<1>1. ASSUME NEW i \in 1..Len(e), NEW kind, kind # "text", NEW x
      PROVE  Has(g[i].parts, kind, x) <=> Has(e[i].parts, kind, x)
  <2>1. /\ Len(g[i].parts) = Len(e[i].parts)
        /\ \A j \in 1..Len(e[i].parts) :
             \/ g[i].parts[j] = e[i].parts[j]
             \/ e[i].parts[j].kind = "text" /\ g[i].parts[j] = [e[i].parts[j] EXCEPT !.cc = TRUE]
    BY DEF SameButTexts
  <2>2. \A j \in 1..Len(e[i].parts) : IsPart(e[i].parts[j])
    BY <1>0 DEF IsEnvelope, IsCc
  <2> DEFINE p == e[i].parts
             q == g[i].parts
  <2>3. /\ Len(q) = Len(p) /\ \A j \in 1..Len(p) : IsPart(p[j])
        /\ \A j \in 1..Len(p) : q[j] = p[j] \/ (p[j].kind = "text" /\ q[j] = [p[j] EXCEPT !.cc = TRUE])
    BY <2>1, <2>2
  <2> HIDE DEF p, q
  <2>4. \A j \in 1..Len(p) : q[j] = p[j] \/ (p[j].kind = "text" /\ q[j].kind = "text")
    <3> TAKE j \in 1..Len(p)
    <3>1. CASE q[j] = p[j]
      BY <3>1
    <3>2. CASE p[j].kind = "text" /\ q[j] = [p[j] EXCEPT !.cc = TRUE]
      <4>1. [p[j] EXCEPT !.cc = TRUE].kind = p[j].kind
        BY <2>3, PartMarked
      <4> QED
        BY <3>2, <4>1
    <3> QED
      BY <2>3, <3>1, <3>2
  <2>5. Has(q, kind, x) <=> Has(p, kind, x)
    BY <1>1, <2>3, <2>4 DEF Has
  <2> QED
    BY <2>5 DEF p, q
<1>2. \A i \in 1..Len(e) : g[i].role = e[i].role
  BY DEF SameButTexts
<1>3. ASSUME NEW i \in 1..Len(g), NEW x \in N, Has(g[i].parts, "tool_result", x) PROVE Shown(g, i, x)
  <2>1. i \in 1..Len(e) /\ Has(e[i].parts, "tool_result", x)
    BY <1>0, <1>1, <1>3
  <2>2. PICK j \in (i + 1)..Len(e) : /\ e[j].role = "user" /\ Has(e[j].parts, "image", x)
                                     /\ \A k \in i..j : e[k].role # "assistant"
    BY <2>1 DEF Cared, Shown
  <2>3. j \in 1..Len(e) /\ \A k \in i..j : k \in 1..Len(e)
    BY <2>1, <2>2, SequenceLen, <1>0 DEF IsEnvelope
  <2>4. Has(g[j].parts, "image", x)
    BY <1>1, <2>2, <2>3
  <2>5. j \in (i + 1)..Len(g) /\ g[j].role = "user" /\ \A k \in i..j : g[k].role # "assistant"
    BY <1>0, <1>2, <2>2, <2>3
  <2> QED
    BY <2>4, <2>5 DEF Shown
<1> QED
  BY <1>0, <1>3 DEF Cared

---------------------------------------------------------------------------
(* The images of results, in the envelope of a request. *)

\* A block whose marker was taken off has all else that it had.
LEMMA BlockStripped ==
  ASSUME NEW b, IsBlock(b)
  PROVE  LET c == [b EXCEPT !.cc = FALSE]
         IN IsBlock(c) /\ c.kind = b.kind /\ c.id = b.id /\ c.no = b.no /\ c.parts = b.parts
<1> DEFINE v == FALSE
           c == [b EXCEPT !.cc = v]
<1> HIDE DEF v
<1>1. PICK p, q, r, s, t : b = [kind |-> p, id |-> q, no |-> r, parts |-> s, cc |-> t]
  BY DEF IsBlock, Block
<1>2. b.kind = p /\ b.id = q /\ b.no = r /\ b.parts = s
  BY <1>1
<1>3. c = [kind |-> p, id |-> q, no |-> r, parts |-> s, cc |-> v]
  BY <1>1
<1> HIDE DEF c
<1>4. c.kind = p /\ c.id = q /\ c.no = r /\ c.parts = s /\ c.cc = v
  BY <1>3
<1>5. c = Block(c.kind, c.id, c.no, c.parts, c.cc) /\ IsSequence(c.parts)
  BY <1>2, <1>3, <1>4 DEF IsBlock, Block
<1>6. IsBlock(c) /\ c.kind = b.kind /\ c.id = b.id /\ c.no = b.no /\ c.parts = b.parts
  BY <1>2, <1>4, <1>5 DEF IsBlock
<1> QED
  BY <1>6 DEF c, v

\* So it is with whole messages.
BlocksStripped(s) == [j \in DOMAIN s |-> [s[j] EXCEPT !.cc = FALSE]]

\* They are blocks still, with the kinds, ids, numbers and parts they had.
LEMMA StrippedBlocks ==
  ASSUME NEW s, IsSequence(s), \A b \in ToSet(s) : IsBlock(b)
  PROVE  /\ IsSequence(BlocksStripped(s)) /\ Len(BlocksStripped(s)) = Len(s)
         /\ \A j \in 1..Len(s) :
              LET c == BlocksStripped(s)[j]
              IN IsBlock(c) /\ c.kind = s[j].kind /\ c.id = s[j].id /\ c.no = s[j].no /\ c.parts = s[j].parts
<1> DEFINE t == BlocksStripped(s)
<1>1. DOMAIN s = 1..Len(s) /\ Len(s) \in Nat
  BY SequenceDomain
<1>2. DOMAIN t = 1..Len(s) /\ t = [j \in DOMAIN t |-> t[j]] /\ \A j \in 1..Len(s) : t[j] = [s[j] EXCEPT !.cc = FALSE]
  BY <1>1 DEF BlocksStripped
<1> HIDE DEF t
<1>3. IsSequence(t) /\ Len(t) = Len(s)
  BY <1>1, <1>2, TableIsSequence
<1>4. ASSUME NEW j \in 1..Len(s)
      PROVE  IsBlock(t[j]) /\ t[j].kind = s[j].kind /\ t[j].id = s[j].id /\ t[j].no = s[j].no /\ t[j].parts = s[j].parts
  <2> DEFINE b == s[j]
             c == [b EXCEPT !.cc = FALSE]
  <2>1. IsBlock(b) /\ t[j] = c
    BY <1>1, <1>2 DEF ToSet
  <2> HIDE DEF b
  <2>2. IsBlock(c) /\ c.kind = b.kind /\ c.id = b.id /\ c.no = b.no /\ c.parts = b.parts
    BY <2>1, BlockStripped
  <2> HIDE DEF c
  <2> QED
    BY <2>1, <2>2 DEF b
<1> QED
  BY <1>3, <1>4 DEF t

\* Messages without markers are messages still.
LEMMA StrippedIs ==
  ASSUME NEW msgs, AreMessages(msgs), \A i \in 1..Len(msgs) : \A b \in ToSet(msgs[i].blocks) : IsBlock(b)
  PROVE  /\ AreMessages(Stripped(msgs)) /\ Len(Stripped(msgs)) = Len(msgs)
         /\ \A i \in 1..Len(msgs) : /\ Stripped(msgs)[i].role = msgs[i].role
                                    /\ Stripped(msgs)[i].blocks = BlocksStripped(msgs[i].blocks)
<1> DEFINE t == Stripped(msgs)
<1>1. DOMAIN msgs = 1..Len(msgs) /\ Len(msgs) \in Nat /\ \A i \in 1..Len(msgs) : IsMessage(msgs[i])
  BY SequenceDomain DEF AreMessages
<1>2. DOMAIN t = 1..Len(msgs) /\ t = [i \in DOMAIN t |-> t[i]]
      /\ \A i \in 1..Len(msgs) : t[i] = [msgs[i] EXCEPT !.blocks = BlocksStripped(msgs[i].blocks)]
  BY <1>1 DEF Stripped, BlocksStripped
<1> HIDE DEF t
<1>3. IsSequence(t) /\ Len(t) = Len(msgs)
  BY <1>1, <1>2, TableIsSequence
<1>4. ASSUME NEW i \in 1..Len(msgs)
      PROVE  IsMessage(t[i]) /\ t[i].role = msgs[i].role /\ t[i].blocks = BlocksStripped(msgs[i].blocks)
  <2> DEFINE m == msgs[i]
             s == m.blocks
             u == BlocksStripped(s)
             x == t[i]
  <2>1. /\ m = Message(m.role, s) /\ m.role \in {"user", "assistant"} /\ IsSequence(s)
        /\ m.role = "user" => Lacks(s, "tool_use")
        /\ m.role = "assistant" => Lacks(s, "tool_result")
    BY <1>1 DEF IsMessage
  <2>2. x = [m EXCEPT !.blocks = u]
    BY <1>2
  <2> HIDE DEF x, u
  <2>3. x = Message(m.role, u) /\ x.role = m.role /\ x.blocks = u
    BY <2>1, <2>2 DEF Message
  <2>4. \A b \in ToSet(s) : IsBlock(b)
    OBVIOUS
  <2>5. IsSequence(u) /\ Len(u) = Len(s) /\ \A j \in 1..Len(s) : u[j].kind = s[j].kind
    BY <2>1, <2>4, StrippedBlocks DEF u
  <2> HIDE DEF s, m
  <2>6. DOMAIN s = 1..Len(s) /\ DOMAIN u = 1..Len(s)
    BY <2>1, <2>5, SequenceDomain
  <2>7. \A kind : Lacks(s, kind) => Lacks(u, kind)
    BY <2>5, <2>6 DEF Lacks, ToSet
  <2>8. IsMessage(x)
    BY <2>1, <2>3, <2>5, <2>7 DEF IsMessage
  <2> QED
    BY <2>3, <2>8 DEF x, u, m, s
<1> QED
  BY <1>3, <1>4 DEF t, AreMessages

\* The results of the numbers N hold images still.
LEMMA StrippedPictured ==
  ASSUME NEW m, NEW n, IsSequence(m.blocks), \A b \in ToSet(m.blocks) : IsBlock(b), n.blocks = BlocksStripped(m.blocks),
         NEW N, Pictured(m, N)
  PROVE  Pictured(n, N)
<1> DEFINE s == m.blocks
           t == n.blocks
<1>1. /\ IsSequence(t) /\ Len(t) = Len(s)
      /\ \A j \in 1..Len(s) : t[j].kind = s[j].kind /\ t[j].no = s[j].no /\ t[j].parts = s[j].parts
  BY StrippedBlocks
<1>2. DOMAIN s = 1..Len(s) /\ DOMAIN t = 1..Len(s)
  BY <1>1, SequenceDomain
<1>3. \A b \in ToSet(s) : b.kind = "tool_result" => IsSequence(b.parts) /\ (b.no \in N => "image" \in ToSet(b.parts))
  BY DEF Pictured
<1> HIDE DEF s, t
<1>4. ASSUME NEW b \in ToSet(t), b.kind = "tool_result"
      PROVE  IsSequence(b.parts) /\ (b.no \in N => "image" \in ToSet(b.parts))
  <2>1. PICK j \in 1..Len(s) : b = t[j]
    BY <1>2 DEF ToSet
  <2>2. s[j] \in ToSet(s) /\ s[j].kind = "tool_result" /\ s[j].no = b.no /\ s[j].parts = b.parts
    BY <1>1, <1>2, <1>4, <2>1 DEF ToSet
  <2> QED
    BY <1>3, <2>2
<1> QED
  BY <1>4 DEF Pictured, t

\* So the envelope of any messages shows the images of their results.
LEMMA BuiltIsCared ==
  ASSUME NEW msgs, AreMessages(msgs), NEW N, \A i \in 1..Len(msgs) : Pictured(msgs[i], N), NEW need, NEW s,
         s.replace => \A i \in 1..Len(msgs) : \A b \in ToSet(msgs[i].blocks) : IsBlock(b)
  PROVE  Cared(BuildCcRequest(msgs, need, s).msgs, N)
<1> DEFINE p == Parsed(msgs, s)
           names == ToolNames(p)
           reasoning == s.reasoning
<1>1. AreMessages(p) /\ \A i \in 1..Len(p) : Pictured(p[i], N)
  <2>1. CASE s.replace
    <3>1. p = Stripped(msgs)
      BY <2>1 DEF Parsed
    <3>2. /\ AreMessages(p) /\ Len(p) = Len(msgs)
          /\ \A i \in 1..Len(msgs) : p[i].blocks = BlocksStripped(msgs[i].blocks)
      BY <2>1, <3>1, StrippedIs
    <3> HIDE DEF p
    <3>3. ASSUME NEW i \in 1..Len(p) PROVE Pictured(p[i], N)
      <4> DEFINE m == msgs[i]
                 n == p[i]
      <4>1. /\ IsSequence(m.blocks) /\ (\A b \in ToSet(m.blocks) : IsBlock(b))
            /\ n.blocks = BlocksStripped(m.blocks) /\ Pictured(m, N)
        BY <2>1, <3>2 DEF AreMessages, IsMessage
      <4> HIDE DEF m, n
      <4>2. Pictured(n, N)
        BY <4>1, StrippedPictured
      <4> QED
        BY <4>2 DEF n
    <3> QED
      BY <3>2, <3>3
  <2>2. CASE ~s.replace
    <3>1. p = msgs
      BY <2>2 DEF Parsed
    <3> QED
      BY <3>1
  <2> QED
    BY <2>1, <2>2
<1>2. IsSequence(Parsed(msgs, s))
  BY <1>1 DEF AreMessages
<1>3. PICK t, w : BuiltBy(t, w, msgs, need, s)
  BY <1>2, BuiltIs
<1>4. /\ IsSequence(t) /\ Len(t) = Len(p)
      /\ \A i \in 1..Len(t) : t[i] = ConvertOne(p[i], names, reasoning).msgs
      /\ BuildCcRequest(msgs, need, s).msgs = SynthesizeCacheMarker(FlattenSeq(t), need \/ s.replace)
  BY <1>3 DEF BuiltBy
<1> HIDE DEF p, names, reasoning
<1>5. ASSUME NEW i \in 1..Len(t) PROVE Cared(t[i], N)
  <2> DEFINE m == p[i]
  <2>1. IsMessage(m) /\ Pictured(m, N) /\ t[i] = ConvertOne(m, names, reasoning).msgs
    BY <1>1, <1>4 DEF AreMessages
  <2>2. IsSequence(m.blocks) /\ m.role \in {"user", "assistant"}
    BY <2>1 DEF IsMessage
  <2> HIDE DEF m
  <2>3. CASE m.role = "assistant"
    <3> DEFINE e == ConvertAssistant(m, reasoning).msgs
    <3>1. t[i] = e
      BY <2>1, <2>3 DEF ConvertOne
    <3>2. IsEnvelope(e) /\ \A k \in 1..Len(e) : \A x : ~Has(e[k].parts, "tool_result", x)
      BY <2>1, <2>3, AssistantSent
    <3> HIDE DEF e
    <3> QED
      BY <3>1, <3>2 DEF Cared
  <2>4. CASE m.role = "user"
    <3> DEFINE e == ConvertUser(m, names).msgs
    <3>1. t[i] = e
      BY <2>1, <2>4 DEF ConvertOne
    <3>2. Tended(e, N)
      BY <2>1, <2>2, UserTended
    <3> HIDE DEF e
    <3> QED
      BY <3>1, <3>2 DEF Cared, Tended
  <2> QED
    BY <2>2, <2>3, <2>4
<1> DEFINE x == FlattenSeq(t)
           y == need \/ s.replace
<1>6. Cared(x, N)
  BY <1>4, <1>5, CaresFlatten
<1> HIDE DEF x, y
<1>7. SameButTexts(x, SynthesizeCacheMarker(x, y))
  BY <1>6, MarkerKeeps DEF Cared
<1>8. Cared(SynthesizeCacheMarker(x, y), N)
  BY <1>6, <1>7, MarkedIsCared
<1> QED
  BY <1>4, <1>8 DEF x, y


\* What goes upstream are messages with results of numbers of their own, on every endpoint.
LEMMA MessagesNumbered ==
  RequestBuilt /\ BlocksInOrder =>
    /\ AreMessages(messages) /\ Numbered(messages)
    /\ settings.replace => \A i \in 1..Len(messages) : \A b \in ToSet(messages[i].blocks) : IsBlock(b)
<1> SUFFICES ASSUME RequestBuilt, BlocksInOrder
             PROVE  /\ AreMessages(messages) /\ Numbered(messages)
                    /\ settings.replace => \A i \in 1..Len(messages) : \A b \in ToSet(messages[i].blocks) : IsBlock(b)
  OBVIOUS
<1>1. CASE ~FromMessages
  <2> DEFINE e == settings.endpoint
  <2>1. /\ e \in {"chat", "responses"} /\ AreItems(e, history)
        /\ made = Converted(e, history) /\ messages = RepairToolPairing(made)
    BY <1>1, EndpointsAre DEF RequestBuilt, HistoryRepaired, FromMessages
  <2>2. settings.replace = FALSE
    BY <2>1 DEF RequestBuilt, HistoryRepaired, Settings, Configuration
  <2>3. AreMessages(messages)
    BY <2>1, ConvertedAreMessages, RepairIsWellFormed
  <2>4. Numbered(messages)
    BY <1>1, ResultsNumbered DEF RequestBuilt
  <2> QED
    BY <2>2, <2>3, <2>4
<1>2. CASE FromMessages
  <2> DEFINE s == Blocks(messages)
  <2>1. AreMessages(messages) /\ \A k \in 1..Len(s) : IsBlock(s[k]) /\ s[k].no = k
    BY <1>2 DEF BlocksInOrder
  <2>2. IsSequence(s)
    BY <2>1, BlocksAreSequence
  <2>3. \A i \in 1..Len(messages) : ToSet(messages[i].blocks) \subseteq ToSet(s)
    BY <2>1, BlocksFound
  <2>4. \A b \in ToSet(Results(messages)) : b \in ToSet(s)
    BY <2>2, Filters DEF Results
  <2> HIDE DEF s
  <2>5. DOMAIN s = 1..Len(s)
    BY <2>2, SequenceDomain
  <2>6. \A b \in ToSet(s) : IsBlock(b) /\ b.no \in 1..Len(s) /\ b = s[b.no]
    BY <2>1, <2>5 DEF ToSet, s
  <2>7. Numbered(messages)
    BY <2>4, <2>6 DEF Numbered, IsBlock
  <2> QED
    BY <2>1, <2>3, <2>6, <2>7
<1> QED
  BY <1>1, <1>2

\* What the property says of the envelope.
LEMMA BuiltShows == RequestBuilt /\ BlocksInOrder => MediaFollowsResults
<1> SUFFICES ASSUME RequestBuilt, BlocksInOrder, NEW r \in ToSet(Results(messages)), NEW i \in DOMAIN envelope,
                    "image" \in ToSet(r.parts),
                    \E p \in ToSet(envelope[i].parts) : p.kind = "tool_result" /\ p.no = r.no
             PROVE  \E j \in (i + 1)..Len(envelope) :
                      /\ envelope[j].role = "user"
                      /\ \E p \in ToSet(envelope[j].parts) : p.kind = "image" /\ p.no = r.no
                      /\ \A k \in i..j : envelope[k].role # "assistant"
  BY DEF MediaFollowsResults
<1> DEFINE N == {r.no}
<1>1. /\ AreMessages(messages) /\ Numbered(messages)
      /\ settings.replace => \A h \in 1..Len(messages) : \A b \in ToSet(messages[h].blocks) : IsBlock(b)
  BY MessagesNumbered
<1>2. \A h \in 1..Len(messages) : Pictured(messages[h], N)
  <2> TAKE h \in 1..Len(messages)
  <2>1. IsSequence(messages[h].blocks) /\ IsSequence(Blocks(messages))
    BY <1>1, BlocksAreSequence DEF AreMessages, IsMessage
  <2>2. \A b \in ToSet(messages[h].blocks) : b \in ToSet(Blocks(messages))
    BY <1>1, BlocksFound
  <2>3. \A b \in ToSet(messages[h].blocks) : b.kind = "tool_result" => b \in ToSet(Results(messages))
    BY <2>1, <2>2, Filters DEF Results
  <2>4. \A b \in ToSet(Results(messages)) : IsSequence(b.parts) /\ (b.no = r.no => b = r)
    BY <1>1 DEF Numbered
  <2> QED
    BY <2>3, <2>4 DEF Pictured
<1> HIDE DEF N
<1>3. Cared(envelope, N)
  <2>1. Cared(BuildCcRequest(messages, NeedsMarker, settings).msgs, N)
    BY <1>1, <1>2, BuiltIsCared
  <2> QED
    BY <2>1 DEF RequestBuilt, Built
<1>4. DOMAIN envelope = 1..Len(envelope) /\ Len(envelope) \in Nat
      /\ \A j \in 1..Len(envelope) : DOMAIN envelope[j].parts = 1..Len(envelope[j].parts)
  BY <1>3, SequenceDomain DEF Cared, IsEnvelope, IsCc
<1>5. \A j \in 1..Len(envelope) : \A kind, x :
        Has(envelope[j].parts, kind, x) <=> \E p \in ToSet(envelope[j].parts) : p.kind = kind /\ p.no = x
  BY <1>4 DEF Has, ToSet
<1>6. Shown(envelope, i, r.no)
  <2>1. Has(envelope[i].parts, "tool_result", r.no)
    BY <1>4, <1>5
  <2> QED
    BY <1>3, <1>4, <2>1 DEF Cared, N
<1>7. PICK j \in (i + 1)..Len(envelope) : /\ envelope[j].role = "user" /\ Has(envelope[j].parts, "image", r.no)
                                          /\ \A k \in i..j : envelope[k].role # "assistant"
  BY <1>6 DEF Shown
<1>8. j \in 1..Len(envelope)
  BY <1>4, <1>7
<1>9. \E p \in ToSet(envelope[j].parts) : p.kind = "image" /\ p.no = r.no
  <2>1. Has(envelope[j].parts, "image", r.no)
    BY <1>7
  <2>2. Has(envelope[j].parts, "image", r.no) <=> \E p \in ToSet(envelope[j].parts) : p.kind = "image" /\ p.no = r.no
    BY <1>4, <1>8 DEF Has, ToSet
  <2> QED
    BY <2>1, <2>2
<1>10. envelope[j].role = "user" /\ \A k \in i..j : envelope[k].role # "assistant"
  BY <1>7
<1> QED
  BY <1>9, <1>10

\* On every endpoint, for a history of any length and whatever its mistakes: the images that results
\* hold are shown behind the result that held them, before the model speaks again.
THEOREM MediaAlwaysFollows == RequestsSpec => []MediaFollowsResults
<1>1. RequestsSpec => []RequestBuilt
  BY RequestsBuilt
<1>2. RequestsSpec => []BlocksInOrder
  BY MessagesInOrder
<1>3. RequestBuilt /\ BlocksInOrder => MediaFollowsResults
  BY BuiltShows
<1> QED
  BY <1>1, <1>2, <1>3, PTL

---------------------------------------------------------------------------
(* The places of what is put together. *)

\* at[i] elements come before the row i.
StartsAt(at, ss) == at[1] = 0 /\ \A i \in 1..Len(ss) : at[i + 1] = at[i] + Len(ss[i])

\* The first n rows, in s.
PlacedIn(s, at, ss, n) ==
  /\ IsSequence(s) /\ Len(s) = at[n + 1] /\ at[n + 1] \in Nat
  /\ \A i \in 1..n : at[i] \in Nat /\ at[i] + Len(ss[i]) <= at[n + 1]
  /\ \A i \in 1..n : \A j \in 1..Len(ss[i]) : s[at[i] + j] = ss[i][j]
  /\ \A k \in 1..Len(s) : \E i \in 1..n : k - at[i] \in 1..Len(ss[i])

\* Each element of a row has its place in what is put together.
LEMMA FlattenPlaces ==
  ASSUME NEW ss, IsSequence(ss), \A i \in 1..Len(ss) : IsSequence(ss[i]), NEW at, StartsAt(at, ss)
  PROVE  /\ PlacedIn(FlattenSeq(ss), at, ss, Len(ss))
         /\ \A i, l \in 1..Len(ss) : i < l => at[i] + Len(ss[i]) <= at[l]
<1> DEFINE N == Len(ss)
<1>0. N \in Nat /\ \A i \in 1..N : Len(ss[i]) \in Nat
  BY SequenceLen
<1>1. PICK f : Flattens(f, ss) /\ FlattenSeq(ss) = f[N]
  BY FlattenIs
<1> DEFINE S == {n \in Nat : n <= N => PlacedIn(f[n], at, ss, n)}
<1>2. 0 \in S
  <2>1. f[0] = <<>> /\ at[0 + 1] = 0
    BY <1>1 DEF Flattens, StartsAt
  <2>2. IsSequence(f[0]) /\ Len(f[0]) = 0
    BY <2>1, ShortSequences
  <2>3. PlacedIn(f[0], at, ss, 0)
    BY <2>1, <2>2 DEF PlacedIn
  <2> QED
    BY <2>3
<1>3. ASSUME NEW n \in Nat, n \in S PROVE n + 1 \in S
  <2> SUFFICES ASSUME n + 1 <= N PROVE PlacedIn(f[n + 1], at, ss, n + 1)
    OBVIOUS
  <2> DEFINE s == f[n]
             t == ss[n + 1]
             c == s \o t
             m == n + 1
  <2>1. m \in 1..N /\ m - 1 = n /\ n <= N /\ m \in Nat
    BY <1>0
  <2>2. f[m] = c
    <3>1. f[m] = f[m - 1] \o ss[m]
      BY <1>1, <2>1 DEF Flattens
    <3> QED
      BY <2>1, <3>1
  <2>3. PlacedIn(s, at, ss, n)
    BY <1>3, <2>1
  <2>4. Len(s) = at[m] /\ at[m] \in Nat /\ Len(t) \in Nat /\ t = ss[m]
    BY <1>0, <2>1, <2>3 DEF PlacedIn
  <2>5. at[m + 1] = at[m] + Len(t)
    BY <2>1 DEF StartsAt
  <2>14. IsSequence(s) /\ IsSequence(t)
    BY <2>1, <2>3 DEF PlacedIn
  <2> HIDE DEF s, t
  <2>6. /\ IsSequence(c) /\ Len(c) = Len(s) + Len(t)
        /\ \A i \in 1..Len(s) : c[i] = s[i]
        /\ \A i \in 1..Len(t) : c[Len(s) + i] = t[i]
    BY <2>14, Concatenation
  <2> HIDE DEF c
  <2>7. \A i \in 1..m : i \in 1..n \/ i = m
    BY <2>1
  <2>8. \A i \in 1..n : i \in 1..N /\ Len(ss[i]) \in Nat
    BY <1>0, <2>1
  <2>9. \A i \in 1..m : at[i] \in Nat /\ at[i] + Len(ss[i]) <= at[m + 1]
    <3> TAKE i \in 1..m
    <3>1. CASE i = m
      BY <2>4, <2>5, <3>1
    <3>2. CASE i \in 1..n
      <4>1. at[i] \in Nat /\ at[i] + Len(ss[i]) <= at[m]
        BY <2>3, <3>2 DEF PlacedIn
      <4> QED
        BY <2>4, <2>5, <2>8, <3>2, <4>1
    <3> QED
      BY <2>7, <3>1, <3>2
  <2>10. ASSUME NEW i \in 1..m, NEW j \in 1..Len(ss[i]) PROVE c[at[i] + j] = ss[i][j]
    <3>1. CASE i = m
      BY <2>4, <2>6, <3>1
    <3>2. CASE i \in 1..n
      <4>1. at[i] \in Nat /\ at[i] + Len(ss[i]) <= Len(s) /\ s[at[i] + j] = ss[i][j]
        BY <2>3, <2>4, <3>2 DEF PlacedIn
      <4>2. at[i] + j \in 1..Len(s)
        BY <2>4, <2>8, <3>2, <4>1
      <4> QED
        BY <2>6, <4>1, <4>2
    <3> QED
      BY <2>7, <3>1, <3>2
  <2>11. ASSUME NEW k \in 1..Len(c) PROVE \E i \in 1..m : k - at[i] \in 1..Len(ss[i])
    <3>1. CASE k <= Len(s)
      <4>1. k \in 1..Len(s)
        BY <2>4, <2>6, <3>1
      <4>2. PICK i \in 1..n : k - at[i] \in 1..Len(ss[i])
        BY <2>3, <4>1 DEF PlacedIn
      <4> QED
        BY <2>1, <4>2
    <3>2. CASE ~(k <= Len(s))
      <4>1. k - at[m] \in 1..Len(ss[m]) /\ m \in 1..m
        BY <2>1, <2>4, <2>6, <3>2
      <4> QED
        BY <4>1
    <3> QED
      BY <3>1, <3>2
  <2>12. Len(c) = at[m + 1] /\ at[m + 1] \in Nat
    BY <2>4, <2>5, <2>6
  <2>13. PlacedIn(c, at, ss, m)
    BY <2>6, <2>9, <2>10, <2>11, <2>12 DEF PlacedIn
  <2> QED
    BY <2>2, <2>13
<1> HIDE DEF S
<1>4. \A n \in Nat : n \in S
  BY <1>2, <1>3, Induction
<1>5. \A n \in 0..N : PlacedIn(f[n], at, ss, n)
  BY <1>0, <1>4 DEF S
<1>6. ASSUME NEW i \in 1..N, NEW l \in 1..N, i < l PROVE at[i] + Len(ss[i]) <= at[l]
  <2>1. l - 1 \in 0..N /\ i \in 1..(l - 1) /\ (l - 1) + 1 = l
    BY <1>0, <1>6
  <2> QED
    BY <1>5, <2>1 DEF PlacedIn
<1> QED
  BY <1>0, <1>1, <1>5, <1>6

\* There are such places.
LEMMA FlattenStarts ==
  ASSUME NEW ss, IsSequence(ss), \A i \in 1..Len(ss) : IsSequence(ss[i]) PROVE \E at : StartsAt(at, ss)
<1> DEFINE N == Len(ss)
<1>0. N \in Nat
  BY SequenceLen
<1>1. PICK f : Flattens(f, ss) /\ FlattenSeq(ss) = f[N]
  BY FlattenIs
<1> DEFINE at == [i \in 1..(N + 1) |-> Len(f[i - 1])]
<1>2. at[1] = 0
  <2>1. f[0] = <<>> /\ 1 \in 1..(N + 1) /\ 1 - 1 = 0
    BY <1>0, <1>1 DEF Flattens
  <2>2. at[1] = Len(f[0])
    BY <2>1
  <2> QED
    BY <2>1, <2>2, ShortSequences
<1>3. ASSUME NEW i \in 1..N PROVE at[i + 1] = at[i] + Len(ss[i])
  <2>1. i \in 1..(N + 1) /\ i + 1 \in 1..(N + 1) /\ (i + 1) - 1 = i /\ i - 1 \in 0..N
    BY <1>0
  <2>2. at[i + 1] = Len(f[i]) /\ at[i] = Len(f[i - 1])
    BY <2>1
  <2>3. f[i] = f[i - 1] \o ss[i] /\ IsSequence(f[i - 1]) /\ IsSequence(ss[i])
    BY <1>1, <2>1 DEF Flattens
  <2>4. Len(f[i]) = Len(f[i - 1]) + Len(ss[i])
    BY <2>3, Concatenation
  <2> QED
    BY <2>2, <2>4
<1>4. StartsAt(at, ss)
  BY <1>2, <1>3 DEF StartsAt
<1> HIDE DEF at
<1> QED
  BY <1>4

---------------------------------------------------------------------------
(* The parts of an envelope in a row, and the marker among them. *)

\* Where the parts of the messages of e are among all of its parts.
PartsPlaced(at, e) ==
  LET p == PartsIn(e)
  IN /\ IsSequence(p) /\ Len(p) = at[Len(e) + 1]
     /\ \A i \in 1..Len(e) : at[i] \in Nat /\ at[i] + Len(e[i].parts) <= Len(p)
     /\ \A i \in 1..Len(e) : \A j \in 1..Len(e[i].parts) : p[at[i] + j] = e[i].parts[j]
     /\ \A k \in 1..Len(p) : \E i \in 1..Len(e) : k - at[i] \in 1..Len(e[i].parts)
     /\ \A i, l \in 1..Len(e) : i < l => at[i] + Len(e[i].parts) <= at[l]

\* They are there where their rows are.
LEMMA PlacedParts ==
  ASSUME NEW e, NEW t, PartsIn(e) = FlattenSeq(t), Len(t) = Len(e), \A i \in 1..Len(e) : t[i] = e[i].parts,
         NEW at, PlacedIn(FlattenSeq(t), at, t, Len(t)),
         \A i, l \in 1..Len(t) : i < l => at[i] + Len(t[i]) <= at[l]
  PROVE  PartsPlaced(at, e)
<1> DEFINE p == FlattenSeq(t)
           n == Len(t)
<1>1. /\ IsSequence(p) /\ Len(p) = at[n + 1] /\ at[n + 1] \in Nat
      /\ \A i \in 1..n : at[i] \in Nat /\ at[i] + Len(t[i]) <= at[n + 1]
      /\ \A i \in 1..n : \A j \in 1..Len(t[i]) : p[at[i] + j] = t[i][j]
      /\ \A k \in 1..Len(p) : \E i \in 1..n : k - at[i] \in 1..Len(t[i])
  BY DEF PlacedIn
<1> HIDE DEF p
<1>2. IsSequence(p) /\ Len(p) = at[Len(e) + 1]
  BY <1>1
<1>3. \A i \in 1..Len(e) : at[i] \in Nat /\ at[i] + Len(e[i].parts) <= Len(p)
  BY <1>1
<1>4. \A i \in 1..Len(e) : \A j \in 1..Len(e[i].parts) : p[at[i] + j] = e[i].parts[j]
  BY <1>1
<1>5. \A k \in 1..Len(p) : \E i \in 1..Len(e) : k - at[i] \in 1..Len(e[i].parts)
  BY <1>1
<1>6. \A i, l \in 1..Len(e) : i < l => at[i] + Len(e[i].parts) <= at[l]
  OBVIOUS
<1>7. PartsIn(e) = p
  BY DEF p
<1> QED
  BY <1>2, <1>3, <1>4, <1>5, <1>6, <1>7 DEF PartsPlaced

\* Envelopes with messages of the same lengths have their parts at the same places.
LEMMA PlacesShared ==
  ASSUME NEW e, IsEnvelope(e), NEW g, IsEnvelope(g), Len(g) = Len(e),
         \A i \in 1..Len(e) : Len(g[i].parts) = Len(e[i].parts)
  PROVE  \E at : PartsPlaced(at, e) /\ PartsPlaced(at, g)
<1>1. PICK t : /\ PartsIn(e) = FlattenSeq(t) /\ IsSequence(t) /\ Len(t) = Len(e)
               /\ \A i \in 1..Len(e) : t[i] = e[i].parts /\ IsSequence(t[i])
  BY PartsAreFlat
<1>2. PICK u : /\ PartsIn(g) = FlattenSeq(u) /\ IsSequence(u) /\ Len(u) = Len(g)
               /\ \A i \in 1..Len(g) : u[i] = g[i].parts /\ IsSequence(u[i])
  BY PartsAreFlat
<1>3. /\ \A i \in 1..Len(t) : IsSequence(t[i])
      /\ \A i \in 1..Len(u) : IsSequence(u[i])
      /\ Len(u) = Len(t) /\ \A i \in 1..Len(t) : Len(u[i]) = Len(t[i])
  BY <1>1, <1>2
<1>4. PICK at : StartsAt(at, t)
  BY <1>1, <1>3, FlattenStarts
<1>5. StartsAt(at, u)
  BY <1>3, <1>4 DEF StartsAt
<1>6. /\ PlacedIn(FlattenSeq(t), at, t, Len(t))
      /\ \A i, l \in 1..Len(t) : i < l => at[i] + Len(t[i]) <= at[l]
  BY <1>1, <1>3, <1>4, FlattenPlaces
<1>7. /\ PlacedIn(FlattenSeq(u), at, u, Len(u))
      /\ \A i, l \in 1..Len(u) : i < l => at[i] + Len(u[i]) <= at[l]
  BY <1>2, <1>3, <1>5, FlattenPlaces
<1>8. PartsPlaced(at, e)
  BY <1>1, <1>6, PlacedParts
<1>9. PartsPlaced(at, g)
  BY <1>2, <1>7, PlacedParts
<1> QED
  BY <1>8, <1>9

\* The marker, among all parts: at the last text and nowhere else, if there is need of one, a place
\* for it and no other.
LEMMA MarkerPlaced ==
  ASSUME NEW e, IsEnvelope(e), NEW need
  PROVE  LET g     == SynthesizeCacheMarker(e, need)
             p     == PartsIn(e)
             q     == PartsIn(g)
             texts == {k \in 1..Len(p) : p[k].kind = "text"}
         IN /\ IsSequence(p) /\ IsSequence(q) /\ Len(q) = Len(p)
            /\ \A k \in 1..Len(p) : q[k].kind = p[k].kind /\ q[k].id = p[k].id /\ q[k].no = p[k].no
            /\ ~need \/ texts = {} \/ (\E k \in 1..Len(p) : p[k].cc) => q = p
            /\ need /\ texts # {} /\ (\A k \in 1..Len(p) : ~p[k].cc) =>
                 \A k \in 1..Len(p) : q[k].cc <=> k = Max(texts)
<1> DEFINE g == SynthesizeCacheMarker(e, need)
           p == PartsIn(e)
           q == PartsIn(g)
           texts == {k \in 1..Len(p) : p[k].kind = "text"}
           T == {i \in DOMAIN e : TextsIn(e[i]) # {}}
           i == Max(T)
           j == Max(TextsIn(e[i]))
           marked == \E h \in DOMAIN e : \E k \in DOMAIN e[h].parts : e[h].parts[k].cc
<1>1. SameButTexts(e, g)
  BY MarkerKeeps
<1>2. /\ IsEnvelope(g) /\ Len(g) = Len(e) /\ \A h \in 1..Len(e) : Len(g[h].parts) = Len(e[h].parts)
  BY <1>1 DEF SameButTexts
<1>3. g = IF ~need \/ marked \/ T = {} THEN e ELSE MarkedAt(e, i, j)
  BY DEF SynthesizeCacheMarker, MarkedAt
<1>4. /\ DOMAIN e = 1..Len(e) /\ Len(e) \in Nat
      /\ \A h \in 1..Len(e) : IsSequence(e[h].parts) /\ \A k \in 1..Len(e[h].parts) : IsPart(e[h].parts[k])
  BY SequenceDomain DEF IsEnvelope, IsCc
<1>5. \A h \in 1..Len(e) : DOMAIN e[h].parts = 1..Len(e[h].parts) /\ Len(e[h].parts) \in Nat
  BY <1>4, SequenceDomain
<1>6. T # {} => /\ i \in 1..Len(e) /\ j \in 1..Len(e[i].parts) /\ e[i].parts[j].kind = "text"
                /\ \A k \in 1..Len(e) : TextsIn(e[k]) # {} => k <= i
                /\ \A k \in TextsIn(e[i]) : k <= j
  BY LastText
<1> HIDE DEF g, i, j
<1>7. PICK at : PartsPlaced(at, e) /\ PartsPlaced(at, g)
  BY <1>2, PlacesShared
<1>8. /\ IsSequence(p) /\ IsSequence(q) /\ Len(q) = Len(p) /\ Len(p) \in Nat
      /\ \A h \in 1..Len(e) : at[h] \in Nat /\ at[h] + Len(e[h].parts) <= Len(p)
      /\ \A h \in 1..Len(e) : \A k \in 1..Len(e[h].parts) :
           p[at[h] + k] = e[h].parts[k] /\ q[at[h] + k] = g[h].parts[k]
      /\ \A k \in 1..Len(p) : \E h \in 1..Len(e) : k - at[h] \in 1..Len(e[h].parts)
      /\ \A h, l \in 1..Len(e) : h < l => at[h] + Len(e[h].parts) <= at[l]
  BY <1>2, <1>7, SequenceLen DEF PartsPlaced
<1> HIDE DEF p, q
\* A part of a message has its place, and a place its part.
<1>9. \A h \in 1..Len(e) : \A k \in 1..Len(e[h].parts) : at[h] + k \in 1..Len(p)
  BY <1>5, <1>8
<1>10. ASSUME NEW k \in 1..Len(p)
       PROVE  \E h \in 1..Len(e) : \E l \in 1..Len(e[h].parts) :
                k = at[h] + l /\ p[k] = e[h].parts[l] /\ q[k] = g[h].parts[l]
  <2>1. PICK h \in 1..Len(e) : k - at[h] \in 1..Len(e[h].parts)
    BY <1>8
  <2> DEFINE l == k - at[h]
  <2>2. l \in 1..Len(e[h].parts) /\ k = at[h] + l
    BY <1>8, <2>1
  <2> HIDE DEF l
  <2>3. p[at[h] + l] = e[h].parts[l] /\ q[at[h] + l] = g[h].parts[l]
    BY <1>8, <2>2
  <2> QED
    BY <2>2, <2>3
<1>11. marked <=> \E k \in 1..Len(p) : p[k].cc
  <2>1. ASSUME marked PROVE \E k \in 1..Len(p) : p[k].cc
    <3>1. PICK h \in 1..Len(e) : \E k \in DOMAIN e[h].parts : e[h].parts[k].cc
      BY <1>4, <2>1
    <3>2. PICK l \in 1..Len(e[h].parts) : e[h].parts[l].cc
      BY <1>5, <3>1
    <3>3. at[h] + l \in 1..Len(p) /\ p[at[h] + l] = e[h].parts[l]
      BY <1>8, <1>9
    <3> QED
      BY <3>2, <3>3
  <2>2. ASSUME NEW k \in 1..Len(p), p[k].cc PROVE marked
    <3>1. PICK h \in 1..Len(e) : \E l \in 1..Len(e[h].parts) : p[k] = e[h].parts[l]
      BY <1>10
    <3>2. PICK l \in 1..Len(e[h].parts) : p[k] = e[h].parts[l]
      BY <3>1
    <3>3. e[h].parts[l].cc /\ h \in DOMAIN e /\ l \in DOMAIN e[h].parts
      BY <1>4, <1>5, <2>2, <3>2
    <3> QED
      BY <3>3
  <2> HIDE DEF marked
  <2> QED
    BY <2>1, <2>2
<1>12. T # {} <=> texts # {}
  <2>1. ASSUME T # {} PROVE texts # {}
    <3>1. at[i] + j \in 1..Len(p) /\ p[at[i] + j] = e[i].parts[j] /\ e[i].parts[j].kind = "text"
      BY <1>6, <1>8, <1>9, <2>1
    <3> QED
      BY <3>1
  <2>2. ASSUME NEW k \in texts PROVE T # {}
    <3>1. PICK h \in 1..Len(e) : \E l \in 1..Len(e[h].parts) : p[k] = e[h].parts[l]
      BY <1>10
    <3>2. PICK l \in 1..Len(e[h].parts) : p[k] = e[h].parts[l]
      BY <3>1
    <3>3. l \in TextsIn(e[h])
      BY <1>5, <3>2 DEF TextsIn
    <3> QED
      BY <1>4, <3>3
  <2> QED
    BY <2>1, <2>2
<1>13. \A k \in 1..Len(p) : q[k].kind = p[k].kind /\ q[k].id = p[k].id /\ q[k].no = p[k].no
  <2> TAKE k \in 1..Len(p)
  <2>1. PICK h \in 1..Len(e) : \E l \in 1..Len(e[h].parts) : p[k] = e[h].parts[l] /\ q[k] = g[h].parts[l]
    BY <1>10
  <2>2. PICK l \in 1..Len(e[h].parts) : p[k] = e[h].parts[l] /\ q[k] = g[h].parts[l]
    BY <2>1
  <2>3. g[h].parts[l] = e[h].parts[l] \/ g[h].parts[l] = [e[h].parts[l] EXCEPT !.cc = TRUE]
    BY <1>1 DEF SameButTexts
  <2>4. IsPart(e[h].parts[l])
    BY <1>4
  <2> DEFINE x == e[h].parts[l]
             y == [x EXCEPT !.cc = TRUE]
  <2>5. y.kind = x.kind /\ y.id = x.id /\ y.no = x.no
    BY <2>4, PartMarked
  <2>6. p[k] = x /\ (q[k] = x \/ q[k] = y)
    BY <2>2, <2>3
  <2> HIDE DEF x, y
  <2> QED
    BY <2>5, <2>6
<1>14. ASSUME ~need \/ texts = {} \/ \E k \in 1..Len(p) : p[k].cc PROVE q = p
  <2>1. g = e
    BY <1>3, <1>11, <1>12, <1>14
  <2> QED
    BY <2>1 DEF p, q
<1>15. ASSUME need, texts # {}, \A k \in 1..Len(p) : ~p[k].cc
       PROVE  \A k \in 1..Len(p) : q[k].cc <=> k = Max(texts)
  <2> DEFINE m == at[i] + j
  <2>1. g = MarkedAt(e, i, j)
    BY <1>3, <1>11, <1>12, <1>15
  <2>2. /\ i \in 1..Len(e) /\ j \in 1..Len(e[i].parts) /\ e[i].parts[j].kind = "text"
        /\ \A k \in 1..Len(e) : TextsIn(e[k]) # {} => k <= i
        /\ \A k \in TextsIn(e[i]) : k <= j
    BY <1>6, <1>12, <1>15
  <2>3. /\ \A k \in 1..Len(e) : k # i => g[k] = e[k]
        /\ \A k \in 1..Len(e[i].parts) : k # j => g[i].parts[k] = e[i].parts[k]
        /\ g[i].parts[j] = [e[i].parts[j] EXCEPT !.cc = TRUE]
    BY <2>1, <2>2, MarkedIs
  <2>4. g[i].parts[j].cc
    BY <1>4, <2>2, <2>3, PartMarked
  <2>5. m \in texts /\ q[m].cc
    BY <1>8, <1>9, <2>2, <2>4
  <2>6. \A k \in texts : k <= m
    <3> TAKE k \in texts
    <3>1. PICK h \in 1..Len(e) : \E l \in 1..Len(e[h].parts) : k = at[h] + l /\ p[k] = e[h].parts[l]
      BY <1>10
    <3>2. PICK l \in 1..Len(e[h].parts) : k = at[h] + l /\ p[k] = e[h].parts[l]
      BY <3>1
    <3>3. l \in TextsIn(e[h])
      BY <1>5, <3>2 DEF TextsIn
    <3>4. h <= i
      BY <2>2, <3>3
    <3>5. CASE h = i
      <4>1. l <= j
        BY <2>2, <3>3, <3>5
      <4> QED
        BY <1>5, <1>8, <2>2, <3>2, <3>5, <4>1
    <3>6. CASE h < i
      <4>1. at[h] + Len(e[h].parts) <= at[i]
        BY <1>8, <2>2, <3>6
      <4>2. at[h] \in Nat /\ at[i] \in Nat /\ Len(e[h].parts) \in Nat /\ l \in Nat /\ l <= Len(e[h].parts)
            /\ j \in Nat
        BY <1>5, <1>8, <2>2
      <4> QED
        BY <3>2, <4>1, <4>2
    <3> QED
      BY <1>4, <2>2, <3>4, <3>5, <3>6
  <2>7. Max(texts) \in texts /\ \A k \in texts : k <= Max(texts)
    <3>1. texts \subseteq 1..Len(p)
      OBVIOUS
    <3> HIDE DEF texts
    <3> QED
      BY <1>8, <1>15, <3>1, MaxOfPlaces
  <2>8. Max(texts) = m
    <3>1. m <= Max(texts) /\ Max(texts) <= m
      BY <2>5, <2>6, <2>7
    <3>2. m \in Int /\ Max(texts) \in Int
      BY <2>5, <2>7
    <3> QED
      BY <3>1, <3>2
  <2>9. ASSUME NEW k \in 1..Len(p), k # m PROVE ~q[k].cc
    <3>1. PICK h \in 1..Len(e) : \E l \in 1..Len(e[h].parts) :
                                   k = at[h] + l /\ p[k] = e[h].parts[l] /\ q[k] = g[h].parts[l]
      BY <1>10
    <3>2. PICK l \in 1..Len(e[h].parts) : k = at[h] + l /\ p[k] = e[h].parts[l] /\ q[k] = g[h].parts[l]
      BY <3>1
    <3>3. h # i \/ l # j
      BY <2>9, <3>2
    <3>4. g[h].parts[l] = e[h].parts[l]
      BY <2>3, <3>3
    <3>5. q[k] = p[k]
      BY <3>2, <3>4
    <3> QED
      BY <1>15, <3>5
  <2> HIDE DEF m, texts
  <2> QED
    BY <2>5, <2>8, <2>9
<1> QED
  BY <1>8, <1>13, <1>14, <1>15 DEF p, q, g

---------------------------------------------------------------------------
(* The parts of an envelope, and the blocks they are of. *)

\* What is put together are the elements of the rows.
LEMMA FlattenElements ==
  ASSUME NEW ss, IsSequence(ss), \A i \in 1..Len(ss) : IsSequence(ss[i])
  PROVE  /\ IsSequence(FlattenSeq(ss))
         /\ \A k \in 1..Len(FlattenSeq(ss)) : \E i \in 1..Len(ss) : \E j \in 1..Len(ss[i]) : FlattenSeq(ss)[k] = ss[i][j]
<1> DEFINE s == FlattenSeq(ss)
<1>1. PICK at : StartsAt(at, ss)
  BY FlattenStarts
<1>2. /\ IsSequence(s) /\ \A i \in 1..Len(ss) : at[i] \in Nat
      /\ \A i \in 1..Len(ss) : \A j \in 1..Len(ss[i]) : s[at[i] + j] = ss[i][j]
      /\ \A k \in 1..Len(s) : \E i \in 1..Len(ss) : k - at[i] \in 1..Len(ss[i])
  BY <1>1, FlattenPlaces DEF PlacedIn
<1> HIDE DEF s
<1>3. ASSUME NEW k \in 1..Len(s) PROVE \E i \in 1..Len(ss) : \E j \in 1..Len(ss[i]) : s[k] = ss[i][j]
  <2>1. PICK i \in 1..Len(ss) : k - at[i] \in 1..Len(ss[i])
    BY <1>2
  <2> DEFINE j == k - at[i]
  <2>2. j \in 1..Len(ss[i]) /\ at[i] + j = k
    BY <1>2, <2>1
  <2> HIDE DEF j
  <2> QED
    BY <1>2, <2>2
<1> QED
  BY <1>2, <1>3 DEF s

\* A part is a block's, marked as the block is, ...
Copied(p, b) == p.kind = b.kind /\ p.id = b.id /\ p.no = b.no /\ p.cc = b.cc

\* ... or was moved out of a result, without a mark.
Moved(p, b) == b.kind = "tool_result" /\ p.kind \in {"text", "image"} /\ p.no = b.no /\ ~p.cc

From(p, B) == \E b \in B : Copied(p, b) \/ Moved(p, b)

\* All the parts of s, or of the messages of e, are of the blocks B.
Drawn(s, B)   == IsSequence(s) /\ \A j \in 1..Len(s) : From(s[j], B)
DrawnIn(e, B) == IsSequence(e) /\ \A i \in 1..Len(e) : Drawn(e[i].parts, B)

\* No parts, one, and parts in a row.
LEMMA DrawnAre ==
  ASSUME NEW B
  PROVE  /\ Drawn(<<>>, B)
         /\ \A p : From(p, B) => Drawn(<<p>>, B)
         /\ \A s, t : Drawn(s, B) /\ Drawn(t, B) => Drawn(s \o t, B)
         /\ \A s, p : Drawn(s, B) /\ From(p, B) => Drawn(Append(s, p), B)
<1>1. Drawn(<<>>, B)
  BY ShortSequences DEF Drawn
<1>2. ASSUME NEW p, From(p, B) PROVE Drawn(<<p>>, B)
  <2> DEFINE s == <<p>>
  <2>1. IsSequence(s) /\ Len(s) = 1 /\ s[1] = p
    BY ShortSequences
  <2> HIDE DEF s
  <2>2. \A j \in 1..Len(s) : s[j] = p
    BY <2>1
  <2>3. Drawn(s, B)
    BY <1>2, <2>1, <2>2 DEF Drawn
  <2> QED
    BY <2>3 DEF s
<1>3. ASSUME NEW s, NEW t, Drawn(s, B), Drawn(t, B) PROVE Drawn(s \o t, B)
  <2> DEFINE c == s \o t
             n == Len(s)
  <2>0. IsSequence(s) /\ IsSequence(t)
    BY <1>3 DEF Drawn
  <2>1. /\ IsSequence(c) /\ Len(c) = n + Len(t)
        /\ (\A i \in 1..n : c[i] = s[i]) /\ \A i \in 1..Len(t) : c[n + i] = t[i]
    BY <2>0, Concatenation
  <2>2. n \in Nat /\ Len(t) \in Nat
    BY <2>0, SequenceLen
  <2> HIDE DEF c
  <2>3. ASSUME NEW i \in 1..Len(c) PROVE From(c[i], B)
    <3>1. i \in 1..n \/ (i - n \in 1..Len(t) /\ n + (i - n) = i)
      BY <2>1, <2>2
    <3>2. CASE i \in 1..n
      BY <1>3, <2>1, <3>2 DEF Drawn
    <3>3. CASE i - n \in 1..Len(t) /\ n + (i - n) = i
      BY <1>3, <2>1, <3>3 DEF Drawn
    <3> QED
      BY <3>1, <3>2, <3>3
  <2>4. Drawn(c, B)
    BY <2>1, <2>3 DEF Drawn
  <2> QED
    BY <2>4 DEF c
<1>4. ASSUME NEW s, NEW p, Drawn(s, B), From(p, B) PROVE Drawn(Append(s, p), B)
  <2>1. Append(s, p) = s \o <<p>>
    BY <1>4, AppendIs DEF Drawn
  <2> QED
    BY <1>2, <1>3, <1>4, <2>1
<1> QED
  BY <1>1, <1>2, <1>3, <1>4

\* No message, and one more.
LEMMA DrawnInAre ==
  ASSUME NEW B
  PROVE  /\ DrawnIn(<<>>, B)
         /\ \A e, c : DrawnIn(e, B) /\ Drawn(c.parts, B) => DrawnIn(Append(e, c), B)
<1>1. DrawnIn(<<>>, B)
  BY ShortSequences DEF DrawnIn
<1>2. ASSUME NEW e, NEW c, DrawnIn(e, B), Drawn(c.parts, B) PROVE DrawnIn(Append(e, c), B)
  <2> DEFINE a == Append(e, c)
             n == Len(e)
  <2>0. IsSequence(e)
    BY <1>2 DEF DrawnIn
  <2>1. IsSequence(a) /\ Len(a) = n + 1 /\ a[n + 1] = c /\ \A i \in 1..n : a[i] = e[i]
    BY <2>0, Appended
  <2>2. n \in Nat
    BY <2>0, SequenceLen
  <2> HIDE DEF a
  <2>3. \A i \in 1..Len(a) : i \in 1..n \/ i = n + 1
    BY <2>1, <2>2
  <2>4. \A i \in 1..Len(a) : Drawn(a[i].parts, B)
    BY <1>2, <2>1, <2>3 DEF DrawnIn
  <2>5. DrawnIn(a, B)
    BY <2>1, <2>4 DEF DrawnIn
  <2> QED
    BY <2>5 DEF a
<1> QED
  BY <1>1, <1>2

\* The images of a result are moved out of it.
LEMMA RelocatedDrawn ==
  ASSUME NEW B, NEW b \in B, b.kind = "tool_result", IsSequence(b.parts)
  PROVE  Drawn(Relocated(b), B)
<1> DEFINE images == Select(b.parts, {"image"})
           v == FALSE
           moved(kind) == Part(Block(kind, b.id, b.no, <<>>, v))
           pair == <<moved("text"), moved("image")>>
           ss == [i \in DOMAIN images |-> pair]
           n == Len(images)
<1>0. IsSequence(images) /\ DOMAIN images = 1..n /\ n \in Nat
  BY Selected, SequenceDomain
<1>1. Relocated(b) = FlattenSeq(ss)
  BY DEF Relocated
<1>2. \A kind : moved(kind).kind = kind /\ moved(kind).no = b.no /\ ~moved(kind).cc
  <2>1. ~v
    OBVIOUS
  <2> HIDE DEF v
  <2>2. \A kind : LET c == Block(kind, b.id, b.no, <<>>, v) IN c.kind = kind /\ c.no = b.no /\ c.cc = v
    BY DEF Block
  <2>3. \A kind : moved(kind).kind = kind /\ moved(kind).no = b.no /\ moved(kind).cc = v
    BY <2>2, PartFields
  <2> QED
    BY <2>1, <2>3
<1> HIDE DEF moved
<1>3. From(moved("text"), B) /\ From(moved("image"), B)
  <2>1. Moved(moved("text"), b) /\ Moved(moved("image"), b)
    BY <1>2 DEF Moved
  <2> QED
    BY <2>1 DEF From
<1>4. IsSequence(pair) /\ \A j \in 1..Len(pair) : From(pair[j], B)
  <2> DEFINE p == moved("text")
             q == moved("image")
  <2>1. From(p, B) /\ From(q, B)
    BY <1>3
  <2> HIDE DEF p, q
  <2>2. Drawn(<<p>>, B) /\ Drawn(<<q>>, B)
    BY <2>1, DrawnAre
  <2>3. Drawn(<<p>> \o <<q>>, B)
    BY <2>2, DrawnAre
  <2>4. <<p, q>> = <<p>> \o <<q>>
    BY TwoInARow
  <2>5. Drawn(<<p, q>>, B)
    BY <2>3, <2>4
  <2> QED
    BY <2>5 DEF Drawn, p, q
<1> HIDE DEF images, n, pair
<1>5. DOMAIN ss = 1..n /\ ss = [i \in DOMAIN ss |-> ss[i]] /\ \A i \in 1..n : ss[i] = pair
  BY <1>0
<1> HIDE DEF ss
<1>6. IsSequence(ss) /\ Len(ss) = n
  BY <1>0, <1>5, TableIsSequence
<1>7. \A i \in 1..Len(ss) : ss[i] = pair /\ IsSequence(ss[i])
  BY <1>4, <1>5, <1>6
<1> DEFINE s == FlattenSeq(ss)
<1>8. IsSequence(s) /\ \A k \in 1..Len(s) : \E i \in 1..Len(ss) : \E j \in 1..Len(ss[i]) : s[k] = ss[i][j]
  BY <1>6, <1>7, FlattenElements
<1> HIDE DEF s
<1>9. ASSUME NEW k \in 1..Len(s) PROVE From(s[k], B)
  <2>1. PICK i \in 1..Len(ss) : \E j \in 1..Len(ss[i]) : s[k] = ss[i][j]
    BY <1>8
  <2> QED
    BY <1>4, <1>7, <2>1
<1> QED
  BY <1>1, <1>8, <1>9 DEF Drawn, s

---------------------------------------------------------------------------
(* What a message becomes is of its blocks. *)

\* A state of a user message's conversion: what has gone out and what waits.
AccDrawn(acc, B) == IsAcc(acc) /\ DrawnIn(acc.out, B) /\ Drawn(acc.user, B) /\ Drawn(acc.reloc, B)

\* Sending the user segment.
LEMMA FlushDrawn ==
  ASSUME NEW B, NEW o, NEW u, NEW r, DrawnIn(o, B), Drawn(u, B), Drawn(r, B)
  PROVE  DrawnIn(OutAfter(o, u, r), B) /\ Drawn(RelocAfter(u, r), B)
<1>1. CASE u = <<>>
  BY <1>1 DEF OutAfter, RelocAfter
<1>2. CASE u # <<>>
  <2> DEFINE s == r \o u
             c == CcMessage("user", s)
  <2>1. OutAfter(o, u, r) = Append(o, c) /\ RelocAfter(u, r) = <<>>
    BY <1>2 DEF OutAfter, RelocAfter
  <2>2. Drawn(s, B)
    BY DrawnAre
  <2> HIDE DEF s
  <2>3. c.parts = s
    BY CcFields
  <2> HIDE DEF c
  <2>4. DrawnIn(Append(o, c), B)
    BY <2>2, <2>3, DrawnInAre
  <2>5. Drawn(<<>>, B)
    BY DrawnAre
  <2> QED
    BY <2>1, <2>4, <2>5
<1> QED
  BY <1>1, <1>2

\* One more block.
LEMMA BlockDrawn ==
  ASSUME NEW B, NEW acc, AccDrawn(acc, B), NEW names,
         NEW b \in B, b.kind = "tool_result" => IsSequence(b.parts)
  PROVE  AccDrawn(UserBlock(acc, b, names), B)
<1> DEFINE o == acc.out
           u == acc.user
           r == acc.reloc
           w == acc.warns
           o2 == OutAfter(o, u, r)
           r2 == RelocAfter(u, r)
           new == UserBlock(acc, b, names)
           c == ToolMessage(b, names)
           l == Relocated(b)
<1>0. IsAcc(acc) /\ DrawnIn(o, B) /\ Drawn(u, B) /\ Drawn(r, B)
  BY DEF AccDrawn
<1>1. DrawnIn(o2, B) /\ Drawn(r2, B)
  BY <1>0, FlushDrawn
<1>2. Drawn(<<>>, B)
  BY DrawnAre
<1>3. CASE b.kind \in {"text", "image"}
  <2> DEFINE v == Append(u, Part(b))
  <2>1. new = Acc(o, v, r, w)
    BY <1>0, <1>3, UserBlockIs
  <2>2. From(Part(b), B)
    BY PartFields DEF From, Copied
  <2>3. Drawn(v, B)
    BY <1>0, <2>2, DrawnAre
  <2> HIDE DEF v, new, o, u, r, w
  <2>4. IsAcc(new) /\ new.out = o /\ new.user = v /\ new.reloc = r
    BY <2>1, AccFields
  <2>5. AccDrawn(new, B)
    BY <1>0, <2>3, <2>4 DEF AccDrawn
  <2> QED
    BY <2>5 DEF new
<1>4. CASE b.kind = "tool_result" /\ b.id \in DOMAIN names
  <2> DEFINE a == Append(o2, c)
             s == r2 \o l
  <2>1. new = Acc(a, <<>>, s, w)
    BY <1>0, <1>4, UserBlockIs
  <2>2. Drawn(l, B)
    BY <1>4, RelocatedDrawn
  <2>3. Drawn(c.parts, B)
    <3> DEFINE x == names[b.id]
               p == [Part(b) EXCEPT !.name = x]
    <3>1. p.kind = b.kind /\ p.id = b.id /\ p.no = b.no /\ p.cc = b.cc
      <4> HIDE DEF x
      <4>1. p = [kind |-> b.kind, id |-> b.id, no |-> b.no, name |-> x, cc |-> b.cc]
        BY DEF Part
      <4> HIDE DEF p
      <4> QED
        BY <4>1
    <3>2. c = CcMessage("tool", <<p>>)
      BY DEF ToolMessage
    <3> HIDE DEF p, c
    <3>3. c.parts = <<p>>
      BY <3>2, CcFields
    <3>4. From(p, B)
      BY <3>1 DEF From, Copied
    <3> QED
      BY <3>3, <3>4, DrawnAre
  <2> HIDE DEF c, l, o2, r2, o, u, r, w, new
  <2>4. Drawn(s, B)
    BY <1>1, <2>2, DrawnAre
  <2>5. DrawnIn(a, B)
    BY <1>1, <2>3, DrawnInAre
  <2> HIDE DEF a, s
  <2>6. IsAcc(new) /\ new.out = a /\ new.user = <<>> /\ new.reloc = s
    BY <2>1, AccFields
  <2>7. AccDrawn(new, B)
    BY <1>2, <2>4, <2>5, <2>6 DEF AccDrawn
  <2> QED
    BY <2>7 DEF new
<1>5. CASE b.kind = "tool_result" /\ b.id \notin DOMAIN names
  <2> DEFINE y == w \cup {<<"orphan", b.id>>}
  <2>1. new = Acc(o2, <<>>, r2, y)
    BY <1>0, <1>5, UserBlockIs
  <2> HIDE DEF y, o2, r2, o, u, r, w, new
  <2>2. IsAcc(new) /\ new.out = o2 /\ new.user = <<>> /\ new.reloc = r2
    BY <2>1, AccFields
  <2>3. AccDrawn(new, B)
    BY <1>1, <1>2, <2>2 DEF AccDrawn
  <2> QED
    BY <2>3 DEF new
<1>6. CASE b.kind \notin {"text", "image", "tool_result"}
  <2> DEFINE y == w \cup {<<"kind", b.kind>>}
  <2>1. new = Acc(o, u, r, y)
    BY <1>0, <1>6, UserBlockIs
  <2> HIDE DEF y, o, u, r, w, new
  <2>2. IsAcc(new) /\ new.out = o /\ new.user = u /\ new.reloc = r
    BY <2>1, AccFields
  <2>3. AccDrawn(new, B)
    BY <1>0, <2>2 DEF AccDrawn
  <2> QED
    BY <2>3 DEF new
<1> QED
  BY <1>3, <1>4, <1>5, <1>6

\* The results of B hold parts.
Holding(B) == \A b \in B : b.kind = "tool_result" => IsSequence(b.parts)

\* All the blocks of a user message.
LEMMA UserDrawn ==
  ASSUME NEW m, IsSequence(m.blocks), NEW B, ToSet(m.blocks) \subseteq B, Holding(B), NEW names
  PROVE  DrawnIn(ConvertUser(m, names).msgs, B)
<1> DEFINE s == m.blocks
           N == Len(s)
           e == ConvertUser(m, names).msgs
<1>0. DOMAIN s = 1..N /\ N \in Nat
  BY SequenceDomain
<1>1. PICK f : UserSteps(f, m, names) /\ UserBlocks(m, names) = FlushUser(f[N])
  BY UserBlocksAre
<1> DEFINE S == {n \in Nat : n <= N => AccDrawn(f[n], B)}
<1>2. 0 \in S
  <2> DEFINE acc == f[0]
             z == <<>>
  <2>1. acc = Acc(z, z, z, {})
    BY <1>1 DEF UserSteps
  <2>2. DrawnIn(z, B) /\ Drawn(z, B)
    BY DrawnAre, DrawnInAre
  <2> HIDE DEF acc, z
  <2>3. IsAcc(acc) /\ acc.out = z /\ acc.user = z /\ acc.reloc = z
    BY <2>1, AccFields
  <2>4. AccDrawn(acc, B)
    BY <2>2, <2>3 DEF AccDrawn
  <2> QED
    BY <2>4 DEF acc
<1>3. ASSUME NEW n \in Nat, n \in S PROVE n + 1 \in S
  <2> SUFFICES ASSUME n + 1 <= N PROVE AccDrawn(f[n + 1], B)
    OBVIOUS
  <2>1. n + 1 \in 1..N /\ (n + 1) - 1 = n /\ n <= N
    BY <1>0
  <2>2. AccDrawn(f[n], B) /\ f[n + 1] = UserBlock(f[n], s[n + 1], names)
    BY <1>1, <1>3, <2>1 DEF UserSteps
  <2>3. s[n + 1] \in B
    BY <1>0, <2>1 DEF ToSet
  <2> QED
    BY <2>2, <2>3, BlockDrawn DEF Holding
<1> HIDE DEF S
<1>4. \A n \in Nat : n \in S
  BY <1>2, <1>3, Induction
<1> DEFINE acc == f[N]
<1>5. AccDrawn(acc, B)
  BY <1>0, <1>4 DEF S
<1> HIDE DEF acc
<1> DEFINE o == OutAfter(acc.out, acc.user, acc.reloc)
           r == RelocAfter(acc.user, acc.reloc)
           w == acc.warns
           done == FlushUser(acc)
           c == CcMessage("user", r)
<1>6. DrawnIn(o, B) /\ Drawn(r, B)
  BY <1>5, FlushDrawn DEF AccDrawn
<1>7. done = Acc(o, <<>>, r, w)
  <2>1. acc = Acc(acc.out, acc.user, acc.reloc, acc.warns)
    BY <1>5 DEF AccDrawn, IsAcc
  <2> QED
    BY <2>1, FlushIs
<1>8. e = IF done.reloc = <<>> THEN done.out ELSE Append(done.out, CcMessage("user", done.reloc))
  BY <1>1 DEF ConvertUser, acc
<1> HIDE DEF o, r, w, done, e
<1>9. done.out = o /\ done.reloc = r
  BY <1>7, AccFields
<1>10. e = o \/ e = Append(o, c)
  BY <1>8, <1>9
<1>11. c.parts = r
  BY CcFields
<1> HIDE DEF c
<1>12. DrawnIn(e, B)
  BY <1>6, <1>10, <1>11, DrawnInAre
<1> QED
  BY <1>12 DEF e

\* And those of an assistant message.
LEMMA AssistantDrawn ==
  ASSUME NEW m, IsSequence(m.blocks), NEW B, ToSet(m.blocks) \subseteq B, NEW reasoning
  PROVE  DrawnIn(ConvertAssistant(m, reasoning).msgs, B)
<1> DEFINE s == m.blocks
           kinds == AssistantKinds(reasoning)
           n == Len(kinds)
           ss == [k \in DOMAIN kinds |-> OfKind(s, kinds[k])]
           kept == FlattenSeq(ss)
           parts == PartsOf(kept)
           c == CcMessage("assistant", parts)
           e == ConvertAssistant(m, reasoning).msgs
<1>1. e = IF kept = <<>> THEN <<>> ELSE <<c>>
  BY DEF ConvertAssistant, PartsOf
<1>2. IsSequence(kinds)
  <2> DEFINE p == IF reasoning THEN <<"thinking">> ELSE <<>>
             q == <<"text", "tool_use">>
  <2>1. IsSequence(p) /\ IsSequence(q)
    BY ShortSequences, PartsAre
  <2>2. kinds = p \o q
    BY DEF AssistantKinds
  <2> HIDE DEF p, q
  <2> QED
    BY <2>1, <2>2, Concatenation
<1> HIDE DEF kinds
<1>3. n \in Nat /\ DOMAIN kinds = 1..n
  BY <1>2, SequenceDomain
<1>4. DOMAIN ss = 1..n /\ ss = [k \in DOMAIN ss |-> ss[k]] /\ \A k \in 1..n : ss[k] = OfKind(s, kinds[k])
  BY <1>3
<1> HIDE DEF ss
<1>5. IsSequence(ss) /\ Len(ss) = n
  BY <1>3, <1>4, TableIsSequence
<1>6. \A k \in 1..Len(ss) : IsSequence(ss[k]) /\ ToSet(ss[k]) \subseteq ToSet(s)
  BY <1>4, <1>5, Filters
<1>7. \A k \in 1..Len(ss) : \A j \in 1..Len(ss[k]) : ss[k][j] \in B
  <2>1. \A k \in 1..Len(ss) : DOMAIN ss[k] = 1..Len(ss[k])
    BY <1>6, SequenceDomain
  <2> QED
    BY <1>6, <2>1 DEF ToSet
<1>8. IsSequence(kept) /\ \A k \in 1..Len(kept) : \E i \in 1..Len(ss) : \E j \in 1..Len(ss[i]) : kept[k] = ss[i][j]
  BY <1>5, <1>6, FlattenElements
<1> HIDE DEF kept
<1>9. \A k \in 1..Len(kept) : kept[k] \in B
  BY <1>7, <1>8
<1>10. IsSequence(parts) /\ Len(parts) = Len(kept) /\ \A k \in 1..Len(kept) : parts[k] = Part(kept[k])
  BY <1>8, PartsOfIs
<1> HIDE DEF parts
<1>11. ASSUME NEW k \in 1..Len(parts) PROVE From(parts[k], B)
  <2> DEFINE b == kept[k]
             p == parts[k]
  <2>1. b \in B /\ p = Part(b)
    BY <1>9, <1>10
  <2> HIDE DEF b, p
  <2>2. Copied(p, b)
    BY <2>1, PartFields DEF Copied
  <2> QED
    BY <2>1, <2>2 DEF From, p
<1>12. Drawn(parts, B)
  BY <1>10, <1>11 DEF Drawn
<1>13. c.parts = parts
  BY CcFields
<1> HIDE DEF c, e
<1>14. DrawnIn(<<>>, B) /\ DrawnIn(Append(<<>>, c), B)
  BY <1>12, <1>13, DrawnInAre
<1>15. Append(<<>>, c) = <<>> \o <<c>> /\ <<>> \o <<c>> = <<c>>
  BY AppendIs, ShortSequences, EmptyConcatenation
<1>16. DrawnIn(e, B)
  BY <1>1, <1>14, <1>15
<1> QED
  BY <1>16 DEF e

---------------------------------------------------------------------------
(* The OpenAI protocols have no cache markers. *)

NoMarks(s) == IsSequence(s) /\ \A b \in ToSet(s) : ~b.cc

\* What the conversions make has none.
LEMMA MadeBare ==
  /\ \A kind, no : ~Content(kind, no).cc
  /\ \A id, no : ~Call(id, no).cc
  /\ \A id, no, parts : ~Result(id, no, parts).cc
<1> DEFINE v == FALSE
<1>1. \A kind, id, no, parts : Block(kind, id, no, parts, v).cc = v
  BY DEF Block
<1>2. \A kind, id, no, parts : ~Block(kind, id, no, parts, v).cc
  <2>1. ~v
    OBVIOUS
  <2> HIDE DEF v
  <2> QED
    BY <1>1, <2>1
<1> QED
  BY <1>2 DEF Content, Call, Result

\* A row of blocks without markers.
LEMMA RowBare ==
  ASSUME NEW n \in Nat, NEW t, DOMAIN t = 1..n, t = [i \in DOMAIN t |-> t[i]], \A i \in 1..n : ~t[i].cc
  PROVE  NoMarks(t)
<1>1. IsSequence(t)
  BY TableIsSequence
<1>2. \A b \in ToSet(t) : ~b.cc
  BY DEF ToSet
<1> QED
  BY <1>1, <1>2 DEF NoMarks

\* Contents, calls, a result: none of them has a marker.
LEMMA PiecesBare ==
  ASSUME NEW m, IsSequence(m.parts), IsSequence(m.calls)
  PROVE  /\ NoMarks(<<>>)
         /\ \A kinds : NoMarks(Contents(m, kinds))
         /\ NoMarks(ToolUses(m))
         /\ NoMarks(ToolResult(m))
<1>1. NoMarks(<<>>)
  <2>1. IsSequence(<<>>) /\ ToSet(<<>>) = {}
    BY ShortSequences, NoElements
  <2> QED
    BY <2>1 DEF NoMarks
<1>2. ASSUME NEW kinds PROVE NoMarks(Contents(m, kinds))
  <2> DEFINE kept == Select(m.parts, kinds)
             n == Len(kept)
             t == [i \in DOMAIN kept |-> Content(kept[i], m.no)]
  <2>1. IsSequence(kept)
    BY Selected
  <2>2. DOMAIN kept = 1..n /\ n \in Nat
    BY <2>1, SequenceDomain
  <2>3. Contents(m, kinds) = t
    BY DEF Contents
  <2> HIDE DEF kept, n
  <2>4. DOMAIN t = 1..n /\ t = [i \in DOMAIN t |-> t[i]] /\ \A i \in 1..n : t[i] = Content(kept[i], m.no)
    BY <2>2
  <2> HIDE DEF t
  <2>5. \A i \in 1..n : ~t[i].cc
    BY <2>4, MadeBare
  <2>6. NoMarks(t)
    BY <2>2, <2>4, <2>5, RowBare
  <2> QED
    BY <2>3, <2>6
<1>3. NoMarks(ToolUses(m))
  <2> DEFINE kept == Select(m.calls, ToSet(m.calls) \ {NoId})
             n == Len(kept)
             t == [i \in DOMAIN kept |-> Call(kept[i], m.no)]
  <2>1. IsSequence(kept)
    BY Selected
  <2>2. DOMAIN kept = 1..n /\ n \in Nat
    BY <2>1, SequenceDomain
  <2>3. ToolUses(m) = t
    BY DEF ToolUses
  <2> HIDE DEF kept, n
  <2>4. DOMAIN t = 1..n /\ t = [i \in DOMAIN t |-> t[i]] /\ \A i \in 1..n : t[i] = Call(kept[i], m.no)
    BY <2>2
  <2> HIDE DEF t
  <2>5. \A i \in 1..n : ~t[i].cc
    BY <2>4, MadeBare
  <2>6. NoMarks(t)
    BY <2>2, <2>4, <2>5, RowBare
  <2> QED
    BY <2>3, <2>6
<1>4. NoMarks(ToolResult(m))
  <2> DEFINE x == Result(Head(m.calls), m.no, Select(m.parts, {"text", "image"}))
  <2>1. ToolResult(m) = <<>> \/ ToolResult(m) = <<x>>
    BY DEF ToolResult
  <2>2. ~x.cc
    BY MadeBare
  <2> HIDE DEF x
  <2>3. IsSequence(<<x>>) /\ ToSet(<<x>>) = {x}
    BY ShortSequences DEF ToSet
  <2>4. NoMarks(<<x>>)
    BY <2>2, <2>3 DEF NoMarks
  <2> QED
    BY <1>1, <2>1, <2>4
<1> QED
  BY <1>1, <1>2, <1>3, <1>4

\* Nor have the blocks of an item.
LEMMA ItemBare ==
  ASSUME NEW endpoint \in {"chat", "responses"}, NEW m, IsItem(endpoint, m)
  PROVE  NoMarks(BlocksOf(endpoint, m))
<1>1. IsSequence(m.parts) /\ IsSequence(m.calls) /\ m.kind \in KindsOf(endpoint)
  BY DEF IsItem
<1>2. /\ NoMarks(<<>>) /\ NoMarks(ToolUses(m)) /\ NoMarks(ToolResult(m))
      /\ \A kinds : NoMarks(Contents(m, kinds))
  BY <1>1, PiecesBare
<1>3. ASSUME NEW a, NEW c, NoMarks(a), NoMarks(c) PROVE NoMarks(a \o c)
  <2>0. IsSequence(a) /\ IsSequence(c)
    BY <1>3 DEF NoMarks
  <2>1. IsSequence(a \o c) /\ ToSet(a \o c) = ToSet(a) \cup ToSet(c)
    BY <2>0, Concatenation, ElementsOfConcatenation
  <2> QED
    BY <1>3, <2>1 DEF NoMarks
<1>4. NoMarks(ChatAssistantBlocks(m))
  <2> DEFINE x == Contents(m, {"thinking"})
             y == Contents(m, {"text"})
             z == ToolUses(m)
  <2>1. NoMarks(x) /\ NoMarks(y) /\ NoMarks(z)
    BY <1>2
  <2>2. ChatAssistantBlocks(m) = (x \o y) \o z
    BY DEF ChatAssistantBlocks
  <2> HIDE DEF x, y, z
  <2>3. NoMarks(x \o y)
    BY <1>3, <2>1
  <2>4. NoMarks((x \o y) \o z)
    BY <1>3, <2>1, <2>3
  <2> QED
    BY <2>2, <2>4
<1>5. CASE endpoint = "chat"
  <2>1. m.kind \in {"system", "user", "other", "assistant", "tool"}
    BY <1>1, <1>5 DEF KindsOf
  <2>2. BlocksOf(endpoint, m) = ChatBlocks(m)
    BY <1>5 DEF BlocksOf
  <2>3. NoMarks(ChatUserBlocks(m))
    BY <1>2 DEF ChatUserBlocks
  <2>4. NoMarks(ChatBlocks(m))
    BY <1>2, <1>4, <2>1, <2>3 DEF ChatBlocks
  <2> QED
    BY <2>2, <2>4
<1>6. CASE endpoint = "responses"
  <2>1. m.kind \in {"system", "unsupported", "user", "other", "assistant", "call", "output", "reasoning"}
    BY <1>1, <1>6 DEF KindsOf
  <2>2. BlocksOf(endpoint, m) = ResponsesBlocks(m)
    BY <1>6 DEF BlocksOf
  <2>3. NoMarks(ResponsesBlocks(m))
    BY <1>2, <2>1 DEF ResponsesBlocks
  <2> QED
    BY <2>2, <2>3
<1> QED
  BY <1>5, <1>6

\* And the repair makes no blocks of its own.
LEMMA RepairMakesNone ==
  ASSUME NEW msgs, AreMessages(msgs)
  PROVE  ToSet(Blocks(RepairToolPairing(msgs))) \subseteq ToSet(Blocks(msgs))
<1> DEFINE a == Blocks(msgs)
           b == Blocks(RepairToolPairing(msgs))
           results == Results(msgs)
<1>1. KeptOf(a, b, results)
  BY RepairKeeps
<1>2. IsSequence(a) /\ IsSequence(b)
  BY RepairIsWellFormed, BlocksAreSequence
<1>3. IsSequence(results) /\ ToSet(results) \subseteq ToSet(a)
  BY <1>2, Filters DEF Results
<1> HIDE DEF a, b, results
<1> SUFFICES ASSUME NEW x \in ToSet(b) PROVE x \in ToSet(a)
  BY DEF a, b
<1>4. CASE x.kind = "tool_use"
  <2> DEFINE u == OfKind(a, "tool_use")
             ids == IdsOf(results)
  <2>1. IsSequence(u) /\ ToSet(u) \subseteq ToSet(a)
    BY <1>2, Filters
  <2>2. x \in ToSet(OfKind(b, "tool_use"))
    BY <1>2, <1>4, Filters
  <2>3. x \in ToSet(WithIds(u, ids))
    BY <1>1, <2>2 DEF KeptOf
  <2> HIDE DEF u, ids
  <2>4. x \in ToSet(u)
    BY <2>1, <2>3, Filters
  <2> QED
    BY <2>1, <2>4
<1>5. CASE x.kind = "tool_result"
  <2> DEFINE id == x.id
  <2>1. x \in ToSet(OfKind(b, "tool_result"))
    BY <1>2, <1>5, Filters
  <2>2. id \in IdsOf(results) /\ x = ResultFor(results, id)
    BY <1>1, <2>1 DEF KeptOf
  <2> HIDE DEF id
  <2>3. x \in ToSet(results)
    BY <1>3, <2>2, ResultAnswers
  <2> QED
    BY <1>3, <2>3
<1>6. CASE x.kind # "tool_use" /\ x.kind # "tool_result"
  <2> DEFINE c == Except(a, "tool_use")
             d == Except(b, "tool_use")
  <2>1. /\ IsSequence(c) /\ ToSet(c) \subseteq ToSet(a)
        /\ IsSequence(d) /\ x \in ToSet(d)
    BY <1>2, <1>6, Filters
  <2>2. Except(d, "tool_result") = Except(c, "tool_result")
    BY <1>1 DEF KeptOf, OthersOf
  <2> HIDE DEF c, d
  <2>3. x \in ToSet(Except(d, "tool_result"))
    BY <1>6, <2>1, Filters
  <2>4. x \in ToSet(c)
    BY <2>1, <2>2, <2>3, Filters
  <2> QED
    BY <2>1, <2>4
<1> QED
  BY <1>4, <1>5, <1>6

\* So no marker comes from a Chat or Responses client.
LEMMA RepairedBare == HistoryRepaired /\ ~FromMessages => NoMarks(Blocks(messages))
<1> DEFINE e == settings.endpoint
<1> SUFFICES ASSUME HistoryRepaired, ~FromMessages PROVE NoMarks(Blocks(messages))
  OBVIOUS
<1>1. /\ e \in {"chat", "responses"} /\ AreItems(e, history)
      /\ made = Converted(e, history) /\ messages = RepairToolPairing(made)
  BY EndpointsAre DEF HistoryRepaired, FromMessages
<1>2. AreMessages(made) /\ AreMessages(messages)
  BY <1>1, ConvertedAreMessages, RepairIsWellFormed
<1>3. IsSequence(Blocks(messages))
  BY <1>2, BlocksAreSequence
<1>4. ToSet(Blocks(messages)) \subseteq ToSet(Blocks(made))
  BY <1>1, <1>2, RepairMakesNone
<1>5. ToSet(Blocks(made)) \subseteq UNION {ToSet(BlocksOf(e, history[i])) : i \in 1..Len(history)}
  BY <1>1, ConvertedBlocks
<1>6. \A i \in 1..Len(history) : NoMarks(BlocksOf(e, history[i]))
  BY <1>1, ItemBare DEF AreItems
<1>7. ASSUME NEW b \in ToSet(Blocks(messages)) PROVE ~b.cc
  <2>1. PICK i \in 1..Len(history) : b \in ToSet(BlocksOf(e, history[i]))
    BY <1>4, <1>5
  <2> QED
    BY <1>6, <2>1 DEF NoMarks
<1> QED
  BY <1>3, <1>7 DEF NoMarks

---------------------------------------------------------------------------
(* The breakpoint of a request. *)

BlocksIn(msgs) == UNION {ToSet(msgs[i].blocks) : i \in 1..Len(msgs)}

\* The messages that are converted: those of the request, or those without their markers.
LEMMA ParsedAre ==
  ASSUME NEW msgs, AreMessages(msgs), NEW s, Holding(BlocksIn(msgs)),
         s.replace => \A i \in 1..Len(msgs) : \A b \in ToSet(msgs[i].blocks) : IsBlock(b)
  PROVE  /\ AreMessages(Parsed(msgs, s)) /\ Holding(BlocksIn(Parsed(msgs, s)))
         /\ s.replace => \A b \in BlocksIn(Parsed(msgs, s)) : ~b.cc
         /\ ~s.replace => Parsed(msgs, s) = msgs
<1> DEFINE p == Parsed(msgs, s)
<1>1. CASE ~s.replace
  <2>1. p = msgs
    BY <1>1 DEF Parsed
  <2> QED
    BY <1>1, <2>1
<1>2. CASE s.replace
  <2>1. p = Stripped(msgs)
    BY <1>2 DEF Parsed
  <2>2. /\ AreMessages(p) /\ Len(p) = Len(msgs)
        /\ \A i \in 1..Len(msgs) : p[i].blocks = BlocksStripped(msgs[i].blocks)
    BY <1>2, <2>1, StrippedIs
  <2> HIDE DEF p
  <2>3. ASSUME NEW b \in BlocksIn(p) PROVE IsSequence(b.parts) /\ ~b.cc
    <3>1. PICK i \in 1..Len(msgs) : b \in ToSet(p[i].blocks)
      BY <2>2 DEF BlocksIn
    <3> DEFINE old == msgs[i].blocks
               new == p[i].blocks
    <3>2. IsSequence(old) /\ (\A a \in ToSet(old) : IsBlock(a)) /\ new = BlocksStripped(old)
      BY <1>2, <2>2 DEF AreMessages, IsMessage
    <3> HIDE DEF old
    <3>3. /\ IsSequence(new) /\ Len(new) = Len(old)
          /\ \A j \in 1..Len(old) : IsBlock(new[j])
      BY <3>2, StrippedBlocks
    <3>4. PICK j \in 1..Len(old) : b = new[j]
      <4>1. b \in ToSet(new)
        BY <3>1
      <4> HIDE DEF new
      <4>2. DOMAIN new = 1..Len(old)
        BY <3>3, SequenceDomain
      <4> QED
        BY <4>1, <4>2 DEF ToSet
    <3>5. IsSequence(b.parts)
      BY <3>3, <3>4 DEF IsBlock
    <3>6. ~b.cc
      <4> DEFINE a == old[j]
                 v == FALSE
                 c == [a EXCEPT !.cc = v]
      <4>1. DOMAIN old = 1..Len(old)
        BY <3>2, SequenceDomain
      <4>2. IsBlock(a)
        BY <3>2, <4>1 DEF ToSet
      <4>3. b = c
        BY <3>2, <3>4, <4>1 DEF BlocksStripped
      <4>4. ~v
        OBVIOUS
      <4> HIDE DEF a, v
      <4>5. PICK x1, x2, x3, x4, x5 : a = [kind |-> x1, id |-> x2, no |-> x3, parts |-> x4, cc |-> x5]
        BY <4>2 DEF IsBlock, Block
      <4>6. c = [kind |-> x1, id |-> x2, no |-> x3, parts |-> x4, cc |-> v]
        BY <4>5
      <4> HIDE DEF c
      <4>7. c.cc = v
        BY <4>6
      <4> QED
        BY <4>3, <4>4, <4>7
    <3> QED
      BY <3>5, <3>6
  <2> QED
    BY <1>2, <2>2, <2>3 DEF Holding, p
<1> QED
  BY <1>1, <1>2

\* The envelope before a marker is set: its parts are of the blocks that are converted.
LEMMA BuiltIsDrawn ==
  ASSUME NEW msgs, AreMessages(msgs), NEW need, NEW s, Holding(BlocksIn(msgs)),
         s.replace => \A i \in 1..Len(msgs) : \A b \in ToSet(msgs[i].blocks) : IsBlock(b)
  PROVE  \E x : /\ IsEnvelope(x) /\ DrawnIn(x, BlocksIn(Parsed(msgs, s)))
                /\ BuildCcRequest(msgs, need, s).msgs = SynthesizeCacheMarker(x, need \/ s.replace)
<1> DEFINE p == Parsed(msgs, s)
           B == BlocksIn(p)
           names == ToolNames(p)
           reasoning == s.reasoning
<1>1. AreMessages(p) /\ Holding(B)
  BY ParsedAre
<1>2. IsSequence(Parsed(msgs, s))
  BY <1>1 DEF AreMessages
<1>3. PICK t, w : BuiltBy(t, w, msgs, need, s)
  BY <1>2, BuiltIs
<1>4. /\ IsSequence(t) /\ Len(t) = Len(p)
      /\ \A i \in 1..Len(t) : t[i] = ConvertOne(p[i], names, reasoning).msgs
      /\ BuildCcRequest(msgs, need, s).msgs = SynthesizeCacheMarker(FlattenSeq(t), need \/ s.replace)
  BY <1>3 DEF BuiltBy
<1>5. \A i \in 1..Len(p) : ToSet(p[i].blocks) \subseteq B
  BY DEF BlocksIn
<1> HIDE DEF p, B, names, reasoning
<1>6. ASSUME NEW i \in 1..Len(t) PROVE Cared(t[i], {}) /\ DrawnIn(t[i], B)
  <2> DEFINE m == p[i]
  <2>1. IsMessage(m) /\ ToSet(m.blocks) \subseteq B /\ t[i] = ConvertOne(m, names, reasoning).msgs
    BY <1>1, <1>4, <1>5 DEF AreMessages
  <2>2. IsSequence(m.blocks) /\ m.role \in {"user", "assistant"}
    BY <2>1 DEF IsMessage
  <2>3. Pictured(m, {})
    BY <1>1, <2>1 DEF Pictured, Holding
  <2> HIDE DEF m
  <2>4. CASE m.role = "assistant"
    <3> DEFINE e == ConvertAssistant(m, reasoning).msgs
    <3>1. t[i] = e
      BY <2>1, <2>4 DEF ConvertOne
    <3>2. IsEnvelope(e) /\ DrawnIn(e, B)
      BY <2>1, <2>2, <2>4, AssistantSent, AssistantDrawn
    <3> HIDE DEF e
    <3> QED
      BY <3>1, <3>2 DEF Cared
  <2>5. CASE m.role = "user"
    <3> DEFINE e == ConvertUser(m, names).msgs
    <3>1. t[i] = e
      BY <2>1, <2>5 DEF ConvertOne
    <3>2. Tended(e, {}) /\ DrawnIn(e, B)
      BY <1>1, <2>1, <2>2, <2>3, UserTended, UserDrawn
    <3> HIDE DEF e
    <3> QED
      BY <3>1, <3>2 DEF Cared, Tended
  <2> QED
    BY <2>2, <2>4, <2>5
<1> DEFINE x == FlattenSeq(t)
<1>7. IsEnvelope(x)
  <2> DEFINE N == {}
  <2>1. \A i \in 1..Len(t) : Cared(t[i], N)
    BY <1>6
  <2> HIDE DEF N
  <2>2. Cared(FlattenSeq(t), N)
    BY <1>4, <2>1, CaresFlatten
  <2> QED
    BY <2>2 DEF Cared
<1>8. DrawnIn(x, B)
  <2>1. \A i \in 1..Len(t) : IsSequence(t[i])
    BY <1>6 DEF DrawnIn
  <2>2. IsSequence(x) /\ \A k \in 1..Len(x) : \E i \in 1..Len(t) : \E j \in 1..Len(t[i]) : x[k] = t[i][j]
    BY <1>4, <2>1, FlattenElements
  <2> HIDE DEF x
  <2>3. ASSUME NEW k \in 1..Len(x) PROVE Drawn(x[k].parts, B)
    <3>1. PICK i \in 1..Len(t) : \E j \in 1..Len(t[i]) : x[k] = t[i][j]
      BY <2>2
    <3> QED
      BY <1>6, <3>1 DEF DrawnIn
  <2> QED
    BY <2>2, <2>3 DEF DrawnIn
<1> HIDE DEF x
<1> QED
  BY <1>4, <1>7, <1>8 DEF x, p, B

---------------------------------------------------------------------------
(* Where the breakpoint is. *)

\* What a marked block and its part have in common.
Same(b, p) == b.kind = p.kind /\ b.id = p.id /\ b.no = p.no

\* The parts before and after the synthesis, when those with a mark before it are those of the
\* marked blocks C; texts are the places of the texts.
MarksBefore(p, q, need, C, texts) ==
  /\ IsSequence(p) /\ IsSequence(q) /\ Len(q) = Len(p)
  /\ \A k \in 1..Len(p) : q[k].kind = p[k].kind /\ q[k].id = p[k].id /\ q[k].no = p[k].no
  /\ \A k \in 1..Len(p) : p[k].cc <=> \E b \in C : Same(b, p[k])
  /\ texts = {k \in 1..Len(p) : p[k].kind = "text"}
  /\ ~need \/ texts = {} \/ (\E k \in 1..Len(p) : p[k].cc) => q = p
  /\ need /\ texts # {} /\ (\A k \in 1..Len(p) : ~p[k].cc) => \A k \in 1..Len(p) : q[k].cc <=> k = Max(texts)

\* The marks after it.
MarksAfter(q, need, C, texts) ==
  LET clients == {k \in DOMAIN q : \E b \in C : Same(b, q[k])}
  IN /\ texts = {k \in DOMAIN q : q[k].kind = "text"}
     /\ {k \in DOMAIN q : q[k].cc} =
          IF clients # {} THEN clients ELSE IF need /\ texts # {} THEN {Max(texts)} ELSE {}

\* They are where they should be.
LEMMA MarksPlaced ==
  ASSUME NEW p, NEW q, NEW need, NEW C, NEW texts, MarksBefore(p, q, need, C, texts)
  PROVE  MarksAfter(q, need, C, texts)
<1> DEFINE n == Len(p)
           clients == {k \in DOMAIN q : \E b \in C : Same(b, q[k])}
           marked == {k \in DOMAIN q : q[k].cc}
<1> USE DEF MarksBefore
<1>1. DOMAIN p = 1..n /\ DOMAIN q = 1..n /\ n \in Nat
  BY SequenceDomain, SequenceLen
<1>2. clients = {k \in 1..n : p[k].cc}
  BY <1>1 DEF Same
<1>3. texts = {k \in DOMAIN q : q[k].kind = "text"}
  BY <1>1
<1>4. ASSUME clients # {}
      PROVE  marked = IF clients # {} THEN clients ELSE IF need /\ texts # {} THEN {Max(texts)} ELSE {}
  <2>1. q = p
    BY <1>2, <1>4
  <2>2. marked = clients
    BY <1>1, <1>2, <2>1
  <2> QED
    BY <1>4, <2>2
<1>5. ASSUME clients = {} /\ (~need \/ texts = {})
      PROVE  marked = IF clients # {} THEN clients ELSE IF need /\ texts # {} THEN {Max(texts)} ELSE {}
  <2>1. q = p
    BY <1>5
  <2>2. marked = clients
    BY <1>1, <1>2, <2>1
  <2> QED
    BY <1>5, <2>2
<1>6. ASSUME clients = {} /\ need /\ texts # {}
      PROVE  marked = IF clients # {} THEN clients ELSE IF need /\ texts # {} THEN {Max(texts)} ELSE {}
  <2> DEFINE top == Max(texts)
  <2>1. \A k \in 1..n : q[k].cc <=> k = top
    BY <1>2, <1>6
  <2>2. top \in 1..n
    <3>1. top \in texts
      BY <1>1, <1>6, MaxOfPlaces
    <3> QED
      BY <3>1
  <2> HIDE DEF top
  <2>3. marked = {top}
    BY <1>1, <2>1, <2>2
  <2> QED
    BY <1>6, <2>3 DEF top
<1>7. marked = IF clients # {} THEN clients ELSE IF need /\ texts # {} THEN {Max(texts)} ELSE {}
  BY <1>4, <1>5, <1>6
<1> QED
  BY <1>3, <1>7 DEF MarksAfter

\* The blocks whose markers count.
ClientMarks == IF settings.replace THEN {} ELSE {b \in ToSet(Blocks(messages)) : b.cc}

\* On the Messages endpoint a block is known by its number; on the others none has a marker.
LEMMA MarksKnown ==
  ASSUME RequestBuilt, BlocksInOrder, ~settings.replace,
         NEW a \in ToSet(Blocks(messages)), NEW b \in ToSet(Blocks(messages)), b.cc, a.no = b.no
  PROVE  a = b
<1>1. CASE ~FromMessages
  <2>1. NoMarks(Blocks(messages))
    BY <1>1, RepairedBare DEF RequestBuilt
  <2> QED
    BY <2>1 DEF NoMarks
<1>2. CASE FromMessages
  <2> DEFINE s == Blocks(messages)
  <2>1. /\ AreMessages(messages)
        /\ \A k \in 1..Len(s) : s[k].no = k
    BY <1>2 DEF BlocksInOrder
  <2>2. IsSequence(s)
    BY <2>1, BlocksAreSequence
  <2> HIDE DEF s
  <2>3. DOMAIN s = 1..Len(s)
    BY <2>2, SequenceDomain
  <2>4. PICK k, l \in 1..Len(s) : a = s[k] /\ b = s[l]
    BY <2>3 DEF ToSet, s
  <2> QED
    BY <2>1, <2>4
<1> QED
  BY <1>1, <1>2

\* A part of the envelope is marked before the synthesis if it is of a marked block.
LEMMA MarksAreTheClients ==
  ASSUME RequestBuilt, BlocksInOrder, NEW B,
         settings.replace => \A b \in B : ~b.cc,
         ~settings.replace => B \subseteq ToSet(Blocks(messages)),
         NEW p, From(p, B)
  PROVE  p.cc <=> \E b \in ClientMarks : Same(b, p)
<1>1. CASE settings.replace
  <2>1. ~p.cc
    BY <1>1 DEF From, Copied, Moved
  <2> QED
    BY <1>1, <2>1 DEF ClientMarks
<1>2. CASE ~settings.replace
  <2>1. PICK a \in B : Copied(p, a) \/ Moved(p, a)
    BY DEF From
  <2>2. a \in ToSet(Blocks(messages)) /\ p.no = a.no
    BY <1>2, <2>1 DEF Copied, Moved
  <2>3. ASSUME p.cc PROVE \E b \in ClientMarks : Same(b, p)
    BY <1>2, <2>1, <2>2, <2>3 DEF Copied, Moved, ClientMarks, Same
  <2>4. ASSUME NEW b \in ClientMarks, Same(b, p) PROVE p.cc
    <3>1. b \in ToSet(Blocks(messages)) /\ b.cc /\ a.no = b.no
      BY <1>2, <2>2, <2>4 DEF ClientMarks, Same
    <3>2. a = b
      BY <1>2, <2>2, <3>1, MarksKnown
    <3> QED
      BY <2>1, <2>4, <3>1, <3>2 DEF Copied, Moved, Same
  <2> QED
    BY <2>3, <2>4
<1> QED
  BY <1>1, <1>2

\* The parts of an envelope come from where its messages' do.
LEMMA PartsDrawn ==
  ASSUME NEW e, IsEnvelope(e), NEW B, DrawnIn(e, B) PROVE \A k \in 1..Len(PartsIn(e)) : From(PartsIn(e)[k], B)
<1>1. PICK t : /\ PartsIn(e) = FlattenSeq(t) /\ IsSequence(t) /\ Len(t) = Len(e)
               /\ \A i \in 1..Len(e) : t[i] = e[i].parts /\ IsSequence(t[i])
  BY PartsAreFlat
<1>2. \A k \in 1..Len(FlattenSeq(t)) : \E i \in 1..Len(t) : \E j \in 1..Len(t[i]) : FlattenSeq(t)[k] = t[i][j]
  BY <1>1, FlattenElements
<1>3. ASSUME NEW k \in 1..Len(PartsIn(e)) PROVE From(PartsIn(e)[k], B)
  <2>1. PICK i \in 1..Len(t) : \E j \in 1..Len(t[i]) : PartsIn(e)[k] = t[i][j]
    BY <1>1, <1>2
  <2>2. Drawn(t[i], B)
    BY <1>1, <2>1 DEF DrawnIn
  <2> QED
    BY <2>1, <2>2 DEF Drawn
<1> QED
  BY <1>3

\* What the property says of the envelope.
LEMMA BuiltMarks == RequestBuilt /\ BlocksInOrder => BreakpointPlaced
<1> SUFFICES ASSUME RequestBuilt, BlocksInOrder PROVE BreakpointPlaced
  OBVIOUS
<1> DEFINE B == BlocksIn(Parsed(messages, settings))
           need == NeedsMarker \/ settings.replace
<1>1. /\ AreMessages(messages) /\ Numbered(messages)
      /\ settings.replace => \A i \in 1..Len(messages) : \A b \in ToSet(messages[i].blocks) : IsBlock(b)
  BY MessagesNumbered
<1>2. BlocksIn(messages) \subseteq ToSet(Blocks(messages))
  <2>1. ASSUME NEW b \in BlocksIn(messages) PROVE b \in ToSet(Blocks(messages))
    <3>1. PICK i \in 1..Len(messages) : b \in ToSet(messages[i].blocks)
      BY <2>1 DEF BlocksIn
    <3> QED
      BY <1>1, <3>1, BlocksFound
  <2> QED
    BY <2>1
<1>3. Holding(BlocksIn(messages))
  <2>1. IsSequence(Blocks(messages))
    BY <1>1, BlocksAreSequence
  <2>2. ASSUME NEW b \in BlocksIn(messages), b.kind = "tool_result" PROVE b \in ToSet(Results(messages))
    BY <1>2, <2>1, <2>2, Filters DEF Results
  <2> QED
    BY <1>1, <2>2 DEF Holding, Numbered
<1>4. /\ settings.replace => \A b \in B : ~b.cc
      /\ ~settings.replace => B \subseteq ToSet(Blocks(messages))
  <2>1. /\ settings.replace => \A b \in B : ~b.cc
        /\ ~settings.replace => Parsed(messages, settings) = messages
    BY <1>1, <1>3, ParsedAre
  <2> QED
    BY <1>2, <2>1
<1>5. PICK x : /\ IsEnvelope(x) /\ DrawnIn(x, B)
               /\ BuildCcRequest(messages, NeedsMarker, settings).msgs = SynthesizeCacheMarker(x, need)
  BY <1>1, <1>3, BuiltIsDrawn
<1>6. envelope = SynthesizeCacheMarker(x, need)
  BY <1>5 DEF RequestBuilt, Built
<1> DEFINE p == PartsIn(x)
           q == PartsIn(envelope)
           texts == {k \in 1..Len(p) : p[k].kind = "text"}
           n == need
<1> HIDE DEF B, need
<1>7. /\ IsSequence(p) /\ IsSequence(q) /\ Len(q) = Len(p)
      /\ \A k \in 1..Len(p) : q[k].kind = p[k].kind /\ q[k].id = p[k].id /\ q[k].no = p[k].no
      /\ ~n \/ texts = {} \/ (\E k \in 1..Len(p) : p[k].cc) => q = p
      /\ n /\ texts # {} /\ (\A k \in 1..Len(p) : ~p[k].cc) => \A k \in 1..Len(p) : q[k].cc <=> k = Max(texts)
  BY <1>5, <1>6, MarkerPlaced
<1>8. \A k \in 1..Len(p) : p[k].cc <=> \E b \in ClientMarks : Same(b, p[k])
  <2> TAKE k \in 1..Len(p)
  <2>1. From(p[k], B)
    BY <1>5, PartsDrawn
  <2> HIDE DEF p
  <2> QED
    BY <1>4, <2>1, MarksAreTheClients
<1> DEFINE C == ClientMarks
           v == texts
<1>9. /\ v = {k \in 1..Len(p) : p[k].kind = "text"}
      /\ ~n \/ v = {} \/ (\E k \in 1..Len(p) : p[k].cc) => q = p
      /\ n /\ v # {} /\ (\A k \in 1..Len(p) : ~p[k].cc) => \A k \in 1..Len(p) : q[k].cc <=> k = Max(v)
      /\ \A k \in 1..Len(p) : p[k].cc <=> \E b \in C : Same(b, p[k])
      /\ IsSequence(p) /\ IsSequence(q) /\ Len(q) = Len(p)
      /\ \A k \in 1..Len(p) : q[k].kind = p[k].kind /\ q[k].id = p[k].id /\ q[k].no = p[k].no
  BY <1>7, <1>8
<1> HIDE DEF p, n, C, v, q
<1>10. q = EnvelopeParts
  BY DEF q, EnvelopeParts, PartsIn
<1> DEFINE clients == {k \in DOMAIN q : \E b \in C : Same(b, q[k])}
           marked  == {k \in DOMAIN q : q[k].cc}
<1>11. /\ v = {k \in DOMAIN q : q[k].kind = "text"}
       /\ marked = IF clients # {} THEN clients ELSE IF n /\ v # {} THEN {Max(v)} ELSE {}
  <2>1. MarksBefore(p, q, n, C, v)
    BY <1>9 DEF MarksBefore
  <2>2. MarksAfter(q, n, C, v)
    BY <2>1, MarksPlaced
  <2> QED
    BY <2>2 DEF MarksAfter
<1>12. clients = IF settings.replace THEN {}
                 ELSE {k \in DOMAIN q :
                         \E b \in {b \in ToSet(Blocks(messages)) : b.cc} :
                           b.kind = q[k].kind /\ b.id = q[k].id /\ b.no = q[k].no}
  BY DEF C, ClientMarks, Same
<1>13. marked = {k \in DOMAIN q : q[k].cc}
  OBVIOUS
<1>14. n = (NeedsMarker \/ settings.replace)
  BY DEF n, need
<1> DEFINE found == {k \in DOMAIN q : q[k].kind = "text"}
<1>15. v = found
  BY <1>11
<1> HIDE DEF clients, marked, found
<1>16. marked = IF clients # {} THEN clients
                ELSE IF (NeedsMarker \/ settings.replace) /\ found # {} THEN {Max(found)} ELSE {}
  BY <1>11, <1>14, <1>15
<1> QED
  BY <1>10, <1>12, <1>13, <1>16 DEF BreakpointPlaced, found

\* On every endpoint, for a history of any length and whatever its mistakes: the parts of the
\* envelope that are marked are those of the blocks the client marked, or the last text if it marked
\* none and the request has no other way to ask for a breakpoint.
THEOREM BreakpointAlwaysPlaced == RequestsSpec => []BreakpointPlaced
<1>1. RequestsSpec => []RequestBuilt
  BY RequestsBuilt
<1>2. RequestsSpec => []BlocksInOrder
  BY MessagesInOrder
<1>3. RequestBuilt /\ BlocksInOrder => BreakpointPlaced
  BY BuiltMarks
<1> QED
  BY <1>1, <1>2, <1>3, PTL

============================================================================
