-------------------------- MODULE SequenceLemmas --------------------------
(***************************************************************************)
(* Facts about numbers and sequences that the proofs of several components *)
(* rest on.                                                                *)
(***************************************************************************)
EXTENDS Positions, Fragments, SequenceTheorems, FiniteSetTheorems, WellFoundedInduction, TLAPS

\* Every non-empty set of natural numbers has a least element.
LEMMA LeastNumber ==
  ASSUME NEW T, T \subseteq Nat, T # {}
  PROVE  \E m \in T : \A k \in T : m <= k
<1> DEFINE R == OpToRel(<, Nat)
<1>1. IsWellFoundedOn(R, Nat)
  BY NatLessThanWellFounded
<1>2. \A k, m \in Nat : k < m => <<k, m>> \in R
  BY DEF OpToRel
<1> HIDE DEF R
<1>3. PICK m \in T : \A k \in T : <<k, m>> \notin R
  BY <1>1, WFMin
<1>4. \A k \in T : m <= k
  <2> TAKE k \in T
  <2>1. k \in Nat /\ m \in Nat /\ ~(k < m)
    BY <1>2, <1>3
  <2> QED
    BY <2>1
<1> QED
  BY <1>4

\* Induction, for a set: what holds of 0 and goes on holds of every number.
LEMMA Induction ==
  ASSUME NEW S, 0 \in S, \A n \in Nat : n \in S => n + 1 \in S
  PROVE  \A n \in Nat : n \in S
<1> SUFFICES ASSUME NEW x \in Nat, x \notin S PROVE FALSE
  OBVIOUS
<1> DEFINE T == Nat \ S
<1>1. PICK m \in T : \A k \in T : m <= k
  BY LeastNumber
<1>2. m # 0 /\ m - 1 \in Nat /\ (m - 1) + 1 = m
  BY <1>1
<1>3. m - 1 \in T
  BY <1>1, <1>2
<1> QED
  BY <1>1, <1>2, <1>3

---------------------------------------------------------------------------
\* A sequence of whatever elements.
IsSequence(s) == \E S : s \in Seq(S)

LEMMA SequenceLen == ASSUME NEW s, IsSequence(s) PROVE Len(s) \in Nat
BY DEF IsSequence

LEMMA ShortSequences ==
  /\ IsSequence(<<>>) /\ Len(<<>>) = 0
  /\ \A x : IsSequence(<<x>>) /\ Len(<<x>>) = 1 /\ <<x>>[1] = x
<1>1. \A x : <<x>> \in Seq({x})
  OBVIOUS
<1>2. <<>> \in Seq({})
  OBVIOUS
<1> QED
  BY <1>1, <1>2 DEF IsSequence

LEMMA Concatenation ==
  ASSUME NEW s, NEW t, IsSequence(s), IsSequence(t)
  PROVE  /\ IsSequence(s \o t)
         /\ Len(s \o t) = Len(s) + Len(t)
         /\ \A i \in 1..Len(s) : (s \o t)[i] = s[i]
         /\ \A i \in 1..Len(t) : (s \o t)[Len(s) + i] = t[i]
<1>1. PICK S, T : s \in Seq(S) /\ t \in Seq(T)
  BY DEF IsSequence
<1>2. s \in Seq(S \cup T) /\ t \in Seq(S \cup T)
  BY <1>1
<1>3. s \o t \in Seq(S \cup T)
  BY <1>2
<1> QED
  BY <1>2, <1>3 DEF IsSequence

LEMMA ConcatenationAssociates ==
  ASSUME NEW s, NEW t, NEW u, IsSequence(s), IsSequence(t), IsSequence(u)
  PROVE  (s \o t) \o u = s \o (t \o u)
<1>1. PICK S, T, U : s \in Seq(S) /\ t \in Seq(T) /\ u \in Seq(U)
  BY DEF IsSequence
<1> DEFINE A == S \cup T \cup U
<1>2. s \in Seq(A) /\ t \in Seq(A) /\ u \in Seq(A)
  BY <1>1
<1> QED
  BY <1>2, ConcatAssociative

LEMMA EmptyConcatenation ==
  ASSUME NEW s, IsSequence(s) PROVE <<>> \o s = s /\ s \o <<>> = s
BY DEF IsSequence

LEMMA Appended ==
  ASSUME NEW s, NEW x, IsSequence(s)
  PROVE  /\ IsSequence(Append(s, x))
         /\ Len(Append(s, x)) = Len(s) + 1
         /\ \A i \in 1..Len(s) : Append(s, x)[i] = s[i]
         /\ Append(s, x)[Len(s) + 1] = x
<1>1. PICK S : s \in Seq(S)
  BY DEF IsSequence
<1>2. s \in Seq(S \cup {x}) /\ x \in S \cup {x}
  BY <1>1
<1>3. Append(s, x) \in Seq(S \cup {x})
  BY <1>2
<1> QED
  BY <1>2, <1>3 DEF IsSequence

LEMMA AppendIs ==
  ASSUME NEW s, NEW x, IsSequence(s) PROVE Append(s, x) = s \o <<x>>
<1>1. PICK S : s \in Seq(S)
  BY DEF IsSequence
<1>2. s \in Seq(S \cup {x}) /\ x \in S \cup {x}
  BY <1>1
<1> QED
  BY <1>2

LEMMA OneAdded ==
  ASSUME NEW s, NEW x, IsSequence(s)
  PROVE  /\ IsSequence(s \o <<x>>)
         /\ Len(s \o <<x>>) = Len(s) + 1
         /\ \A i \in 1..Len(s) : (s \o <<x>>)[i] = s[i]
         /\ (s \o <<x>>)[Len(s) + 1] = x
<1> DEFINE t == <<x>>
<1>1. IsSequence(t) /\ Len(t) = 1 /\ t[1] = x
  BY ShortSequences
<1> HIDE DEF t
<1>2. /\ IsSequence(s \o t) /\ Len(s \o t) = Len(s) + Len(t)
      /\ \A i \in 1..Len(s) : (s \o t)[i] = s[i]
      /\ \A i \in 1..Len(t) : (s \o t)[Len(s) + i] = t[i]
  BY <1>1, Concatenation
<1> QED
  BY <1>1, <1>2 DEF t

\* A function over 1..n is a sequence.
LEMMA TableIsSequence ==
  ASSUME NEW n \in Nat, NEW f, DOMAIN f = 1..n, f = [i \in DOMAIN f |-> f[i]]
  PROVE  IsSequence(f) /\ Len(f) = n
<1> DEFINE S == {f[i] : i \in 1..n}
<1>1. f \in [1..n -> S]
  OBVIOUS
<1>2. f \in Seq(S)
  BY <1>1
<1> QED
  BY <1>1, <1>2 DEF IsSequence

LEMMA SubSequence ==
  ASSUME NEW s, NEW m \in Int, NEW n \in Int
  PROVE  /\ IsSequence(SubSeq(s, m, n))
         /\ Len(SubSeq(s, m, n)) = IF m <= n THEN n - m + 1 ELSE 0
         /\ \A i \in 1..(n - m + 1) : SubSeq(s, m, n)[i] = s[m + i - 1]
<1> DEFINE S == {s[i] : i \in m..n}
<1>1. \A i \in m..n : s[i] \in S
  OBVIOUS
<1> HIDE DEF S
<1> QED
  BY <1>1, SubSeqProperties DEF IsSequence

\* The fragments of a tool input are a sequence.
LEMMA SplitIsSequence ==
  ASSUME NEW s, IsSequence(s), NEW size \in Nat \ {0}
  PROVE  IsSequence(ChatSplitRunes(s, size))
<1> DEFINE n == (Len(s) + size - 1) \div size
           f == ChatSplitRunes(s, size)
<1>1. Len(s) \in Nat
  BY SequenceLen
<1>2. n \in Nat
  BY <1>1
<1>3. DOMAIN f = 1..n /\ f = [i \in DOMAIN f |-> f[i]]
  BY DEF ChatSplitRunes
<1> HIDE DEF n, f
<1>4. IsSequence(f)
  BY <1>2, <1>3, TableIsSequence
<1> QED
  BY <1>4 DEF f

LEMMA Pieces ==
  ASSUME NEW r, IsSequence(r), NEW p \in Nat, NEW q \in Nat, p <= q, q <= Len(r)
  PROVE  SubSeq(r, 1, p) \o SubSeq(r, p + 1, q) = SubSeq(r, 1, q)
<1>1. PICK S : r \in Seq(S)
  BY DEF IsSequence
<1> DEFINE u == SubSeq(r, 1, p)
           v == SubSeq(r, p + 1, q)
           w == SubSeq(r, 1, q)
<1>2. /\ u \in Seq(S) /\ Len(u) = p /\ \A k \in 1..p : u[k] = r[k]
      /\ v \in Seq(S) /\ Len(v) = q - p /\ \A k \in 1..(q - p) : v[k] = r[p + k]
      /\ w \in Seq(S) /\ Len(w) = q /\ \A k \in 1..q : w[k] = r[k]
  BY <1>1
<1> DEFINE all == u \o v
<1> HIDE DEF u, v, w
<1>3. all \in Seq(S) /\ Len(all) = q
  BY <1>2
<1>4. /\ \A k \in 1..p : all[k] = u[k]
      /\ \A k \in 1..(q - p) : all[p + k] = v[k]
  <2>1. IsSequence(u) /\ IsSequence(v)
    BY <1>2 DEF IsSequence
  <2> QED
    BY <1>2, <2>1, Concatenation
<1> HIDE DEF all
<1>5. ASSUME NEW k \in 1..q PROVE all[k] = w[k]
  <2>1. CASE k <= p
    <3>1. k \in 1..p
      BY <2>1
    <3> QED
      BY <1>2, <1>4, <3>1
  <2>2. CASE k > p
    <3>1. k - p \in 1..(q - p) /\ p + (k - p) = k
      BY <2>2
    <3>2. all[p + (k - p)] = v[k - p] /\ v[k - p] = r[p + (k - p)]
      BY <1>2, <1>4, <3>1
    <3> QED
      BY <1>2, <3>1, <3>2
  <2> QED
    BY <2>1, <2>2
<1>6. all = w
  <2>1. all \in Seq(S) /\ w \in Seq(S) /\ Len(all) = Len(w)
    BY <1>2, <1>3
  <2>2. \A k \in 1..Len(all) : all[k] = w[k]
    BY <1>3, <1>5
  <2> QED
    BY <2>1, <2>2
<1> QED
  BY <1>6 DEF all, u, v, w

LEMMA Division ==
  ASSUME NEW a \in Nat, NEW b \in Nat \ {0}
  PROVE  LET q == a \div b IN q \in Nat /\ q * b <= a /\ a < q * b + b
OBVIOUS

\* There are just enough fragments: each begins before the end.
LEMMA FragmentCount ==
  ASSUME NEW len \in Nat, NEW size \in Nat \ {0}, NEW n, n = (len + size - 1) \div size
  PROVE  /\ n \in Nat /\ n * size >= len
         /\ \A k \in 1..n : (k - 1) * size < len
<1>1. len + size - 1 \in Nat
  OBVIOUS
<1> DEFINE a == len + size - 1
<1>2. n \in Nat /\ n * size <= a /\ a < n * size + size
  BY <1>1, Division
<1>3. n * size >= len
  BY <1>2
<1>4. ASSUME NEW k \in 1..n PROVE (k - 1) * size < len
  <2>1. k * size <= n * size
    BY <1>2
  <2>2. (k - 1) * size = k * size - size
    BY <1>2
  <2>3. k * size \in Int /\ n * size \in Int /\ (k - 1) * size \in Int
    BY <1>2
  <2> QED
    BY <1>2, <2>1, <2>2, <2>3
<1> QED
  BY <1>2, <1>3, <1>4

---------------------------------------------------------------------------
(* Positions. *)

LEMMA PositionsFinite ==
  ASSUME NEW n \in Nat, NEW P, P \subseteq 1..n
  PROVE  IsFiniteSet(P) /\ Cardinality(P) \in Nat
<1>1. IsFiniteSet(1..n)
  BY FS_Interval
<1>2. IsFiniteSet(P)
  BY <1>1, FS_Subset
<1> QED
  BY <1>2, FS_CardinalityType

\* A position behind all others comes last and leaves them their places.
LEMMA PositionAdded ==
  ASSUME NEW n \in Nat, NEW P, P \subseteq 1..n
  PROVE  /\ Cardinality(P \cup {n + 1}) = Cardinality(P) + 1
         /\ Place(P \cup {n + 1}, n + 1) = Cardinality(P) + 1
         /\ \A i \in P : Place(P \cup {n + 1}, i) = Place(P, i)
<1>0. n + 1 \notin P /\ \A j \in P : j \in Int /\ j <= n + 1
  OBVIOUS
<1>1. IsFiniteSet(P)
  BY PositionsFinite
<1>2. Cardinality(P \cup {n + 1}) = Cardinality(P) + 1
  BY <1>0, <1>1, FS_AddElement
<1>3. {j \in P \cup {n + 1} : j <= n + 1} = P \cup {n + 1}
  <2>1. \A j \in P \cup {n + 1} : j <= n + 1
    BY <1>0
  <2> QED
    BY <2>1
<1>4. ASSUME NEW i \in P PROVE {j \in P \cup {n + 1} : j <= i} = {j \in P : j <= i}
  <2>1. ~(n + 1 <= i)
    OBVIOUS
  <2> QED
    BY <2>1
<1> QED
  BY <1>2, <1>3, <1>4 DEF Place

\* There are as many places as positions.
LEMMA PlaceType ==
  ASSUME NEW n \in Nat, NEW P, P \subseteq 1..n, NEW i \in P
  PROVE  Place(P, i) \in Nat /\ Place(P, i) <= Cardinality(P)
<1> DEFINE Q == {j \in P : j <= i}
<1>1. IsFiniteSet(P) /\ Cardinality(P) \in Nat /\ Q \in SUBSET P
  BY PositionsFinite
<1>2. IsFiniteSet(Q) /\ Cardinality(Q) <= Cardinality(P)
  BY <1>1, FS_Subset
<1>3. Cardinality(Q) \in Nat
  BY <1>2, FS_CardinalityType
<1> QED
  BY <1>2, <1>3 DEF Place

\* There are at most as many positions up to i as there are positions, and all
\* of them come up to the end.
LEMMA PlaceBound ==
  ASSUME NEW n \in Nat, NEW P, P \subseteq 1..n, NEW i \in Int
  PROVE  /\ Place(P, i) \in Nat /\ Place(P, i) <= Cardinality(P)
         /\ Before(P, i) \in Nat /\ Before(P, i) <= Cardinality(P)
         /\ i >= n => Place(P, i) = Cardinality(P)
         /\ i > n => Before(P, i) = Cardinality(P)
<1> DEFINE Q == {j \in P : j <= i}
           R == {j \in P : j < i}
<1>1. IsFiniteSet(P) /\ Cardinality(P) \in Nat /\ Q \in SUBSET P /\ R \in SUBSET P
  BY PositionsFinite
<1>2. /\ IsFiniteSet(Q) /\ Cardinality(Q) <= Cardinality(P)
      /\ IsFiniteSet(R) /\ Cardinality(R) <= Cardinality(P)
  BY <1>1, FS_Subset
<1>3. Cardinality(Q) \in Nat /\ Cardinality(R) \in Nat
  BY <1>2, FS_CardinalityType
<1>4. \A j \in P : j \in Int /\ j <= n
  OBVIOUS
<1>5. ASSUME i >= n PROVE Q = P
  <2>1. \A j \in P : j <= i
    BY <1>4, <1>5
  <2> QED
    BY <2>1
<1>6. ASSUME i > n PROVE R = P
  <2>1. \A j \in P : j < i
    BY <1>4, <1>6
  <2> QED
    BY <2>1
<1> QED
  BY <1>2, <1>3, <1>5, <1>6 DEF Place, Before

\* A position of P itself is not before itself.
LEMMA BeforeItself ==
  ASSUME NEW n \in Nat, NEW P, P \subseteq 1..n, NEW i \in P
  PROVE  Before(P, i) < Cardinality(P)
<1> DEFINE R == {j \in P : j < i}
           Q == P \ {i}
<1>1. IsFiniteSet(P) /\ Cardinality(P) \in Nat /\ R \in SUBSET Q
  <2>1. ~(i < i)
    OBVIOUS
  <2>2. IsFiniteSet(P) /\ Cardinality(P) \in Nat
    BY PositionsFinite
  <2> QED
    BY <2>1, <2>2
<1>2. IsFiniteSet(Q) /\ Cardinality(Q) = Cardinality(P) - 1
  BY <1>1, FS_RemoveElement
<1>3. Cardinality(R) <= Cardinality(Q)
  BY <1>1, <1>2, FS_Subset
<1>4. IsFiniteSet(R) /\ Cardinality(R) \in Nat /\ Cardinality(Q) \in Nat
  BY <1>1, <1>2, FS_Subset, FS_CardinalityType
<1> QED
  BY <1>1, <1>2, <1>3, <1>4 DEF Before

\* A position behind all others changes nothing for them.
LEMMA PlacesStay ==
  ASSUME NEW n \in Nat, NEW P, P \subseteq 1..n, NEW i \in 1..n
  PROVE  Place(P \cup {n + 1}, i) = Place(P, i) /\ Before(P \cup {n + 1}, i) = Before(P, i)
<1>1. {j \in P \cup {n + 1} : j <= i} = {j \in P : j <= i}
  <2>1. ~(n + 1 <= i)
    OBVIOUS
  <2> QED
    BY <2>1
<1>2. {j \in P \cup {n + 1} : j < i} = {j \in P : j < i}
  <2>1. ~(n + 1 < i)
    OBVIOUS
  <2> QED
    BY <2>1
<1> QED
  BY <1>1, <1>2 DEF Place, Before

\* Nor does it come before itself.
LEMMA BeforeLast ==
  ASSUME NEW n \in Nat, NEW P, P \subseteq 1..n
  PROVE  Before(P \cup {n + 1}, n + 1) = Cardinality(P) /\ Before(P, n + 1) = Cardinality(P)
<1>1. {j \in P \cup {n + 1} : j < n + 1} = P /\ {j \in P : j < n + 1} = P
  <2>1. ~(n + 1 < n + 1) /\ \A j \in P : j < n + 1
    OBVIOUS
  <2> QED
    BY <2>1
<1> QED
  BY <1>1 DEF Before

---------------------------------------------------------------------------
(* Data put together. *)

Gathers(f, fs, P) ==
  /\ f[0] = <<>>
  /\ \A n \in 1..Len(fs) : f[n] = IF n \in P THEN f[n - 1] \o fs[n].data ELSE f[n - 1]

LEMMA DataIs ==
  ASSUME NEW fs, IsSequence(fs), NEW P
  PROVE  \E f : Gathers(f, fs, P) /\ Data(fs, P) = f[Len(fs)]
<1> DEFINE Step(p, n) == IF n \in P THEN p \o fs[n].data ELSE p
           F(f, m) == f = [n \in 0..m |-> IF n = 0 THEN <<>> ELSE Step(f[n - 1], n)]
           S == {m \in Nat : \E f : F(f, m)}
<1>1. 0 \in S
  <2> DEFINE f == [n \in 0..0 |-> <<>>]
  <2>1. F(f, 0)
    OBVIOUS
  <2> QED
    BY <2>1
<1>2. ASSUME NEW m \in Nat, m \in S PROVE m + 1 \in S
  <2> HIDE DEF Step
  <2>1. PICK f : F(f, m)
    BY <1>2
  <2> DEFINE g == [n \in 0..(m + 1) |-> IF n = m + 1 THEN Step(f[m], m + 1) ELSE f[n]]
  <2>2. \A n \in 0..m : f[n] = IF n = 0 THEN <<>> ELSE Step(f[n - 1], n)
    BY <2>1
  <2>3. \A n \in 0..(m + 1) : g[n] = IF n = 0 THEN <<>> ELSE Step(g[n - 1], n)
    BY <2>2
  <2>4. g = [n \in 0..(m + 1) |-> g[n]]
    OBVIOUS
  <2> HIDE DEF g
  <2>5. F(g, m + 1)
    BY <2>3, <2>4
  <2> QED
    BY <2>5
<1> HIDE DEF S
<1>3. Len(fs) \in S /\ Len(fs) \in Nat
  <2>1. Len(fs) \in Nat
    BY SequenceLen
  <2> QED
    BY <1>1, <1>2, <2>1, Induction
<1> DEFINE f == CHOOSE f : F(f, Len(fs))
<1>4. F(f, Len(fs))
  BY <1>3 DEF S
<1>5. Data(fs, P) = f[Len(fs)]
  <2>1. f = CHOOSE g : g = [n \in 0..Len(fs) |->
              IF n = 0 THEN <<>>
              ELSE IF n \in P THEN g[n - 1] \o fs[n].data ELSE g[n - 1]]
    OBVIOUS
  <2> HIDE DEF f
  <2> QED
    BY <2>1 DEF Data
<1> HIDE DEF f, Step
<1>6. f[0] = <<>> /\ \A n \in 1..Len(fs) : f[n] = Step(f[n - 1], n)
  BY <1>4, <1>3
<1>7. Gathers(f, fs, P)
  BY <1>6 DEF Gathers, Step
<1> QED
  BY <1>5, <1>7

LEMMA NoData == ASSUME NEW fs, IsSequence(fs) PROVE Data(fs, {}) = <<>>
<1>1. PICK f : Gathers(f, fs, {}) /\ Data(fs, {}) = f[Len(fs)]
  BY DataIs
<1> DEFINE S == {n \in Nat : n <= Len(fs) => f[n] = <<>>}
<1>2. 0 \in S
  BY <1>1 DEF Gathers
<1>3. ASSUME NEW n \in Nat, n \in S PROVE n + 1 \in S
  <2> SUFFICES ASSUME n + 1 <= Len(fs) PROVE f[n + 1] = <<>>
    OBVIOUS
  <2>1. n + 1 \in 1..Len(fs) /\ (n + 1) - 1 = n /\ f[n] = <<>>
    BY <1>3, SequenceLen
  <2> QED
    BY <1>1, <2>1 DEF Gathers
<1> HIDE DEF S
<1>4. Len(fs) \in S /\ Len(fs) \in Nat
  BY <1>2, <1>3, SequenceLen, Induction
<1> QED
  BY <1>1, <1>4 DEF S

\* The data at the last position comes last, if it belongs to the others.
LEMMA DataAppended ==
  ASSUME NEW fs, IsSequence(fs), NEW e, NEW P, NEW Q, Q \cap 1..Len(fs) = P
  PROVE  Data(Append(fs, e), Q) =
           IF Len(fs) + 1 \in Q THEN Data(fs, P) \o e.data ELSE Data(fs, P)
<1> DEFINE gs == Append(fs, e)
           n == Len(fs)
<1>1. /\ IsSequence(gs) /\ Len(gs) = n + 1 /\ gs[n + 1] = e /\ \A i \in 1..n : gs[i] = fs[i]
      /\ n \in Nat /\ Q \cap 1..n = P
  BY Appended, SequenceLen
<1> HIDE DEF gs, n
<1>2. PICK h : Gathers(h, fs, P) /\ Data(fs, P) = h[n]
  BY DataIs DEF n
<1>3. PICK f : Gathers(f, gs, Q) /\ Data(gs, Q) = f[n + 1]
  BY <1>1, DataIs
<1> DEFINE S == {i \in Nat : i <= n => f[i] = h[i]}
<1>4. 0 \in S
  BY <1>2, <1>3 DEF Gathers
<1>5. ASSUME NEW i \in Nat, i \in S PROVE i + 1 \in S
  <2> SUFFICES ASSUME i + 1 <= n PROVE f[i + 1] = h[i + 1]
    OBVIOUS
  <2>1. /\ i + 1 \in 1..n /\ i + 1 \in 1..(n + 1) /\ (i + 1) - 1 = i /\ f[i] = h[i]
    BY <1>1, <1>5
  <2>2. gs[i + 1] = fs[i + 1] /\ (i + 1 \in Q <=> i + 1 \in P)
    BY <1>1, <2>1
  <2>3. f[i + 1] = IF i + 1 \in Q THEN f[i] \o gs[i + 1].data ELSE f[i]
    BY <1>1, <1>3, <2>1 DEF Gathers
  <2>4. h[i + 1] = IF i + 1 \in P THEN h[i] \o fs[i + 1].data ELSE h[i]
    BY <1>2, <2>1 DEF Gathers, n
  <2> QED
    BY <2>1, <2>2, <2>3, <2>4
<1> HIDE DEF S
<1>6. n \in S
  BY <1>1, <1>4, <1>5, Induction
<1>7. f[n] = h[n]
  BY <1>1, <1>6 DEF S
<1>8. n + 1 \in 1..Len(gs) /\ (n + 1) - 1 = n
  BY <1>1
<1>9. f[n + 1] = IF n + 1 \in Q THEN f[n] \o e.data ELSE f[n]
  BY <1>1, <1>3, <1>8 DEF Gathers
<1> QED
  BY <1>2, <1>3, <1>7, <1>9 DEF gs, n

LEMMA DataStays ==
  ASSUME NEW fs, IsSequence(fs), NEW e, NEW P, P \subseteq 1..Len(fs)
  PROVE  Data(Append(fs, e), P) = Data(fs, P)
<1>1. ASSUME NEW n \in Nat, P \subseteq 1..n PROVE P \cap 1..n = P /\ n + 1 \notin P
  <2>1. n + 1 \notin 1..n
    OBVIOUS
  <2> QED
    BY <1>1, <2>1
<1>2. P \cap 1..Len(fs) = P /\ Len(fs) + 1 \notin P
  BY <1>1, SequenceLen
<1> QED
  BY <1>2, DataAppended

LEMMA DataGrows ==
  ASSUME NEW fs, IsSequence(fs), NEW e, NEW P, P \subseteq 1..Len(fs)
  PROVE  Data(Append(fs, e), P \cup {Len(fs) + 1}) = Data(fs, P) \o e.data
<1>1. ASSUME NEW n \in Nat, P \subseteq 1..n PROVE (P \cup {n + 1}) \cap 1..n = P
  <2>1. n + 1 \notin 1..n
    OBVIOUS
  <2> QED
    BY <1>1, <2>1
<1>2. (P \cup {Len(fs) + 1}) \cap 1..Len(fs) = P /\ Len(fs) + 1 \in P \cup {Len(fs) + 1}
  BY <1>1, SequenceLen
<1> QED
  BY <1>2, DataAppended
===========================================================================
