-------------------------- MODULE ResponsesOutProofs --------------------------
(***************************************************************************)
(* Proofs about the Responses state machine, for any texts, any number and *)
(* kinds of tools and any inputs of theirs: the events it sends are paired *)
(* and in order, the inputs it tells are the tools' inputs, one terminal   *)
(* event says what happened, and no content fed is lost.                   *)
(***************************************************************************)
EXTENDS ResponsesOut, ResponsesCodecProofs

---------------------------------------------------------------------------
(* One more event.  What the properties say of the events sent is kept as  *)
(* four facts, each of which an event of a certain type, sent at the right *)
(* moment, keeps or moves on.                                              *)

LEMMA EventAppended ==
  ASSUME NEW fs, IsSequence(fs), NEW e
  PROVE  /\ Len(fs) \in Nat /\ Len(Append(fs, e)) = Len(fs) + 1
         /\ Append(fs, e)[Len(fs) + 1] = e
         /\ \A i \in 1..Len(fs) : Append(fs, e)[i] = fs[i]
         /\ 1..Len(Append(fs, e)) = 1..Len(fs) \cup {Len(fs) + 1}
         /\ Len(fs) + 1 \notin 1..Len(fs)
<1> DEFINE gs == Append(fs, e)
           n == Len(fs)
<1>1. /\ Len(gs) = n + 1 /\ gs[n + 1] = e /\ \A i \in 1..n : gs[i] = fs[i]
  BY Appended
<1>2. n \in Nat
  BY SequenceLen
<1> HIDE DEF gs, n
<1>3. 1..(n + 1) = 1..n \cup {n + 1} /\ n + 1 \notin 1..n
  BY <1>2
<1> QED
  BY <1>1, <1>2, <1>3 DEF gs, n

LEMMA AtAppended ==
  ASSUME NEW fs, IsSequence(fs), NEW e, NEW type
  PROVE  /\ At(fs, type) \subseteq 1..Len(fs)
         /\ At(Append(fs, e), type) =
              IF e.type = type THEN At(fs, type) \cup {Len(fs) + 1} ELSE At(fs, type)
<1> DEFINE gs == Append(fs, e)
           n == Len(fs) + 1
<1>1. /\ 1..Len(gs) = 1..Len(fs) \cup {n} /\ gs[n] = e
      /\ \A i \in 1..Len(fs) : gs[i] = fs[i]
  BY EventAppended
<1> HIDE DEF gs, n
<1> QED
  BY <1>1 DEF At, gs, n

LEMMA ItemPositions ==
  ASSUME NEW fs, NEW types, NEW i PROVE OfItem(fs, types, i) \subseteq 1..Len(fs)
BY DEF OfItem

LEMMA OfItemAppended ==
  ASSUME NEW fs, IsSequence(fs), NEW e, NEW types, NEW i
  PROVE  OfItem(Append(fs, e), types, i) =
           IF e.type \in types /\ e.index = i THEN OfItem(fs, types, i) \cup {Len(fs) + 1}
           ELSE OfItem(fs, types, i)
<1> DEFINE gs == Append(fs, e)
           n == Len(fs) + 1
<1>1. /\ 1..Len(gs) = 1..Len(fs) \cup {n} /\ gs[n] = e
      /\ \A k \in 1..Len(fs) : gs[k] = fs[k]
  BY EventAppended
<1> HIDE DEF gs, n
<1> QED
  BY <1>1 DEF OfItem, gs, n

LEMMA PartPositions ==
  ASSUME NEW fs, IsSequence(fs), NEW type, NEW i, NEW p
  PROVE  OfPart(fs, type, i, p) \subseteq 1..Len(fs)
BY DEF OfPart, At

LEMMA OfPartAppended ==
  ASSUME NEW fs, IsSequence(fs), NEW e, NEW type, NEW i, NEW p
  PROVE  OfPart(Append(fs, e), type, i, p) =
           IF e.type = type /\ e.index = i /\ e.part = p
           THEN OfPart(fs, type, i, p) \cup {Len(fs) + 1} ELSE OfPart(fs, type, i, p)
<1> DEFINE gs == Append(fs, e)
           n == Len(fs) + 1
           P == At(fs, type)
<1>1. /\ gs[n] = e /\ \A k \in 1..Len(fs) : gs[k] = fs[k]
  BY EventAppended
<1>2. P \subseteq 1..Len(fs) /\ At(gs, type) = IF e.type = type THEN P \cup {n} ELSE P
  BY AtAppended
<1> HIDE DEF gs, n, P
<1> QED
  BY <1>1, <1>2 DEF OfPart, gs, n, P

---------------------------------------------------------------------------
(* Items. *)

\* k items are done, and the ids open of those announced but not done, at most
\* one.
ItemsTold(fs, k, open) ==
  /\ ItemsInTurn(fs)
  /\ Cardinality(ItemsDone(fs)) = k
  /\ Cardinality(ItemsAdded(fs)) = k + Cardinality(open)
  /\ \A i \in ItemsAdded(fs) : fs[i].index = k => fs[i].data \in open

LEMMA ItemSets ==
  ASSUME NEW fs, IsSequence(fs)
  PROVE  ItemsAdded(fs) \subseteq 1..Len(fs) /\ ItemsDone(fs) \subseteq 1..Len(fs)
BY AtAppended DEF ItemsAdded, ItemsDone

\* No event is about an item that was not announced.
LEMMA ItemsKnown ==
  ASSUME NEW fs, IsSequence(fs), NEW k \in Nat, NEW open, ItemsTold(fs, k, open)
  PROVE  \A i \in 1..Len(fs) :
           /\ fs[i].index \in 0..k
           /\ fs[i].type \notin AboutResponse /\ open = {} => fs[i].index < k
           /\ fs[i].type = "output_item.done" => fs[i].index < k
<1> TAKE i \in 1..Len(fs)
<1> DEFINE D == ItemsDone(fs)
           A == ItemsAdded(fs)
           n == Len(fs)
<1>1. D \subseteq 1..n /\ A \subseteq 1..n /\ n \in Nat /\ i \in Int
  BY ItemSets, SequenceLen
<1>2. /\ fs[i].index = Before(D, i) /\ Cardinality(D) = k
      /\ fs[i].type \notin AboutResponse => Place(A, i) = fs[i].index + 1
      /\ open = {} => Cardinality(A) = k
  <2>1. /\ fs[i].index = Before(D, i) /\ Cardinality(D) = k
        /\ fs[i].type \notin AboutResponse => Place(A, i) = fs[i].index + 1
        /\ Cardinality(A) = k + Cardinality(open)
    BY DEF ItemsTold, ItemsInTurn
  <2>2. open = {} => Cardinality(open) = 0
    BY FS_EmptySet
  <2> QED
    BY <2>1, <2>2
<1>3. fs[i].type = "output_item.done" => i \in D
  BY DEF ItemsDone, At
<1> HIDE DEF D, A, n
<1>4. Before(D, i) \in Nat /\ Before(D, i) <= Cardinality(D) /\ Place(A, i) <= Cardinality(A)
  BY <1>1, PlaceBound
<1>5. i \in D => Before(D, i) < Cardinality(D)
  BY <1>1, BeforeItself
<1> QED
  BY <1>2, <1>3, <1>4, <1>5

\* What is asked of an event that leaves the items as they are.
LEMMA ItemsGoOn ==
  ASSUME NEW fs, IsSequence(fs), NEW k \in Nat, NEW open, ItemsTold(fs, k, open),
         NEW e, e.index = k, e.type \notin {"output_item.added", "output_item.done"},
         e.type \in AboutResponse \/ Cardinality(open) = 1
  PROVE  ItemsTold(Append(fs, e), k, open)
<1> DEFINE D == ItemsDone(fs)
           A == ItemsAdded(fs)
           n == Len(fs)
           gs == Append(fs, e)
<1>1. /\ D \subseteq 1..n /\ A \subseteq 1..n /\ n \in Nat
      /\ ItemsDone(gs) = D /\ ItemsAdded(gs) = A
  BY ItemSets, SequenceLen, AtAppended DEF ItemsDone, ItemsAdded
<1>2. /\ 1..Len(gs) = 1..n \cup {n + 1} /\ gs[n + 1] = e /\ \A i \in 1..n : gs[i] = fs[i]
  BY EventAppended
<1>3. /\ \A i \in 1..n : /\ fs[i].index = Before(D, i)
                         /\ fs[i].type \notin AboutResponse => Place(A, i) = fs[i].index + 1
      /\ \A i \in A, d \in D : fs[i].index = fs[d].index => fs[d].data.id = fs[i].data
      /\ Cardinality(D) = k /\ Cardinality(A) = k + Cardinality(open)
      /\ \A i \in A : fs[i].index = k => fs[i].data \in open
  BY DEF ItemsTold, ItemsInTurn
<1> HIDE DEF D, A, n, gs
<1>4. Before(D, n + 1) = Cardinality(D)
  BY <1>1, BeforeLast
<1>5. Place(A, n + 1) = Cardinality(A)
  <2>1. n + 1 \in Int /\ n + 1 >= n /\ n \in Nat /\ A \subseteq 1..n
    BY <1>1
  <2> QED
    BY ONLY <2>1, PlaceBound
<1>6. ItemsInTurn(gs)
  BY <1>1, <1>2, <1>3, <1>4, <1>5 DEF ItemsInTurn
<1> QED
  BY <1>1, <1>2, <1>3, <1>6 DEF ItemsTold, gs

LEMMA ItemAnnounced ==
  ASSUME NEW fs, IsSequence(fs), NEW k \in Nat, ItemsTold(fs, k, {}),
         NEW e, e.index = k, e.type = "output_item.added"
  PROVE  ItemsTold(Append(fs, e), k, {e.data})
<1> DEFINE D == ItemsDone(fs)
           A == ItemsAdded(fs)
           n == Len(fs)
           gs == Append(fs, e)
<1>1. /\ D \subseteq 1..n /\ A \subseteq 1..n /\ n \in Nat
      /\ ItemsDone(gs) = D /\ ItemsAdded(gs) = A \cup {n + 1}
  BY ItemSets, SequenceLen, AtAppended DEF ItemsDone, ItemsAdded
<1>2. /\ 1..Len(gs) = 1..n \cup {n + 1} /\ gs[n + 1] = e /\ \A i \in 1..n : gs[i] = fs[i]
  BY EventAppended
<1>3. /\ \A i \in 1..n : /\ fs[i].index = Before(D, i)
                         /\ fs[i].type \notin AboutResponse => Place(A, i) = fs[i].index + 1
      /\ \A i \in A, d \in D : fs[i].index = fs[d].index => fs[d].data.id = fs[i].data
      /\ Cardinality(D) = k /\ Cardinality(A) = k
  BY FS_EmptySet DEF ItemsTold, ItemsInTurn
<1>4. /\ \A i \in A : fs[i].index < k
      /\ \A d \in D : fs[d].index < k /\ fs[d].index \in Nat
  <2>1. \A i \in 1..n : /\ fs[i].index \in 0..k
                        /\ fs[i].type \notin AboutResponse => fs[i].index < k
    BY ItemsKnown
  <2>2. \A i \in A \cup D : fs[i].type \notin AboutResponse /\ i \in 1..n
    BY <1>1 DEF ItemsAdded, ItemsDone, At, AboutResponse
  <2> QED
    BY <2>1, <2>2
<1> HIDE DEF D, A, n, gs
<1>5. Before(D, n + 1) = Cardinality(D)
  BY <1>1, BeforeLast
<1>6. /\ Place(A \cup {n + 1}, n + 1) = Cardinality(A) + 1
      /\ Cardinality(A \cup {n + 1}) = Cardinality(A) + 1
  BY <1>1, PositionAdded
<1>7. ASSUME NEW i \in 1..n PROVE Place(A \cup {n + 1}, i) = Place(A, i)
  <2>1. n \in Nat /\ A \subseteq 1..n /\ i \in 1..n
    BY <1>1
  <2> QED
    BY ONLY <2>1, PlacesStay
<1>8. ItemsInTurn(gs)
  <2>1. ASSUME NEW i \in 1..Len(gs)
        PROVE  /\ gs[i].index = Before(D, i)
               /\ gs[i].type \notin AboutResponse => Place(A \cup {n + 1}, i) = gs[i].index + 1
    <3>1. CASE i = n + 1
      BY <1>2, <1>3, <1>5, <1>6, <3>1
    <3>2. CASE i # n + 1
      BY <1>2, <1>3, <1>7, <3>2
    <3> QED
      BY <3>1, <3>2
  <2>2. ASSUME NEW i \in A \cup {n + 1}, NEW d \in D, gs[i].index = gs[d].index
        PROVE  gs[d].data.id = gs[i].data
    <3>1. d \in 1..n /\ gs[d] = fs[d] /\ fs[d].index < k /\ fs[d].index \in Nat
      BY <1>1, <1>2, <1>4
    <3>2. i # n + 1
      BY <1>2, <2>2, <3>1
    <3>3. i \in A /\ i \in 1..n
      BY <1>1, <3>2
    <3> QED
      BY <1>2, <1>3, <2>2, <3>1, <3>3
  <2> QED
    BY <1>1, <2>1, <2>2 DEF ItemsInTurn
<1>9. \A i \in A \cup {n + 1} : gs[i].index = k => gs[i].data \in {e.data}
  <2> TAKE i \in A \cup {n + 1}
  <2>1. CASE i = n + 1
    BY <1>2, <2>1
  <2>2. CASE i # n + 1
    <3>1. i \in A /\ gs[i] = fs[i] /\ fs[i].index < k
      BY <1>1, <1>2, <1>4, <2>2
    <3> QED
      BY <3>1
  <2> QED
    BY <2>1, <2>2
<1>10. Cardinality({e.data}) = 1
  BY FS_Singleton
<1> QED
  BY <1>1, <1>3, <1>6, <1>8, <1>9, <1>10 DEF ItemsTold, gs

LEMMA ItemFinished ==
  ASSUME NEW fs, IsSequence(fs), NEW k \in Nat, NEW id, ItemsTold(fs, k, {id}),
         NEW e, e.index = k, e.type = "output_item.done", e.data.id = id
  PROVE  ItemsTold(Append(fs, e), k + 1, {})
<1> DEFINE D == ItemsDone(fs)
           A == ItemsAdded(fs)
           n == Len(fs)
           gs == Append(fs, e)
<1>1. /\ D \subseteq 1..n /\ A \subseteq 1..n /\ n \in Nat
      /\ ItemsDone(gs) = D \cup {n + 1} /\ ItemsAdded(gs) = A
  BY ItemSets, SequenceLen, AtAppended DEF ItemsDone, ItemsAdded
<1>2. /\ 1..Len(gs) = 1..n \cup {n + 1} /\ gs[n + 1] = e /\ \A i \in 1..n : gs[i] = fs[i]
      /\ n + 1 \notin 1..n
  BY EventAppended
<1>3. /\ \A i \in 1..n : /\ fs[i].index = Before(D, i)
                         /\ fs[i].type \notin AboutResponse => Place(A, i) = fs[i].index + 1
      /\ \A i \in A, d \in D : fs[i].index = fs[d].index => fs[d].data.id = fs[i].data
      /\ Cardinality(D) = k /\ Cardinality(A) = k + 1
      /\ \A i \in A : fs[i].index = k => fs[i].data = id
  BY FS_Singleton DEF ItemsTold, ItemsInTurn
<1>4. \A i \in A : fs[i].index \in 0..k
  <2>1. \A i \in 1..n : fs[i].index \in 0..k
    BY ItemsKnown
  <2> QED
    BY <1>1, <2>1
<1> HIDE DEF D, A, n, gs
<1>5. Before(D \cup {n + 1}, n + 1) = Cardinality(D)
  BY <1>1, BeforeLast
<1>6. Place(A, n + 1) = Cardinality(A)
  <2>1. n + 1 \in Int /\ n + 1 >= n /\ n \in Nat /\ A \subseteq 1..n
    BY <1>1
  <2> QED
    BY ONLY <2>1, PlaceBound
<1>7. /\ Cardinality(D \cup {n + 1}) = Cardinality(D) + 1
      /\ \A i \in 1..n : Before(D \cup {n + 1}, i) = Before(D, i)
  <2>1. Cardinality(D \cup {n + 1}) = Cardinality(D) + 1
    BY <1>1, PositionAdded
  <2>2. ASSUME NEW i \in 1..n PROVE Before(D \cup {n + 1}, i) = Before(D, i)
    <3>1. n \in Nat /\ D \subseteq 1..n /\ i \in 1..n
      BY <1>1
    <3> QED
      BY ONLY <3>1, PlacesStay
  <2> QED
    BY <2>1, <2>2
<1>8. ItemsInTurn(gs)
  <2>1. ASSUME NEW i \in 1..Len(gs)
        PROVE  /\ gs[i].index = Before(D \cup {n + 1}, i)
               /\ gs[i].type \notin AboutResponse => Place(A, i) = gs[i].index + 1
    <3>1. CASE i = n + 1
      BY <1>2, <1>3, <1>5, <1>6, <3>1
    <3>2. CASE i # n + 1
      BY <1>2, <1>3, <1>7, <3>2
    <3> QED
      BY <3>1, <3>2
  <2>2. ASSUME NEW i \in A, NEW d \in D \cup {n + 1}, gs[i].index = gs[d].index
        PROVE  gs[d].data.id = gs[i].data
    <3>1. i \in 1..n /\ gs[i] = fs[i]
      BY <1>1, <1>2
    <3>2. CASE d = n + 1
      BY <1>2, <1>3, <2>2, <3>1, <3>2
    <3>3. CASE d # n + 1
      BY <1>1, <1>2, <1>3, <2>2, <3>1, <3>3
    <3> QED
      BY <3>2, <3>3
  <2> QED
    BY <1>1, <2>1, <2>2 DEF ItemsInTurn
<1>9. ASSUME NEW i \in A PROVE gs[i].index # k + 1
  <2>1. gs[i] = fs[i] /\ fs[i].index \in 0..k
    BY <1>1, <1>2, <1>4
  <2> QED
    BY <2>1
<1>10. Cardinality(A) = (k + 1) + Cardinality({}) /\ Cardinality(D \cup {n + 1}) = k + 1
  BY <1>3, <1>7, FS_EmptySet
<1> QED
  BY <1>1, <1>8, <1>9, <1>10 DEF ItemsTold, gs

---------------------------------------------------------------------------
(* Parts. *)

PartKinds == {TextPart, SummaryPart}
TypesOf(kind) == {kind.added, kind.delta, kind.text, kind.done}
PartTypes == TypesOf(TextPart) \cup TypesOf(SummaryPart)

\* The events of one part and what they carry.
Part(fs, kind, i, p) ==
  [added  |-> OfPart(fs, kind.added, i, p), deltas |-> OfPart(fs, kind.delta, i, p),
   texts  |-> OfPart(fs, kind.text, i, p),  closes |-> OfPart(fs, kind.done, i, p),
   said   |-> Data(fs, OfPart(fs, kind.delta, i, p)),
   told   |-> {fs[k].data : k \in OfPart(fs, kind.text, i, p)},
   sealed |-> {fs[k].data : k \in OfPart(fs, kind.done, i, p)}]

\* A part goes from blank over going, with the text so far, and spelled out to
\* complete.
Blank(x) == x.added = {} /\ x.deltas = {} /\ x.texts = {} /\ x.closes = {} /\ x.said = <<>>

Begun(x, a) == x.added = {a} /\ \A k \in x.deltas \cup x.texts \cup x.closes : a < k

Going(x, text) == x.said = text /\ x.texts = {} /\ x.closes = {} /\ \E a : Begun(x, a)

Spelled(x, text) ==
  /\ x.said = text /\ x.told = {text} /\ x.closes = {}
  /\ \E a, t : Begun(x, a) /\ x.texts = {t} /\ \A k \in x.deltas : k < t

Complete(x) ==
  /\ x.told = {x.said} /\ x.sealed = {x.said}
  /\ \E a, t, c : Begun(x, a) /\ x.texts = {t} /\ x.closes = {c} /\ t < c /\ \A k \in x.deltas : k < t

NoPart == [stage |-> "none"]

\* The part of kind `kind' and number p is the one that is being told.
IsCurrent(cur, kind, p) == cur.stage # "none" /\ cur.kind = kind /\ cur.part = p

\* How the part x of kind `kind' and number p stands when cur is on the way.
Stands(x, cur, kind, p) ==
  IF IsCurrent(cur, kind, p)
  THEN (cur.stage = "open" => Going(x, cur.text)) /\ (cur.stage = "told" => Spelled(x, cur.text))
  ELSE Blank(x) \/ Complete(x)

\* The parts of a kind are numbered from 0, each begun when the one before it is
\* complete.
Numbered(fs, kind) ==
  \A a \in At(fs, kind.added) :
    fs[a].part > 0 => OfPart(fs, kind.done, fs[a].index, fs[a].part - 1) # {}

\* Of the item k the parts begun, and cur of them, if there is such a part, not
\* completed; no part of another item is on the way.
PartsTold(fs, k, begun, cur) ==
  \A kind \in PartKinds :
    /\ \A i, p : Stands(Part(fs, kind, i, p), IF i = k THEN cur ELSE NoPart, kind, p)
    /\ \A p : Blank(Part(fs, kind, k, p)) <=> <<kind, p>> \notin begun
    /\ Numbered(fs, kind)

LEMMA KindTypes ==
  /\ \A kind \in PartKinds :
       /\ kind.added # kind.delta /\ kind.added # kind.text /\ kind.added # kind.done
       /\ kind.delta # kind.text /\ kind.delta # kind.done /\ kind.text # kind.done
       /\ TypesOf(kind) \subseteq PartTypes
  /\ \A kind, other \in PartKinds : kind # other => TypesOf(kind) \cap TypesOf(other) = {}
  /\ \A kind \in PartKinds : \A type \in TypesOf(kind) :
       type \notin AboutResponse \cup {"output_item.added", "output_item.done"}
BY DEF PartKinds, PartTypes, TypesOf, TextPart, SummaryPart, AboutResponse

\* What is carried at positions before the end does not change.
LEMMA CarriedStays ==
  ASSUME NEW fs, IsSequence(fs), NEW e, NEW P, P \subseteq 1..Len(fs)
  PROVE  /\ {Append(fs, e)[k].data : k \in P} = {fs[k].data : k \in P}
         /\ {Append(fs, e)[k].data : k \in P \cup {Len(fs) + 1}} = {fs[k].data : k \in P} \cup {e.data}
<1> DEFINE gs == Append(fs, e)
           n == Len(fs) + 1
<1>1. gs[n] = e /\ \A k \in P : gs[k] = fs[k]
  BY EventAppended
<1> HIDE DEF gs, n
<1> QED
  BY <1>1 DEF gs, n

\* An event that is not about the part.
LEMMA PartApart ==
  ASSUME NEW fs, IsSequence(fs), NEW e, NEW kind, NEW i, NEW p,
         ~(e.type \in TypesOf(kind) /\ e.index = i /\ e.part = p)
  PROVE  Part(Append(fs, e), kind, i, p) = Part(fs, kind, i, p)
<1> DEFINE gs == Append(fs, e)
           S(f, type) == OfPart(f, type, i, p)
<1>1. ASSUME NEW type \in TypesOf(kind)
      PROVE  S(gs, type) = S(fs, type) /\ S(fs, type) \subseteq 1..Len(fs)
  BY OfPartAppended, PartPositions
<1> HIDE DEF S, gs
<1>2. /\ S(gs, kind.added) = S(fs, kind.added) /\ S(gs, kind.delta) = S(fs, kind.delta)
      /\ S(gs, kind.text) = S(fs, kind.text) /\ S(gs, kind.done) = S(fs, kind.done)
      /\ S(fs, kind.delta) \subseteq 1..Len(fs)
      /\ S(fs, kind.text) \subseteq 1..Len(fs) /\ S(fs, kind.done) \subseteq 1..Len(fs)
  <2>1. {kind.added, kind.delta, kind.text, kind.done} = TypesOf(kind)
    BY DEF TypesOf
  <2> QED
    BY <1>1, <2>1
<1>3. Data(gs, S(fs, kind.delta)) = Data(fs, S(fs, kind.delta))
  BY <1>2, DataStays DEF gs
<1>4. /\ {gs[k].data : k \in S(fs, kind.text)} = {fs[k].data : k \in S(fs, kind.text)}
      /\ {gs[k].data : k \in S(fs, kind.done)} = {fs[k].data : k \in S(fs, kind.done)}
  BY <1>2, CarriedStays DEF gs
<1>5. /\ Data(gs, S(gs, kind.delta)) = Data(fs, S(fs, kind.delta))
      /\ {gs[k].data : k \in S(gs, kind.text)} = {fs[k].data : k \in S(fs, kind.text)}
      /\ {gs[k].data : k \in S(gs, kind.done)} = {fs[k].data : k \in S(fs, kind.done)}
  BY <1>2, <1>3, <1>4, Zenon
<1> QED
  BY <1>2, <1>5, Zenon DEF Part, S, gs

\* An event that is, at position n: how it moves the part x.
Moved(x, y, e, kind, n) ==
  /\ y.added  = IF e.type = kind.added THEN x.added \cup {n} ELSE x.added
  /\ y.deltas = IF e.type = kind.delta THEN x.deltas \cup {n} ELSE x.deltas
  /\ y.texts  = IF e.type = kind.text THEN x.texts \cup {n} ELSE x.texts
  /\ y.closes = IF e.type = kind.done THEN x.closes \cup {n} ELSE x.closes
  /\ y.told   = IF e.type = kind.text THEN x.told \cup {e.data} ELSE x.told
  /\ y.sealed = IF e.type = kind.done THEN x.sealed \cup {e.data} ELSE x.sealed
  /\ e.type # kind.delta => y.said = x.said
  /\ \A k \in x.added \cup x.deltas \cup x.texts \cup x.closes : k < n

LEMMA PartMoves ==
  ASSUME NEW fs, IsSequence(fs), NEW e, NEW kind \in PartKinds, NEW i, NEW p, e.index = i,
         e.part = p
  PROVE  Moved(Part(fs, kind, i, p), Part(Append(fs, e), kind, i, p), e, kind, Len(fs) + 1)
<1> DEFINE gs == Append(fs, e)
           n == Len(fs) + 1
           S(f, type) == OfPart(f, type, i, p)
           C(f, P) == {f[k].data : k \in P}
           x == Part(fs, kind, i, p)
           y == Part(gs, kind, i, p)
<1>1. ASSUME NEW type
      PROVE  /\ S(gs, type) = IF e.type = type THEN S(fs, type) \cup {n} ELSE S(fs, type)
             /\ S(fs, type) \subseteq 1..Len(fs)
  <2>1. S(fs, type) \subseteq 1..Len(fs)
    BY PartPositions
  <2>2. S(gs, type) = IF e.type = type THEN S(fs, type) \cup {n} ELSE S(fs, type)
    BY OfPartAppended
  <2> QED
    BY <2>1, <2>2
<1> HIDE DEF S
<1>2. ASSUME NEW P, P \subseteq 1..Len(fs) PROVE Data(gs, P) = Data(fs, P)
  BY <1>2, DataStays
<1>3. \A P : P \subseteq 1..Len(fs) => /\ C(gs, P) = C(fs, P)
                                      /\ C(gs, P \cup {n}) = C(fs, P) \cup {e.data}
  BY CarriedStays
<1> HIDE DEF C
<1>4. /\ x.added = S(fs, kind.added) /\ x.deltas = S(fs, kind.delta)
      /\ x.texts = S(fs, kind.text) /\ x.closes = S(fs, kind.done)
      /\ x.said = Data(fs, S(fs, kind.delta))
      /\ x.told = C(fs, S(fs, kind.text)) /\ x.sealed = C(fs, S(fs, kind.done))
  BY DEF Part, S, C
<1>5. /\ y.added = S(gs, kind.added) /\ y.deltas = S(gs, kind.delta)
      /\ y.texts = S(gs, kind.text) /\ y.closes = S(gs, kind.done)
      /\ y.said = Data(gs, S(gs, kind.delta))
      /\ y.told = C(gs, S(gs, kind.text)) /\ y.sealed = C(gs, S(gs, kind.done))
  BY DEF Part, S, C
<1> HIDE DEF x, y, gs, n
<1> DEFINE ta == kind.added  td == kind.delta  tt == kind.text  tc == kind.done
<1> HIDE DEF ta, td, tt, tc
<1>6. /\ x.added = S(fs, ta) /\ x.deltas = S(fs, td) /\ x.texts = S(fs, tt) /\ x.closes = S(fs, tc)
      /\ x.said = Data(fs, S(fs, td)) /\ x.told = C(fs, S(fs, tt)) /\ x.sealed = C(fs, S(fs, tc))
      /\ y.added = S(gs, ta) /\ y.deltas = S(gs, td) /\ y.texts = S(gs, tt) /\ y.closes = S(gs, tc)
      /\ y.said = Data(gs, S(gs, td)) /\ y.told = C(gs, S(gs, tt)) /\ y.sealed = C(gs, S(gs, tc))
  BY <1>4, <1>5 DEF ta, td, tt, tc
<1>7. e.type # td => y.said = x.said
  BY ONLY <1>1, <1>2, <1>6
<1>8. /\ y.told = IF e.type = tt THEN x.told \cup {e.data} ELSE x.told
      /\ y.sealed = IF e.type = tc THEN x.sealed \cup {e.data} ELSE x.sealed
  <2>1. C(gs, S(gs, tt)) = IF e.type = tt THEN C(fs, S(fs, tt)) \cup {e.data} ELSE C(fs, S(fs, tt))
    BY ONLY <1>1, <1>3
  <2>2. C(gs, S(gs, tc)) = IF e.type = tc THEN C(fs, S(fs, tc)) \cup {e.data} ELSE C(fs, S(fs, tc))
    BY ONLY <1>1, <1>3
  <2> QED
    BY ONLY <1>6, <2>1, <2>2
<1>9. /\ y.added  = IF e.type = ta THEN x.added \cup {n} ELSE x.added
      /\ y.deltas = IF e.type = td THEN x.deltas \cup {n} ELSE x.deltas
      /\ y.texts  = IF e.type = tt THEN x.texts \cup {n} ELSE x.texts
      /\ y.closes = IF e.type = tc THEN x.closes \cup {n} ELSE x.closes
      /\ x.added \cup x.deltas \cup x.texts \cup x.closes \subseteq 1..Len(fs)
  BY ONLY <1>1, <1>6
<1>10. n = Len(fs) + 1 /\ Len(fs) \in Nat
  BY SequenceLen DEF n
<1>11. \A k \in x.added \cup x.deltas \cup x.texts \cup x.closes : k < n
  BY <1>9, <1>10
<1>12. Moved(x, y, e, kind, n)
  BY <1>7, <1>8, <1>9, <1>11 DEF Moved, ta, td, tt, tc
<1> QED
  BY <1>12 DEF x, y, gs, n

Says(x, y, e) == y.said = x.said \o e.data

LEMMA PartSaid ==
  ASSUME NEW fs, IsSequence(fs), NEW e, NEW kind \in PartKinds, NEW i, NEW p, e.index = i,
         e.part = p,
         e.type = kind.delta
  PROVE  Says(Part(fs, kind, i, p), Part(Append(fs, e), kind, i, p), e)
<1> DEFINE gs == Append(fs, e)
           P == OfPart(fs, kind.delta, i, p)
           Q == OfPart(gs, kind.delta, i, p)
<1>1. P \subseteq 1..Len(fs) /\ IsSequence(fs)
  BY PartPositions
<1>2. Q = P \cup {Len(fs) + 1}
  BY OfPartAppended
<1>3. Part(gs, kind, i, p).said = Data(gs, Q) /\ Part(fs, kind, i, p).said = Data(fs, P)
  BY DEF Part
<1> HIDE DEF P, Q
<1>4. Data(Append(fs, e), P \cup {Len(fs) + 1}) = Data(fs, P) \o e.data
  BY <1>1, DataGrows
<1> QED
  BY <1>2, <1>3, <1>4 DEF Says

\* Parts stay numbered: an event that announces none only adds events.
LEMMA NumbersStay ==
  ASSUME NEW fs, IsSequence(fs), NEW e, NEW kind \in PartKinds, Numbered(fs, kind),
         e.type = kind.added /\ e.part > 0 => OfPart(fs, kind.done, e.index, e.part - 1) # {}
  PROVE  Numbered(Append(fs, e), kind)
<1> DEFINE gs == Append(fs, e)
           n == Len(fs) + 1
           A == At(fs, kind.added)
<1> SUFFICES ASSUME NEW a \in At(gs, kind.added), gs[a].part > 0
             PROVE  OfPart(gs, kind.done, gs[a].index, gs[a].part - 1) # {}
  BY DEF Numbered
<1>1. gs[n] = e /\ \A i \in 1..Len(fs) : gs[i] = fs[i]
  BY EventAppended
<1>2. A \subseteq 1..Len(fs) /\ At(gs, kind.added) = IF e.type = kind.added THEN A \cup {n} ELSE A
  BY AtAppended
<1>3. ASSUME NEW i, NEW p PROVE OfPart(fs, kind.done, i, p) \subseteq OfPart(gs, kind.done, i, p)
  BY OfPartAppended
<1> HIDE DEF gs, n
<1>4. OfPart(fs, kind.done, gs[a].index, gs[a].part - 1) # {}
  <2>1. CASE a \in A
    <3>1. gs[a] = fs[a]
      BY <1>1, <1>2, <2>1
    <3> QED
      BY <2>1, <3>1 DEF Numbered
  <2>2. CASE a \notin A
    <3>1. e.type = kind.added /\ a = n /\ gs[a] = e
      BY <1>1, <1>2, <2>2
    <3> QED
      BY <3>1
  <2> QED
    BY <2>1, <2>2
<1> QED
  BY <1>3, <1>4

\* An event about no part.
LEMMA PartsGoOn ==
  ASSUME NEW fs, IsSequence(fs), NEW k, NEW begun, NEW cur, PartsTold(fs, k, begun, cur),
         NEW e, e.type \notin PartTypes
  PROVE  PartsTold(Append(fs, e), k, begun, cur)
<1> DEFINE gs == Append(fs, e)
<1>1. ASSUME NEW kind \in PartKinds, NEW i, NEW p
      PROVE  Part(gs, kind, i, p) = Part(fs, kind, i, p)
  <2>1. e.type \notin TypesOf(kind)
    BY KindTypes
  <2> QED
    BY <2>1, PartApart
<1>2. ASSUME NEW kind \in PartKinds PROVE Numbered(gs, kind)
  <2>1. e.type # kind.added
    BY KindTypes DEF TypesOf
  <2> QED
    BY <2>1, NumbersStay DEF PartsTold
<1> HIDE DEF gs
<1>3. ASSUME NEW kind \in PartKinds
      PROVE  /\ \A i, p : Stands(Part(gs, kind, i, p), IF i = k THEN cur ELSE NoPart, kind, p)
             /\ \A p : Blank(Part(gs, kind, k, p)) <=> <<kind, p>> \notin begun
  BY <1>1, Zenon DEF PartsTold
<1> QED
  BY <1>2, <1>3 DEF PartsTold, gs

\* What is asked of an event about a part: the part stands as it should.
LEMMA PartStep ==
  ASSUME NEW fs, IsSequence(fs), NEW k, NEW begun, NEW cur, PartsTold(fs, k, begun, cur),
         NEW e, NEW kind \in PartKinds, e.type \in TypesOf(kind), e.index = k,
         e.type = kind.added /\ e.part > 0 => OfPart(fs, kind.done, k, e.part - 1) # {},
         NEW now, cur.stage = "none" \/ IsCurrent(cur, kind, e.part),
         now.stage = "none" \/ IsCurrent(now, kind, e.part),
         Stands(Part(Append(fs, e), kind, k, e.part), now, kind, e.part),
         ~Blank(Part(Append(fs, e), kind, k, e.part))
  PROVE  PartsTold(Append(fs, e), k, begun \cup {<<kind, e.part>>}, now)
<1> DEFINE gs == Append(fs, e)
           q == e.part
<1>1. ASSUME NEW other \in PartKinds, NEW i, NEW p, ~(other = kind /\ i = k /\ p = q)
      PROVE  Part(gs, other, i, p) = Part(fs, other, i, p)
  <2>1. ~(e.type \in TypesOf(other) /\ e.index = i /\ e.part = p)
    BY <1>1, KindTypes
  <2> QED
    BY <2>1, PartApart
<1>2. ASSUME NEW other \in PartKinds PROVE Numbered(gs, other)
  <2>1. e.type = other.added => other = kind
    BY KindTypes DEF TypesOf
  <2>2. e.type = other.added /\ e.part > 0 => OfPart(fs, other.done, e.index, e.part - 1) # {}
    BY <2>1
  <2>3. Numbered(fs, other)
    BY DEF PartsTold
  <2> QED
    BY <2>2, <2>3, NumbersStay
<1>3. /\ Stands(Part(gs, kind, k, q), now, kind, q) /\ ~Blank(Part(gs, kind, k, q))
      /\ cur.stage = "none" \/ IsCurrent(cur, kind, q)
      /\ now.stage = "none" \/ IsCurrent(now, kind, q)
  OBVIOUS
<1> HIDE DEF gs, q
<1>4. ASSUME NEW other \in PartKinds, NEW i, NEW p
      PROVE  Stands(Part(gs, other, i, p), IF i = k THEN now ELSE NoPart, other, p)
  <2>1. CASE other = kind /\ i = k /\ p = q
    BY <1>3, <2>1
  <2>2. CASE ~(other = kind /\ i = k /\ p = q)
    <3>1. /\ Part(gs, other, i, p) = Part(fs, other, i, p)
          /\ Stands(Part(fs, other, i, p), IF i = k THEN cur ELSE NoPart, other, p)
      BY <1>1, <2>2 DEF PartsTold
    <3>2. IsCurrent(IF i = k THEN now ELSE NoPart, other, p) = FALSE
      BY <1>3, <2>2 DEF IsCurrent, NoPart
    <3>3. IsCurrent(IF i = k THEN cur ELSE NoPart, other, p) = FALSE
      BY <1>3, <2>2 DEF IsCurrent, NoPart
    <3> QED
      BY <3>1, <3>2, <3>3, Zenon DEF Stands
  <2> QED
    BY <2>1, <2>2
<1>5. ASSUME NEW other \in PartKinds, NEW p
      PROVE  Blank(Part(gs, other, k, p)) <=> <<other, p>> \notin begun \cup {<<kind, q>>}
  <2>1. CASE other = kind /\ p = q
    BY <1>3, <2>1
  <2>2. CASE ~(other = kind /\ p = q)
    <3>1. /\ Part(gs, other, k, p) = Part(fs, other, k, p)
          /\ Blank(Part(fs, other, k, p)) <=> <<other, p>> \notin begun
      BY <1>1, <2>2 DEF PartsTold
    <3>2. <<other, p>> # <<kind, q>>
      BY <2>2
    <3> QED
      BY <3>1, <3>2
  <2> QED
    BY <2>1, <2>2
<1> QED
  BY <1>2, <1>4, <1>5 DEF PartsTold, gs, q

OpenPart(kind, p, text) == [stage |-> "open", kind |-> kind, part |-> p, text |-> text]
ToldPart(kind, p, text) == [stage |-> "told", kind |-> kind, part |-> p, text |-> text]

LEMMA PartEmpty ==
  ASSUME NEW fs, NEW kind, NEW i, NEW p
  PROVE  LET x == Part(fs, kind, i, p)
         IN (x.texts = {} => x.told = {}) /\ (x.closes = {} => x.sealed = {})
BY DEF Part

\* A part is begun, spelled out and complete.
LEMMA CurrentStands ==
  ASSUME NEW fs, NEW k, NEW begun, NEW cur, PartsTold(fs, k, begun, cur),
         NEW kind \in PartKinds, NEW p
  PROVE  /\ cur.stage = "none" => Blank(Part(fs, kind, k, p)) \/ Complete(Part(fs, kind, k, p))
         /\ \A text : /\ cur = OpenPart(kind, p, text) => Going(Part(fs, kind, k, p), text)
                      /\ cur = ToldPart(kind, p, text) => Spelled(Part(fs, kind, k, p), text)
<1>1. Stands(Part(fs, kind, k, p), cur, kind, p)
  BY DEF PartsTold
<1>2. cur.stage = "none" => ~IsCurrent(cur, kind, p)
  BY DEF IsCurrent
<1>3. ASSUME NEW text
      PROVE  /\ IsCurrent(OpenPart(kind, p, text), kind, p)
             /\ OpenPart(kind, p, text).stage = "open" /\ OpenPart(kind, p, text).text = text
             /\ IsCurrent(ToldPart(kind, p, text), kind, p)
             /\ ToldPart(kind, p, text).stage = "told" /\ ToldPart(kind, p, text).text = text
  BY DEF IsCurrent, OpenPart, ToldPart
<1>4. cur.stage = "none" => Blank(Part(fs, kind, k, p)) \/ Complete(Part(fs, kind, k, p))
  BY <1>1, <1>2 DEF Stands
<1>5. ASSUME NEW text, cur = OpenPart(kind, p, text) PROVE Going(Part(fs, kind, k, p), text)
  <2>1. Stands(Part(fs, kind, k, p), OpenPart(kind, p, text), kind, p)
    BY <1>1, <1>5
  <2> QED
    BY <1>3, <2>1 DEF Stands
<1>6. ASSUME NEW text, cur = ToldPart(kind, p, text) PROVE Spelled(Part(fs, kind, k, p), text)
  <2>1. Stands(Part(fs, kind, k, p), ToldPart(kind, p, text), kind, p)
    BY <1>1, <1>6
  <2> QED
    BY <1>3, <2>1 DEF Stands
<1> QED
  BY <1>4, <1>5, <1>6

LEMMA PartAnnounced ==
  ASSUME NEW fs, IsSequence(fs), NEW k, NEW begun, PartsTold(fs, k, begun, NoPart),
         NEW e, NEW kind \in PartKinds, NEW p, e.type = kind.added, e.index = k, e.part = p,
         <<kind, p>> \notin begun, p > 0 => <<kind, p - 1>> \in begun
  PROVE  PartsTold(Append(fs, e), k, begun \cup {<<kind, p>>}, OpenPart(kind, p, <<>>))
<1> DEFINE n == Len(fs) + 1
           x == Part(fs, kind, k, p)
           y == Part(Append(fs, e), kind, k, p)
           now == OpenPart(kind, p, <<>>)
<1>1. kind.added \in TypesOf(kind) /\ kind.added \notin {kind.delta, kind.text, kind.done}
  BY KindTypes DEF TypesOf
<1>2. /\ y.added = x.added \cup {n} /\ y.deltas = x.deltas /\ y.texts = x.texts
      /\ y.closes = x.closes /\ y.said = x.said
  <2>1. Moved(x, y, e, kind, n)
    BY PartMoves
  <2> HIDE DEF x, y, n
  <2> QED
    BY <1>1, <2>1 DEF Moved
<1>3. Blank(x)
  BY DEF PartsTold
<1>4. p > 0 => OfPart(fs, kind.done, k, p - 1) # {}
  <2> SUFFICES ASSUME p > 0 PROVE OfPart(fs, kind.done, k, p - 1) # {}
    OBVIOUS
  <2> DEFINE z == Part(fs, kind, k, p - 1)
  <2>1. ~Blank(z)
    BY DEF PartsTold
  <2>2. NoPart.stage = "none"
    BY DEF NoPart
  <2>3. Blank(z) \/ Complete(z)
    BY <2>2, CurrentStands
  <2>4. z.closes = OfPart(fs, kind.done, k, p - 1)
    BY DEF Part
  <2> HIDE DEF z
  <2> QED
    BY <2>1, <2>3, <2>4 DEF Complete
<1> HIDE DEF x, y, n
<1>5. Going(y, <<>>) /\ ~Blank(y)
  BY <1>2, <1>3 DEF Blank, Going, Begun
<1>6. NoPart.stage = "none" /\ IsCurrent(now, kind, p) /\ now.stage = "open" /\ now.text = <<>>
  BY DEF NoPart, IsCurrent, OpenPart
<1>7. Stands(y, now, kind, p)
  BY <1>5, <1>6 DEF Stands
<1> HIDE DEF now
<1> QED
  BY <1>1, <1>4, <1>5, <1>6, <1>7, PartStep DEF y, now

LEMMA PartSays ==
  ASSUME NEW fs, IsSequence(fs), NEW k, NEW begun, NEW kind \in PartKinds, NEW p, NEW text,
         PartsTold(fs, k, begun, OpenPart(kind, p, text)),
         NEW e, e.type = kind.delta, e.index = k, e.part = p
  PROVE  PartsTold(Append(fs, e), k, begun, OpenPart(kind, p, text \o e.data))
<1> DEFINE n == Len(fs) + 1
           x == Part(fs, kind, k, p)
           y == Part(Append(fs, e), kind, k, p)
           cur == OpenPart(kind, p, text)
           now == OpenPart(kind, p, text \o e.data)
<1>1. kind.delta \in TypesOf(kind) /\ kind.delta \notin {kind.added, kind.text, kind.done}
  BY KindTypes DEF TypesOf
<1>2. /\ y.added = x.added /\ y.deltas = x.deltas \cup {n} /\ y.texts = x.texts
      /\ y.closes = x.closes /\ y.said = x.said \o e.data /\ \A a \in x.added : a < n
  <2>1. Moved(x, y, e, kind, n)
    BY PartMoves
  <2>2. Says(x, y, e)
    BY PartSaid
  <2> HIDE DEF x, y, n
  <2> QED
    BY <1>1, <2>1, <2>2 DEF Moved, Says
<1>3. Going(x, text)
  BY CurrentStands
<1>4. Blank(x) <=> <<kind, p>> \notin begun
  BY DEF PartsTold
<1>5. \A a \in x.added : a < n
  BY <1>2
<1> HIDE DEF x, y, n
<1>6. Going(y, text \o e.data) /\ ~Blank(y) /\ ~Blank(x)
  BY <1>2, <1>3, <1>5 DEF Blank, Going, Begun
<1>7. /\ IsCurrent(cur, kind, p) /\ IsCurrent(now, kind, p)
      /\ now.stage = "open" /\ now.text = text \o e.data
  BY DEF IsCurrent, OpenPart
<1>8. Stands(y, now, kind, p)
  BY <1>6, <1>7 DEF Stands
<1>9. begun \cup {<<kind, p>>} = begun
  BY <1>4, <1>6
<1> HIDE DEF now, cur
<1>10. PartsTold(Append(fs, e), k, begun \cup {<<kind, p>>}, now)
  BY <1>1, <1>6, <1>7, <1>8, PartStep DEF y, cur
<1> QED
  BY <1>9, <1>10 DEF now

LEMMA PartSpelled ==
  ASSUME NEW fs, IsSequence(fs), NEW k, NEW begun, NEW kind \in PartKinds, NEW p, NEW text,
         PartsTold(fs, k, begun, OpenPart(kind, p, text)),
         NEW e, e.type = kind.text, e.index = k, e.part = p, e.data = text
  PROVE  PartsTold(Append(fs, e), k, begun, ToldPart(kind, p, text))
<1> DEFINE n == Len(fs) + 1
           x == Part(fs, kind, k, p)
           y == Part(Append(fs, e), kind, k, p)
           cur == OpenPart(kind, p, text)
           now == ToldPart(kind, p, text)
<1>1. kind.text \in TypesOf(kind) /\ kind.text \notin {kind.added, kind.delta, kind.done}
  BY KindTypes DEF TypesOf
<1>2. /\ y.added = x.added /\ y.deltas = x.deltas /\ y.texts = x.texts \cup {n}
      /\ y.closes = x.closes /\ y.said = x.said /\ y.told = x.told \cup {text}
      /\ \A a \in x.added \cup x.deltas : a < n
  <2>1. Moved(x, y, e, kind, n)
    BY PartMoves
  <2> HIDE DEF x, y, n
  <2> QED
    BY <1>1, <2>1 DEF Moved
<1>3. Going(x, text) /\ (x.texts = {} => x.told = {})
  BY CurrentStands, PartEmpty
<1>4. Blank(x) <=> <<kind, p>> \notin begun
  BY DEF PartsTold
<1>5. \A a \in x.added \cup x.deltas : a < n
  BY <1>2
<1> HIDE DEF x, y, n
<1>6. PICK a : Begun(x, a)
  BY <1>3 DEF Going
<1>7. Begun(y, a) /\ y.texts = {n} /\ \A j \in y.deltas : j < n
  BY <1>2, <1>3, <1>5, <1>6 DEF Going, Begun
<1>8. Spelled(y, text) /\ ~Blank(y) /\ ~Blank(x)
  BY <1>2, <1>3, <1>6, <1>7 DEF Blank, Going, Begun, Spelled
<1>9. /\ IsCurrent(cur, kind, p) /\ IsCurrent(now, kind, p)
      /\ now.stage = "told" /\ now.text = text
  BY DEF IsCurrent, OpenPart, ToldPart
<1>10. Stands(y, now, kind, p)
  BY <1>8, <1>9 DEF Stands
<1>11. begun \cup {<<kind, p>>} = begun
  BY <1>4, <1>8
<1> HIDE DEF now, cur
<1>12. PartsTold(Append(fs, e), k, begun \cup {<<kind, p>>}, now)
  BY <1>1, <1>8, <1>9, <1>10, PartStep DEF y, cur
<1> QED
  BY <1>11, <1>12 DEF now

LEMMA PartClosed ==
  ASSUME NEW fs, IsSequence(fs), NEW k, NEW begun, NEW kind \in PartKinds, NEW p, NEW text,
         PartsTold(fs, k, begun, ToldPart(kind, p, text)),
         NEW e, e.type = kind.done, e.index = k, e.part = p, e.data = text
  PROVE  PartsTold(Append(fs, e), k, begun, NoPart)
<1> DEFINE n == Len(fs) + 1
           x == Part(fs, kind, k, p)
           y == Part(Append(fs, e), kind, k, p)
           cur == ToldPart(kind, p, text)
<1>1. kind.done \in TypesOf(kind) /\ kind.done \notin {kind.added, kind.delta, kind.text}
  BY KindTypes DEF TypesOf
<1>2. /\ y.added = x.added /\ y.deltas = x.deltas /\ y.texts = x.texts
      /\ y.closes = x.closes \cup {n} /\ y.said = x.said /\ y.told = x.told
      /\ y.sealed = x.sealed \cup {text}
      /\ \A a \in x.added \cup x.texts : a < n
  <2>1. Moved(x, y, e, kind, n)
    BY PartMoves
  <2> HIDE DEF x, y, n
  <2> QED
    BY <1>1, <2>1 DEF Moved
<1>3. Spelled(x, text) /\ (x.closes = {} => x.sealed = {})
  BY CurrentStands, PartEmpty
<1>4. Blank(x) <=> <<kind, p>> \notin begun
  BY DEF PartsTold
<1>5. \A a \in x.added \cup x.texts : a < n
  BY <1>2
<1> HIDE DEF x, y, n
<1>6. PICK a, t : Begun(x, a) /\ x.texts = {t} /\ \A j \in x.deltas : j < t
  BY <1>3 DEF Spelled
<1>7. Begun(y, a) /\ y.texts = {t} /\ y.closes = {n} /\ t < n /\ \A j \in y.deltas : j < t
  BY <1>2, <1>3, <1>5, <1>6 DEF Spelled, Begun
<1>8. y.told = {y.said} /\ y.sealed = {y.said}
  BY <1>2, <1>3 DEF Spelled
<1>9. Complete(y) /\ ~Blank(y) /\ ~Blank(x)
  BY <1>2, <1>6, <1>7, <1>8 DEF Blank, Begun, Complete
<1>10. IsCurrent(cur, kind, p) /\ NoPart.stage = "none" /\ ~IsCurrent(NoPart, kind, p)
  BY DEF IsCurrent, ToldPart, NoPart
<1>11. Stands(y, NoPart, kind, p)
  BY <1>9, <1>10 DEF Stands
<1>12. begun \cup {<<kind, p>>} = begun
  BY <1>4, <1>9
<1> HIDE DEF cur
<1>13. PartsTold(Append(fs, e), k, begun \cup {<<kind, p>>}, NoPart)
  BY <1>1, <1>9, <1>10, <1>11, PartStep DEF y, cur
<1> QED
  BY <1>12, <1>13

\* The item is done: nothing is told yet of the next one.
LEMMA NoPartYet ==
  ASSUME NEW fs, IsSequence(fs), NEW k \in Nat, \A i \in 1..Len(fs) : fs[i].index < k
  PROVE  \A kind, p : Blank(Part(fs, kind, k, p))
<1>1. ASSUME NEW type, NEW p PROVE OfPart(fs, type, k, p) = {}
  <2>1. \A i \in 1..Len(fs) : fs[i].index # k
    OBVIOUS
  <2> QED
    BY <2>1 DEF OfPart, At
<1>2. Data(fs, {}) = <<>>
  BY NoData
<1> SUFFICES ASSUME NEW kind, NEW p PROVE Blank(Part(fs, kind, k, p))
  OBVIOUS
<1>3. /\ OfPart(fs, kind.added, k, p) = {} /\ OfPart(fs, kind.delta, k, p) = {}
      /\ OfPart(fs, kind.text, k, p) = {} /\ OfPart(fs, kind.done, k, p) = {}
  BY <1>1
<1> QED
  BY <1>2, <1>3 DEF Blank, Part

LEMMA PartsOfNext ==
  ASSUME NEW fs, IsSequence(fs), NEW k \in Nat, NEW begun, PartsTold(fs, k, begun, NoPart),
         NEW e, e.type \notin PartTypes, e.index = k, \A i \in 1..Len(fs) : fs[i].index \in 0..k
  PROVE  PartsTold(Append(fs, e), k + 1, {}, NoPart)
<1> DEFINE gs == Append(fs, e)
<1>1. PartsTold(gs, k, begun, NoPart) /\ IsSequence(gs)
  BY PartsGoOn, Appended
<1>2. \A i \in 1..Len(gs) : gs[i].index < k + 1
  <2>1. /\ 1..Len(gs) = 1..Len(fs) \cup {Len(fs) + 1} /\ gs[Len(fs) + 1] = e
        /\ \A i \in 1..Len(fs) : gs[i] = fs[i]
    BY EventAppended
  <2> HIDE DEF gs
  <2> QED
    BY <2>1
<1> HIDE DEF gs
<1>3. ASSUME NEW kind, NEW p PROVE Blank(Part(gs, kind, k + 1, p))
  BY <1>1, <1>2, NoPartYet
<1>4. ASSUME NEW kind \in PartKinds, NEW i, NEW p
      PROVE  Stands(Part(gs, kind, i, p), NoPart, kind, p)
  <2>1. (IF i = k THEN NoPart ELSE NoPart) = NoPart
    OBVIOUS
  <2> QED
    BY <1>1, <2>1, Zenon DEF PartsTold
<1>5. ASSUME NEW i PROVE (IF i = k + 1 THEN NoPart ELSE NoPart) = NoPart
  OBVIOUS
<1>6. ASSUME NEW kind \in PartKinds PROVE Numbered(gs, kind)
  BY <1>1 DEF PartsTold
<1>7. ASSUME NEW kind \in PartKinds, NEW p
      PROVE  Blank(Part(gs, kind, k + 1, p)) <=> <<kind, p>> \notin {}
  BY <1>3
<1> QED
  BY <1>4, <1>5, <1>6, <1>7, Zenon DEF PartsTold, gs

LEMMA NoParts == PartsTold(<<>>, 0, {}, NoPart)
<1>1. IsSequence(<<>>) /\ Len(<<>>) = 0
  BY ShortSequences
<1>2. ASSUME NEW type PROVE At(<<>>, type) = {}
  BY <1>1 DEF At
<1>3. ASSUME NEW type, NEW i, NEW p PROVE OfPart(<<>>, type, i, p) = {}
  BY <1>2 DEF OfPart
<1>4. Data(<<>>, {}) = <<>>
  BY <1>1, NoData
<1>5. ASSUME NEW kind, NEW i, NEW p PROVE Blank(Part(<<>>, kind, i, p))
  BY <1>3, <1>4 DEF Blank, Part
<1>6. ASSUME NEW kind, NEW i, NEW p
      PROVE  Stands(Part(<<>>, kind, i, p), IF i = 0 THEN NoPart ELSE NoPart, kind, p)
  <2>1. ~IsCurrent(IF i = 0 THEN NoPart ELSE NoPart, kind, p)
    BY DEF IsCurrent, NoPart
  <2> QED
    BY <1>5, <2>1 DEF Stands
<1>7. ASSUME NEW kind PROVE Numbered(<<>>, kind)
  BY <1>2 DEF Numbered
<1> QED
  BY <1>5, <1>6, <1>7 DEF PartsTold

---------------------------------------------------------------------------
(* Inputs of tools. *)

\* Of item k the fragments of the input told so far are input, and what was told
\* as the whole input is in `whole'; the items done carry theirs.
ToolTold(fs, k, input, whole, made) ==
  /\ Data(fs, OfItem(fs, ToolDeltas, k)) = input
  /\ \A j \in OfItem(fs, ToolDones, k) : fs[j].data \in whole
  /\ \A d \in ItemsDone(fs) : InputTold(fs, made, d)

LEMMA InputStays ==
  ASSUME NEW made, NEW fs, IsSequence(fs), NEW d \in 1..Len(fs), InputTold(fs, made, d),
         NEW e, e.index # fs[d].index
  PROVE  InputTold(Append(fs, e), made, d)
<1> DEFINE gs == Append(fs, e)
           i == fs[d].index
           P == OfItem(fs, ToolDeltas, i)
           Q == OfItem(fs, ToolDones, i)
<1>1. gs[d] = fs[d] /\ \A k \in 1..Len(fs) : gs[k] = fs[k]
  BY EventAppended
<1>2. P \subseteq 1..Len(fs) /\ Q \subseteq 1..Len(fs)
  BY ItemPositions
<1>3. OfItem(gs, ToolDeltas, i) = P /\ OfItem(gs, ToolDones, i) = Q
  BY OfItemAppended
<1>4. Data(gs, P) = Data(fs, P)
  BY <1>2, DataStays
<1> DEFINE item == fs[d].data
<1>5. /\ \A k \in Q : k < d /\ fs[k].data = item.content
      /\ Q # {} => \E c \in CallOf(item, made) : item.content = WholeInput(item, c)
      /\ MakesUp(Data(fs, P), item, made)
  BY DEF InputTold
<1>6. \A k \in Q : gs[k] = fs[k]
  BY <1>1, <1>2
<1>7. gs[d].index = i /\ gs[d].data = item
  BY <1>1
<1> HIDE DEF P, Q, gs, i, item
<1>8. InputTold(gs, made, d)
  BY <1>3, <1>4, <1>5, <1>6, <1>7 DEF InputTold
<1> QED
  BY <1>8 DEF gs

\* What is kept by every event about item k.
LEMMA InputsStay ==
  ASSUME NEW made, NEW fs, IsSequence(fs), NEW k \in Nat, NEW open, ItemsTold(fs, k, open),
         NEW input, NEW whole, ToolTold(fs, k, input, whole, made), NEW e, e.index = k
  PROVE  \A d \in ItemsDone(fs) : InputTold(Append(fs, e), made, d)
<1> TAKE d \in ItemsDone(fs)
<1>1. d \in 1..Len(fs) /\ fs[d].type = "output_item.done"
  BY DEF ItemsDone, At
<1>2. fs[d].index \in 0..k /\ fs[d].index < k
  BY <1>1, ItemsKnown
<1>3. InputTold(fs, made, d) /\ e.index # fs[d].index
  BY <1>2 DEF ToolTold
<1> QED
  BY <1>1, <1>3, InputStays

LEMMA ToolGoesOn ==
  ASSUME NEW made, NEW fs, IsSequence(fs), NEW k \in Nat, NEW open, ItemsTold(fs, k, open),
         NEW input, NEW whole, ToolTold(fs, k, input, whole, made), NEW e, e.index = k,
         e.type \notin ToolDeltas \cup ToolDones \cup {"output_item.done"}
  PROVE  ToolTold(Append(fs, e), k, input, whole, made)
<1> DEFINE gs == Append(fs, e)
           P == OfItem(fs, ToolDeltas, k)
           Q == OfItem(fs, ToolDones, k)
<1>1. P \subseteq 1..Len(fs) /\ Q \subseteq 1..Len(fs)
  BY ItemPositions
<1>2. OfItem(gs, ToolDeltas, k) = P /\ OfItem(gs, ToolDones, k) = Q
  BY OfItemAppended
<1>3. Data(gs, P) = Data(fs, P)
  BY <1>1, DataStays
<1>4. \A j \in Q : gs[j] = fs[j]
  BY <1>1, EventAppended
<1>5. ItemsDone(gs) = ItemsDone(fs)
  BY AtAppended DEF ItemsDone
<1>6. \A d \in ItemsDone(fs) : InputTold(gs, made, d)
  BY InputsStay
<1>7. Data(fs, P) = input /\ \A j \in Q : fs[j].data \in whole
  BY DEF ToolTold
<1> HIDE DEF P, Q, gs
<1> QED
  BY <1>2, <1>3, <1>4, <1>5, <1>6, <1>7 DEF ToolTold, gs

LEMMA ToolSays ==
  ASSUME NEW made, NEW fs, IsSequence(fs), NEW k \in Nat, NEW open, ItemsTold(fs, k, open),
         NEW input, NEW whole, ToolTold(fs, k, input, whole, made), NEW e, e.index = k,
         e.type \in ToolDeltas
  PROVE  ToolTold(Append(fs, e), k, input \o e.data, whole, made)
<1> DEFINE gs == Append(fs, e)
           P == OfItem(fs, ToolDeltas, k)
           Q == OfItem(fs, ToolDones, k)
<1>1. P \subseteq 1..Len(fs) /\ Q \subseteq 1..Len(fs)
  BY ItemPositions
<1>2. OfItem(gs, ToolDeltas, k) = P \cup {Len(fs) + 1}
  BY OfItemAppended
<1>3. e.type \notin ToolDones /\ e.type # "output_item.done"
  BY DEF ToolDeltas, ToolDones
<1>4. OfItem(gs, ToolDones, k) = Q
  BY <1>3, OfItemAppended
<1>5. Data(gs, P \cup {Len(fs) + 1}) = Data(fs, P) \o e.data
  BY <1>1, DataGrows
<1>6. \A j \in Q : gs[j] = fs[j]
  BY <1>1, EventAppended
<1>7. ItemsDone(gs) = ItemsDone(fs)
  BY <1>3, AtAppended DEF ItemsDone
<1>8. \A d \in ItemsDone(fs) : InputTold(gs, made, d)
  BY InputsStay
<1>9. Data(fs, P) = input /\ \A j \in Q : fs[j].data \in whole
  BY DEF ToolTold
<1> HIDE DEF P, Q, gs
<1> QED
  BY <1>2, <1>4, <1>5, <1>6, <1>7, <1>8, <1>9 DEF ToolTold, gs

LEMMA ToolSpelled ==
  ASSUME NEW made, NEW fs, IsSequence(fs), NEW k \in Nat, NEW open, ItemsTold(fs, k, open),
         NEW input, NEW whole, ToolTold(fs, k, input, whole, made), NEW e, e.index = k,
         e.type \in ToolDones
  PROVE  ToolTold(Append(fs, e), k, input, whole \cup {e.data}, made)
<1> DEFINE gs == Append(fs, e)
           n == Len(fs) + 1
           P == OfItem(fs, ToolDeltas, k)
           Q == OfItem(fs, ToolDones, k)
<1>1. P \subseteq 1..Len(fs) /\ Q \subseteq 1..Len(fs)
  BY ItemPositions
<1>2. OfItem(gs, ToolDones, k) = Q \cup {n}
  BY OfItemAppended
<1>3. e.type \notin ToolDeltas /\ e.type # "output_item.done"
  BY DEF ToolDeltas, ToolDones
<1>4. OfItem(gs, ToolDeltas, k) = P
  BY <1>3, OfItemAppended
<1>5. Data(gs, P) = Data(fs, P)
  BY <1>1, DataStays
<1>6. gs[n] = e /\ \A j \in Q : gs[j] = fs[j]
  BY <1>1, EventAppended
<1>7. ItemsDone(gs) = ItemsDone(fs)
  BY <1>3, AtAppended DEF ItemsDone
<1>8. \A d \in ItemsDone(fs) : InputTold(gs, made, d)
  BY InputsStay
<1>9. Data(fs, P) = input /\ \A j \in Q : fs[j].data \in whole
  BY DEF ToolTold
<1> HIDE DEF P, Q, gs, n
<1>10. \A j \in Q \cup {n} : gs[j].data \in whole \cup {e.data}
  BY <1>6, <1>9
<1> QED
  BY <1>2, <1>4, <1>5, <1>7, <1>8, <1>9, <1>10 DEF ToolTold, gs

\* What an item done says when its fragments are told and `whole' was told as
\* its whole input.
ItemSays(item, told, whole, made) ==
  /\ whole \subseteq {item.content}
  /\ whole # {} => \E c \in CallOf(item, made) : item.content = WholeInput(item, c)
  /\ MakesUp(told, item, made)

LEMMA ToolDone ==
  ASSUME NEW made, NEW fs, IsSequence(fs), NEW k \in Nat, NEW open, ItemsTold(fs, k, open),
         NEW input, NEW whole, ToolTold(fs, k, input, whole, made), NEW e, e.index = k,
         e.type = "output_item.done", ItemSays(e.data, input, whole, made)
  PROVE  ToolTold(Append(fs, e), k + 1, <<>>, {}, made)
<1> DEFINE gs == Append(fs, e)
           n == Len(fs) + 1
           P == OfItem(fs, ToolDeltas, k)
           Q == OfItem(fs, ToolDones, k)
<1>1. /\ P \subseteq 1..Len(fs) /\ Q \subseteq 1..Len(fs)
      /\ \A j \in 1..Len(fs) : j < n
  BY ItemPositions, SequenceLen
<1>2. e.type \notin ToolDeltas /\ e.type \notin ToolDones
  BY DEF ToolDeltas, ToolDones
<1>3. OfItem(gs, ToolDeltas, k) = P /\ OfItem(gs, ToolDones, k) = Q
  BY <1>2, OfItemAppended
<1>4. Data(gs, P) = Data(fs, P)
  BY <1>1, DataStays
<1>5. /\ gs[n] = e /\ \A j \in 1..Len(fs) : gs[j] = fs[j]
      /\ 1..Len(gs) = 1..Len(fs) \cup {n}
  BY EventAppended
<1>6. ItemsDone(gs) = ItemsDone(fs) \cup {n}
  BY AtAppended DEF ItemsDone
<1>7. \A d \in ItemsDone(fs) : InputTold(gs, made, d)
  BY InputsStay
<1>8. Data(fs, P) = input /\ \A j \in Q : fs[j].data \in whole
  BY DEF ToolTold
<1>9. \A j \in 1..Len(fs) : fs[j].index \in 0..k
  BY ItemsKnown
<1> HIDE DEF P, Q, gs, n
<1>10. InputTold(gs, made, n)
  <2>1. gs[n].index = k /\ gs[n].data = e.data
    BY <1>5
  <2>2. \A j \in Q : j < n /\ gs[j].data = e.data.content
    BY <1>1, <1>5, <1>8 DEF ItemSays
  <2>3. Q # {} => \E c \in CallOf(e.data, made) : e.data.content = WholeInput(e.data, c)
    BY <1>8 DEF ItemSays
  <2>4. MakesUp(Data(gs, P), e.data, made)
    BY <1>4, <1>8 DEF ItemSays
  <2> QED
    BY <1>3, <2>1, <2>2, <2>3, <2>4 DEF InputTold
<1>11. ASSUME NEW types PROVE OfItem(gs, types, k + 1) = {}
  <2>1. \A j \in 1..Len(gs) : gs[j].index # k + 1
    BY <1>5, <1>9
  <2> QED
    BY <2>1 DEF OfItem
<1>12. Data(gs, {}) = <<>>
  BY Appended, NoData DEF gs
<1> QED
  BY <1>6, <1>7, <1>10, <1>11, <1>12 DEF ToolTold, gs

---------------------------------------------------------------------------
(* The output, and the content. *)

OutputTold(fs, output) == IsSequence(output) /\ ItemsListed(output, fs)

LEMMA OutputGoesOn ==
  ASSUME NEW fs, IsSequence(fs), NEW output, OutputTold(fs, output),
         NEW e, e.type # "output_item.done"
  PROVE  OutputTold(Append(fs, e), output)
<1> DEFINE gs == Append(fs, e)
           D == ItemsDone(fs)
<1>1. ItemsDone(gs) = D /\ D \subseteq 1..Len(fs)
  BY AtAppended DEF ItemsDone
<1>2. \A d \in D : gs[d] = fs[d]
  BY <1>1, EventAppended
<1>3. /\ IsSequence(output) /\ Len(output) = Cardinality(D)
      /\ \A d \in D : output[Place(D, d)] = fs[d].data
  BY DEF OutputTold, ItemsListed
<1> HIDE DEF D, gs
<1> QED
  BY <1>1, <1>2, <1>3 DEF OutputTold, ItemsListed, gs

LEMMA OutputGrows ==
  ASSUME NEW fs, IsSequence(fs), NEW output, OutputTold(fs, output),
         NEW e, e.type = "output_item.done"
  PROVE  OutputTold(Append(fs, e), Append(output, e.data))
<1> DEFINE gs == Append(fs, e)
           D == ItemsDone(fs)
           n == Len(fs)
           new == Append(output, e.data)
<1>1. ItemsDone(gs) = D \cup {n + 1} /\ D \subseteq 1..n /\ n \in Nat
  BY AtAppended, SequenceLen DEF ItemsDone
<1>2. gs[n + 1] = e /\ \A d \in 1..n : gs[d] = fs[d]
  BY EventAppended
<1>3. /\ IsSequence(output) /\ Len(output) = Cardinality(D)
      /\ \A d \in D : output[Place(D, d)] = fs[d].data
  BY DEF OutputTold, ItemsListed
<1>4. /\ IsSequence(new) /\ Len(new) = Len(output) + 1 /\ new[Len(output) + 1] = e.data
      /\ \A i \in 1..Len(output) : new[i] = output[i]
  BY <1>3, Appended
<1> HIDE DEF D, gs, n, new
<1>5. /\ Cardinality(D \cup {n + 1}) = Cardinality(D) + 1
      /\ Place(D \cup {n + 1}, n + 1) = Cardinality(D) + 1
      /\ \A d \in D : Place(D \cup {n + 1}, d) = Place(D, d)
  BY <1>1, PositionAdded
<1>6. ASSUME NEW d \in D PROVE Place(D, d) \in 1..Cardinality(D)
  <2>1. Place(D, d) \in Nat /\ Place(D, d) <= Cardinality(D)
    BY <1>1, PlaceType
  <2>2. Place(D, d) # 0
    <3> DEFINE S == {j \in D : j <= d}
    <3>1. d \in Nat /\ d <= d
      BY <1>1
    <3>2. IsFiniteSet(D)
      BY <1>1, PositionsFinite
    <3>3. S \in SUBSET D /\ d \in S
      BY <3>1
    <3> HIDE DEF S
    <3>4. IsFiniteSet(S) /\ S # {}
      BY <3>2, <3>3, FS_Subset
    <3>5. Cardinality(S) # 0
      BY <3>4, FS_EmptySet
    <3> QED
      BY <3>5 DEF Place, S
  <2> QED
    BY <1>3, <2>1, <2>2, SequenceLen
<1>7. ASSUME NEW d \in D \cup {n + 1} PROVE new[Place(D \cup {n + 1}, d)] = gs[d].data
  <2>1. CASE d = n + 1
    BY <1>2, <1>3, <1>4, <1>5, <2>1
  <2>2. CASE d # n + 1
    <3>1. d \in D /\ d \in 1..n /\ gs[d] = fs[d]
      BY <1>1, <1>2, <2>2
    <3>2. Place(D \cup {n + 1}, d) = Place(D, d) /\ Place(D, d) \in 1..Len(output)
      BY <1>3, <1>5, <1>6, <3>1
    <3> QED
      BY <1>3, <1>4, <3>1, <3>2
  <2> QED
    BY <2>1, <2>2
<1> QED
  BY <1>1, <1>3, <1>4, <1>5, <1>7 DEF OutputTold, ItemsListed, gs, new

\* The events of one type carry x.
LEMMA DataGoesOn ==
  ASSUME NEW fs, IsSequence(fs), NEW e, NEW type, e.type # type
  PROVE  Data(Append(fs, e), At(Append(fs, e), type)) = Data(fs, At(fs, type))
<1>1. At(Append(fs, e), type) = At(fs, type) /\ At(fs, type) \subseteq 1..Len(fs)
  BY AtAppended
<1>2. Data(Append(fs, e), At(fs, type)) = Data(fs, At(fs, type))
  BY <1>1, DataStays
<1> QED
  BY <1>1, <1>2, Zenon

LEMMA DataGoesOnWith ==
  ASSUME NEW made, NEW fs, IsSequence(fs), NEW e, NEW type, e.type = type
  PROVE  Data(Append(fs, e), At(Append(fs, e), type)) = Data(fs, At(fs, type)) \o e.data
<1> DEFINE P == At(fs, type)
<1>1. At(Append(fs, e), type) = P \cup {Len(fs) + 1} /\ P \subseteq 1..Len(fs)
  BY AtAppended
<1> HIDE DEF P
<1>2. Data(Append(fs, e), P \cup {Len(fs) + 1}) = Data(fs, P) \o e.data
  BY <1>1, DataGrows
<1> QED
  BY <1>1, <1>2 DEF P

---------------------------------------------------------------------------
(* What the events sent tell, and how one more event changes it.           *)

TextTypes == {"output_text.delta", "reasoning_summary_text.delta"}

\* The events fs are about k items done, in output, and the one that is open,
\* if there is one; all of them together carry the text x and the reasoning y.
Told(fs, k, open, begun, cur, input, whole, output, x, y, made) ==
  /\ IsSequence(fs) /\ k \in Nat
  /\ \A i \in 1..Len(fs) : fs[i].sequence_number = i - 1
  /\ ItemsTold(fs, k, open)
  /\ PartsTold(fs, k, begun, cur)
  /\ ToolTold(fs, k, input, whole, made)
  /\ OutputTold(fs, output)
  /\ Data(fs, At(fs, "output_text.delta")) = x
  /\ Data(fs, At(fs, "reasoning_summary_text.delta")) = y

\* The next event, about item k.
IsNext(fs, k, e) == e.sequence_number = Len(fs) /\ e.index = k

LEMMA NothingTold == ASSUME NEW made PROVE Told(<<>>, 0, {}, {}, NoPart, <<>>, {}, <<>>, <<>>, <<>>, made)
<1>1. IsSequence(<<>>) /\ Len(<<>>) = 0
  BY ShortSequences
<1>2. 1..Len(<<>>) = {}
  BY <1>1
<1>3. ASSUME NEW type PROVE At(<<>>, type) = {}
  BY <1>2 DEF At
<1>4. ASSUME NEW types, NEW i PROVE OfItem(<<>>, types, i) = {}
  BY <1>2 DEF OfItem
<1>5. Data(<<>>, {}) = <<>>
  BY <1>1, NoData
<1>6. ItemsTold(<<>>, 0, {})
  <2>1. ItemsAdded(<<>>) = {} /\ ItemsDone(<<>>) = {}
    BY <1>3 DEF ItemsAdded, ItemsDone
  <2>2. ItemsInTurn(<<>>)
    BY <1>2, <2>1 DEF ItemsInTurn
  <2>3. Cardinality({}) = 0 /\ 0 = 0 + 0
    BY FS_EmptySet
  <2> QED
    BY <2>1, <2>2, <2>3 DEF ItemsTold
<1>7. ToolTold(<<>>, 0, <<>>, {}, made)
  BY <1>3, <1>4, <1>5 DEF ToolTold, ItemsDone
<1>8. OutputTold(<<>>, <<>>)
  BY <1>1, <1>3, FS_EmptySet DEF OutputTold, ItemsListed, ItemsDone
<1> QED
  BY <1>1, <1>2, <1>3, <1>5, <1>6, <1>7, <1>8, NoParts DEF Told

LEMMA NumbersGoOn ==
  ASSUME NEW fs, IsSequence(fs), \A i \in 1..Len(fs) : fs[i].sequence_number = i - 1,
         NEW e, e.sequence_number = Len(fs)
  PROVE  /\ IsSequence(Append(fs, e))
         /\ \A i \in 1..Len(Append(fs, e)) : Append(fs, e)[i].sequence_number = i - 1
<1> DEFINE gs == Append(fs, e)
           n == Len(fs)
<1>1. /\ IsSequence(gs) /\ gs[n + 1] = e /\ \A i \in 1..n : gs[i] = fs[i]
      /\ 1..Len(gs) = 1..n \cup {n + 1} /\ n \in Nat /\ e.sequence_number = n
  BY EventAppended, Appended
<1> HIDE DEF gs, n
<1>2. ASSUME NEW i \in 1..Len(gs) PROVE gs[i].sequence_number = i - 1
  <2>1. CASE i = n + 1
    BY <1>1, <2>1
  <2>2. CASE i # n + 1
    BY <1>1, <2>2 DEF n
  <2> QED
    BY <2>1, <2>2
<1> QED
  BY <1>1, <1>2 DEF gs

\* What every event but the one that an item is done keeps.
LEMMA RestGoesOn ==
  ASSUME NEW made, NEW fs, NEW k, NEW open, NEW begun, NEW cur, NEW input, NEW whole, NEW output, NEW x,
         NEW y,
         Told(fs, k, open, begun, cur, input, whole, output, x, y, made),
         NEW e, IsNext(fs, k, e), e.type # "output_item.done"
  PROVE  /\ IsSequence(Append(fs, e))
         /\ \A i \in 1..Len(Append(fs, e)) : Append(fs, e)[i].sequence_number = i - 1
         /\ OutputTold(Append(fs, e), output)
         /\ e.type \notin ToolDeltas \cup ToolDones => ToolTold(Append(fs, e), k, input, whole, made)
         /\ e.type \notin PartTypes => PartsTold(Append(fs, e), k, begun, cur)
         /\ e.type # "output_text.delta" =>
              Data(Append(fs, e), At(Append(fs, e), "output_text.delta")) = x
         /\ e.type # "reasoning_summary_text.delta" =>
              Data(Append(fs, e), At(Append(fs, e), "reasoning_summary_text.delta")) = y
<1>1. /\ IsSequence(fs) /\ k \in Nat /\ \A i \in 1..Len(fs) : fs[i].sequence_number = i - 1
      /\ ItemsTold(fs, k, open) /\ PartsTold(fs, k, begun, cur) /\ ToolTold(fs, k, input, whole, made)
      /\ OutputTold(fs, output) /\ Data(fs, At(fs, "output_text.delta")) = x
      /\ Data(fs, At(fs, "reasoning_summary_text.delta")) = y
      /\ e.sequence_number = Len(fs) /\ e.index = k
  BY DEF Told, IsNext
<1>2. /\ IsSequence(Append(fs, e))
      /\ \A i \in 1..Len(Append(fs, e)) : Append(fs, e)[i].sequence_number = i - 1
  BY <1>1, NumbersGoOn
<1>3. OutputTold(Append(fs, e), output)
  BY <1>1, OutputGoesOn
<1>4. e.type \notin ToolDeltas \cup ToolDones => ToolTold(Append(fs, e), k, input, whole, made)
  BY <1>1, ToolGoesOn
<1>5. e.type \notin PartTypes => PartsTold(Append(fs, e), k, begun, cur)
  BY <1>1, PartsGoOn
<1>6. e.type # "output_text.delta" =>
        Data(Append(fs, e), At(Append(fs, e), "output_text.delta")) = x
  BY <1>1, DataGoesOn
<1>7. e.type # "reasoning_summary_text.delta" =>
        Data(Append(fs, e), At(Append(fs, e), "reasoning_summary_text.delta")) = y
  BY <1>1, DataGoesOn
<1> QED
  BY <1>2, <1>3, <1>4, <1>5, <1>6, <1>7, Zenon

LEMMA TypesApart ==
  /\ PartTypes \cap (ToolDeltas \cup ToolDones \cup AboutResponse) = {}
  /\ AboutResponse \cap (ToolDeltas \cup ToolDones \cup TextTypes) = {}
  /\ ToolDeltas \cap (ToolDones \cup TextTypes) = {} /\ ToolDones \cap TextTypes = {}
  /\ \A type \in {"output_item.added", "output_item.done"} :
       type \notin PartTypes \cup ToolDeltas \cup ToolDones \cup AboutResponse \cup TextTypes
BY DEF PartTypes, TypesOf, TextPart, SummaryPart, ToolDeltas, ToolDones, AboutResponse, TextTypes

\* created, in_progress and the terminal events.
LEMMA ResponseTold ==
  ASSUME NEW made, NEW fs, NEW k, NEW open, NEW begun, NEW cur, NEW input, NEW whole, NEW output, NEW x,
         NEW y,
         Told(fs, k, open, begun, cur, input, whole, output, x, y, made),
         NEW e, IsNext(fs, k, e), e.type \in AboutResponse
  PROVE  Told(Append(fs, e), k, open, begun, cur, input, whole, output, x, y, made)
<1>1. /\ e.type \notin PartTypes \cup ToolDeltas \cup ToolDones \cup TextTypes
      /\ e.type # "output_item.added" /\ e.type # "output_item.done"
  BY TypesApart
<1>2. e.type # "output_text.delta" /\ e.type # "reasoning_summary_text.delta"
  BY <1>1 DEF TextTypes
<1>3. IsSequence(fs) /\ k \in Nat /\ ItemsTold(fs, k, open) /\ e.index = k
  BY DEF Told, IsNext
<1>4. ItemsTold(Append(fs, e), k, open)
  BY <1>1, <1>3, ItemsGoOn
<1>5. /\ IsSequence(Append(fs, e))
      /\ \A i \in 1..Len(Append(fs, e)) : Append(fs, e)[i].sequence_number = i - 1
      /\ OutputTold(Append(fs, e), output)
      /\ ToolTold(Append(fs, e), k, input, whole, made)
      /\ PartsTold(Append(fs, e), k, begun, cur)
      /\ Data(Append(fs, e), At(Append(fs, e), "output_text.delta")) = x
      /\ Data(Append(fs, e), At(Append(fs, e), "reasoning_summary_text.delta")) = y
  BY <1>1, <1>2, RestGoesOn
<1> QED
  BY <1>3, <1>4, <1>5, Zenon DEF Told

\* output_item.added.
LEMMA ItemAddedTold ==
  ASSUME NEW made, NEW fs, NEW k, NEW output, NEW x, NEW y,
         Told(fs, k, {}, {}, NoPart, <<>>, {}, output, x, y, made),
         NEW e, IsNext(fs, k, e), e.type = "output_item.added"
  PROVE  Told(Append(fs, e), k, {e.data}, {}, NoPart, <<>>, {}, output, x, y, made)
<1>1. e.type \notin PartTypes \cup ToolDeltas \cup ToolDones \cup TextTypes
  BY TypesApart
<1>2. /\ e.type # "output_text.delta" /\ e.type # "reasoning_summary_text.delta"
      /\ e.type # "output_item.done"
  BY <1>1 DEF TextTypes
<1>3. IsSequence(fs) /\ k \in Nat /\ ItemsTold(fs, k, {}) /\ e.index = k
  BY DEF Told, IsNext
<1>4. ItemsTold(Append(fs, e), k, {e.data})
  BY <1>3, ItemAnnounced
<1>5. /\ IsSequence(Append(fs, e))
      /\ \A i \in 1..Len(Append(fs, e)) : Append(fs, e)[i].sequence_number = i - 1
      /\ OutputTold(Append(fs, e), output)
      /\ ToolTold(Append(fs, e), k, <<>>, {}, made)
      /\ PartsTold(Append(fs, e), k, {}, NoPart)
      /\ Data(Append(fs, e), At(Append(fs, e), "output_text.delta")) = x
      /\ Data(Append(fs, e), At(Append(fs, e), "reasoning_summary_text.delta")) = y
  BY <1>1, <1>2, RestGoesOn
<1> QED
  BY <1>3, <1>4, <1>5, Zenon DEF Told

\* output_item.done.
LEMMA ItemDoneTold ==
  ASSUME NEW made, NEW fs, NEW k, NEW id, NEW begun, NEW input, NEW whole, NEW output, NEW x, NEW y,
         Told(fs, k, {id}, begun, NoPart, input, whole, output, x, y, made),
         NEW e, IsNext(fs, k, e), e.type = "output_item.done", e.data.id = id,
         ItemSays(e.data, input, whole, made)
  PROVE  Told(Append(fs, e), k + 1, {}, {}, NoPart, <<>>, {}, Append(output, e.data), x, y, made)
<1>1. e.type \notin PartTypes \cup ToolDeltas \cup ToolDones \cup TextTypes
  BY TypesApart
<1>2. e.type # "output_text.delta" /\ e.type # "reasoning_summary_text.delta"
  BY <1>1 DEF TextTypes
<1>3. /\ IsSequence(fs) /\ k \in Nat /\ \A i \in 1..Len(fs) : fs[i].sequence_number = i - 1
      /\ ItemsTold(fs, k, {id}) /\ PartsTold(fs, k, begun, NoPart) /\ ToolTold(fs, k, input, whole, made)
      /\ OutputTold(fs, output) /\ Data(fs, At(fs, "output_text.delta")) = x
      /\ Data(fs, At(fs, "reasoning_summary_text.delta")) = y
      /\ e.sequence_number = Len(fs) /\ e.index = k
  BY DEF Told, IsNext
<1>4. ItemsTold(Append(fs, e), k + 1, {})
  BY <1>3, ItemFinished
<1>5. PartsTold(Append(fs, e), k + 1, {}, NoPart)
  <2>1. \A i \in 1..Len(fs) : fs[i].index \in 0..k
    BY <1>3, ItemsKnown
  <2> QED
    BY <1>1, <1>3, <2>1, PartsOfNext
<1>6. ToolTold(Append(fs, e), k + 1, <<>>, {}, made)
  <2>1. e.index = k /\ e.type = "output_item.done" /\ ItemSays(e.data, input, whole, made)
    BY <1>3
  <2>2. IsSequence(fs) /\ k \in Nat /\ ItemsTold(fs, k, {id}) /\ ToolTold(fs, k, input, whole, made)
    BY <1>3
  <2>3. ASSUME NEW open, ItemsTold(fs, k, open)
        PROVE  ToolTold(Append(fs, e), k + 1, <<>>, {}, made)
    BY <2>1, <2>2, <2>3, ToolDone, Zenon
  <2> QED
    BY <2>2, <2>3, Zenon
<1>7. OutputTold(Append(fs, e), Append(output, e.data))
  BY <1>3, OutputGrows
<1>8. /\ Data(Append(fs, e), At(Append(fs, e), "output_text.delta")) = x
      /\ Data(Append(fs, e), At(Append(fs, e), "reasoning_summary_text.delta")) = y
  BY <1>2, <1>3, DataGoesOn
<1>9. /\ IsSequence(Append(fs, e)) /\ k + 1 \in Nat
      /\ \A i \in 1..Len(Append(fs, e)) : Append(fs, e)[i].sequence_number = i - 1
  <2>1. /\ IsSequence(fs) /\ e.sequence_number = Len(fs)
        /\ \A i \in 1..Len(fs) : fs[i].sequence_number = i - 1
    BY <1>3
  <2>2. k + 1 \in Nat
    BY <1>3
  <2> QED
    BY ONLY <2>1, <2>2, NumbersGoOn
<1> QED
  BY <1>4, <1>5, <1>6, <1>7, <1>8, <1>9, Zenon DEF Told

\* An event about a part: the items, the inputs and the output stay.
LEMMA AboutPart ==
  ASSUME NEW made, NEW fs, NEW k, NEW id, NEW begun, NEW cur, NEW input, NEW whole, NEW output, NEW x, NEW y,
         Told(fs, k, {id}, begun, cur, input, whole, output, x, y, made),
         NEW e, IsNext(fs, k, e), e.type \in PartTypes, NEW begun2, NEW cur2,
         PartsTold(Append(fs, e), k, begun2, cur2)
  PROVE  /\ e.type \notin TextTypes =>
              Told(Append(fs, e), k, {id}, begun2, cur2, input, whole, output, x, y, made)
         /\ e.type = "output_text.delta" =>
              Told(Append(fs, e), k, {id}, begun2, cur2, input, whole, output, x \o e.data, y, made)
         /\ e.type = "reasoning_summary_text.delta" =>
              Told(Append(fs, e), k, {id}, begun2, cur2, input, whole, output, x, y \o e.data, made)
<1> DEFINE gs == Append(fs, e)
<1>1. /\ e.type \notin ToolDeltas \cup ToolDones
      /\ e.type # "output_item.added" /\ e.type # "output_item.done"
  BY TypesApart
<1>2. /\ IsSequence(fs) /\ k \in Nat /\ ItemsTold(fs, k, {id}) /\ e.index = k
      /\ Data(fs, At(fs, "output_text.delta")) = x
      /\ Data(fs, At(fs, "reasoning_summary_text.delta")) = y
  BY DEF Told, IsNext
<1>3. ItemsTold(gs, k, {id})
  BY <1>1, <1>2, ItemsGoOn, FS_Singleton
<1>4. /\ IsSequence(gs)
      /\ \A i \in 1..Len(gs) : gs[i].sequence_number = i - 1
      /\ OutputTold(gs, output)
      /\ ToolTold(gs, k, input, whole, made)
      /\ e.type # "output_text.delta" => Data(gs, At(gs, "output_text.delta")) = x
      /\ e.type # "reasoning_summary_text.delta" =>
           Data(gs, At(gs, "reasoning_summary_text.delta")) = y
  BY <1>1, RestGoesOn
<1>5. e.type = "output_text.delta" => Data(gs, At(gs, "output_text.delta")) = x \o e.data
  <2> SUFFICES ASSUME e.type = "output_text.delta"
               PROVE  Data(gs, At(gs, "output_text.delta")) = x \o e.data
    OBVIOUS
  <2>1. Data(gs, At(gs, "output_text.delta")) = Data(fs, At(fs, "output_text.delta")) \o e.data
    BY <1>2, DataGoesOnWith
  <2> QED
    BY <1>2, <2>1
<1>6. e.type = "reasoning_summary_text.delta" =>
        Data(gs, At(gs, "reasoning_summary_text.delta")) = y \o e.data
  <2> SUFFICES ASSUME e.type = "reasoning_summary_text.delta"
               PROVE  Data(gs, At(gs, "reasoning_summary_text.delta")) = y \o e.data
    OBVIOUS
  <2>1. Data(gs, At(gs, "reasoning_summary_text.delta")) =
          Data(fs, At(fs, "reasoning_summary_text.delta")) \o e.data
    BY <1>2, DataGoesOnWith
  <2> QED
    BY <1>2, <2>1
<1>7. PartsTold(gs, k, begun2, cur2)
  OBVIOUS
<1> HIDE DEF gs
<1>8. e.type \notin TextTypes =>
        e.type # "output_text.delta" /\ e.type # "reasoning_summary_text.delta"
  BY DEF TextTypes
<1>9. "output_text.delta" # "reasoning_summary_text.delta"
  OBVIOUS
<1>10. ASSUME NEW v, NEW w, Data(gs, At(gs, "output_text.delta")) = v,
              Data(gs, At(gs, "reasoning_summary_text.delta")) = w
       PROVE  Told(gs, k, {id}, begun2, cur2, input, whole, output, v, w, made)
  BY <1>2, <1>3, <1>4, <1>7, <1>10, Zenon DEF Told
<1> QED
  BY <1>4, <1>5, <1>6, <1>8, <1>9, <1>10 DEF gs

\* A fragment of a tool's input, and the whole of it.
LEMMA InputDeltaTold ==
  ASSUME NEW made, NEW fs, NEW k, NEW id, NEW begun, NEW cur, NEW input, NEW whole, NEW output, NEW x, NEW y,
         Told(fs, k, {id}, begun, cur, input, whole, output, x, y, made),
         NEW e, IsNext(fs, k, e), e.type \in ToolDeltas
  PROVE  Told(Append(fs, e), k, {id}, begun, cur, input \o e.data, whole, output, x, y, made)
<1>1. /\ e.type \notin PartTypes \cup TextTypes
      /\ e.type # "output_item.added" /\ e.type # "output_item.done"
  BY TypesApart
<1>2. e.type # "output_text.delta" /\ e.type # "reasoning_summary_text.delta"
  BY <1>1 DEF TextTypes
<1>3. /\ IsSequence(fs) /\ k \in Nat /\ ItemsTold(fs, k, {id}) /\ e.index = k
      /\ ToolTold(fs, k, input, whole, made)
  BY DEF Told, IsNext
<1>4. ItemsTold(Append(fs, e), k, {id})
  BY <1>1, <1>3, ItemsGoOn, FS_Singleton
<1>5. /\ IsSequence(Append(fs, e))
      /\ \A i \in 1..Len(Append(fs, e)) : Append(fs, e)[i].sequence_number = i - 1
      /\ OutputTold(Append(fs, e), output)
      /\ PartsTold(Append(fs, e), k, begun, cur)
      /\ Data(Append(fs, e), At(Append(fs, e), "output_text.delta")) = x
      /\ Data(Append(fs, e), At(Append(fs, e), "reasoning_summary_text.delta")) = y
  BY <1>1, <1>2, RestGoesOn
<1>6. ToolTold(Append(fs, e), k, input \o e.data, whole, made)
  BY <1>3, ToolSays
<1> QED
  BY <1>3, <1>4, <1>5, <1>6, Zenon DEF Told

LEMMA InputDoneTold ==
  ASSUME NEW made, NEW fs, NEW k, NEW id, NEW begun, NEW cur, NEW input, NEW whole, NEW output, NEW x, NEW y,
         Told(fs, k, {id}, begun, cur, input, whole, output, x, y, made),
         NEW e, IsNext(fs, k, e), e.type \in ToolDones
  PROVE  Told(Append(fs, e), k, {id}, begun, cur, input, whole \cup {e.data}, output, x, y, made)
<1>1. /\ e.type \notin PartTypes \cup TextTypes
      /\ e.type # "output_item.added" /\ e.type # "output_item.done"
  BY TypesApart
<1>2. e.type # "output_text.delta" /\ e.type # "reasoning_summary_text.delta"
  BY <1>1 DEF TextTypes
<1>3. /\ IsSequence(fs) /\ k \in Nat /\ ItemsTold(fs, k, {id}) /\ e.index = k
      /\ ToolTold(fs, k, input, whole, made)
  BY DEF Told, IsNext
<1>4. ItemsTold(Append(fs, e), k, {id})
  BY <1>1, <1>3, ItemsGoOn, FS_Singleton
<1>5. /\ IsSequence(Append(fs, e))
      /\ \A i \in 1..Len(Append(fs, e)) : Append(fs, e)[i].sequence_number = i - 1
      /\ OutputTold(Append(fs, e), output)
      /\ PartsTold(Append(fs, e), k, begun, cur)
      /\ Data(Append(fs, e), At(Append(fs, e), "output_text.delta")) = x
      /\ Data(Append(fs, e), At(Append(fs, e), "reasoning_summary_text.delta")) = y
  BY <1>1, <1>2, RestGoesOn
<1>6. ToolTold(Append(fs, e), k, input, whole \cup {e.data}, made)
  BY <1>3, ToolSpelled
<1> QED
  BY <1>3, <1>4, <1>5, <1>6, Zenon DEF Told

---------------------------------------------------------------------------
(* The record.                                                             *)

\* What the events of r tell.
Tells(r, open, begun, cur, input, whole, x, y, made) ==
  /\ IsResponsesOut(r) /\ r.seq = Len(r.frames)
  /\ Told(r.frames, r.outputIndex, open, begun, cur, input, whole, r.output, x, y, made)

\* The fields that sending an event leaves alone.
Same(r, s) ==
  /\ s.open = r.open /\ s.outputIndex = r.outputIndex /\ s.output = r.output
  /\ s.terminated = r.terminated /\ s.failed = r.failed

EventOf(r, type, part, data) ==
  [sequence_number |-> r.seq, type |-> type, index |-> r.outputIndex, part |-> part, data |-> data]

Sends(r, s, e) ==
  /\ IsResponsesOut(s) /\ s.frames = Append(r.frames, e) /\ s.seq = Len(s.frames)
  /\ IsNext(r.frames, r.outputIndex, e)

LEMMA EmitSends ==
  ASSUME NEW r, IsResponsesOut(r), r.seq = Len(r.frames), NEW type, NEW part, NEW data
  PROVE  /\ Sends(r, Emit(r, type, part, data), EventOf(r, type, part, data))
         /\ Same(r, Emit(r, type, part, data))
<1> DEFINE s == Emit(r, type, part, data)
           e == EventOf(r, type, part, data)
           h == r.frames
<1>1. /\ s = [x \in ResponsesFields |-> s[x]]
      /\ s.seq = r.seq + 1 /\ s.frames = Append(h, e) /\ s.open = r.open
      /\ s.terminated = r.terminated /\ s.failed = r.failed
      /\ s.outputIndex = r.outputIndex /\ s.output = r.output
  BY DEF IsResponsesOut, ResponsesFields, Emit, EventOf
<1>2. IsNext(h, r.outputIndex, e)
  BY DEF IsNext, EventOf
<1> HIDE DEF s, e
<1>3. IsSequence(h) /\ r.seq \in Nat
  BY DEF IsResponsesOut
<1> HIDE DEF h
<1>4. IsSequence(Append(h, e)) /\ Len(Append(h, e)) = Len(h) + 1
  BY <1>3, Appended
<1>5. IsResponsesOut(s)
  <2>1. IsSequence(s.frames)
    BY <1>1, <1>4, Zenon
  <2>2. /\ s.open = NoItem \/ IsItem(s.open)
        /\ s.terminated \in BOOLEAN /\ s.failed \in BOOLEAN /\ s.seq \in Nat
    BY <1>1, <1>3 DEF IsResponsesOut
  <2> QED
    BY <1>1, <2>1, <2>2 DEF IsResponsesOut
<1>6. s.seq = Len(s.frames)
  BY <1>1, <1>4 DEF h
<1> QED
  BY <1>1, <1>2, <1>5, <1>6 DEF Sends, Same, s, e, h

LEMMA EventFields ==
  ASSUME NEW r, NEW type, NEW part, NEW data
  PROVE  LET e == EventOf(r, type, part, data)
         IN e.type = type /\ e.part = part /\ e.data = data /\ e.index = r.outputIndex
BY DEF EventOf

\* What a record tells after it was sent an event.
LEMMA TellsSent ==
  ASSUME NEW made, NEW r, NEW s, NEW e, Sends(r, s, e), Same(r, s),
         NEW open, NEW begun, NEW cur, NEW input, NEW whole, NEW x, NEW y,
         Told(Append(r.frames, e), r.outputIndex, open, begun, cur, input, whole, r.output, x, y, made)
  PROVE  Tells(s, open, begun, cur, input, whole, x, y, made)
BY DEF Sends, Same, Tells

LEMMA TellsQuietly ==
  ASSUME NEW made, NEW r, NEW s, IsResponsesOut(s),
         s.frames = r.frames, s.seq = r.seq, s.outputIndex = r.outputIndex, s.output = r.output,
         NEW open, NEW begun, NEW cur, NEW input, NEW whole, NEW x, NEW y,
         Tells(r, open, begun, cur, input, whole, x, y, made)
  PROVE  Tells(s, open, begun, cur, input, whole, x, y, made)
BY DEF Tells

LEMMA EmitAboutResponse ==
  ASSUME NEW made, NEW r, NEW open, NEW begun, NEW cur, NEW input, NEW whole, NEW x, NEW y,
         Tells(r, open, begun, cur, input, whole, x, y, made),
         NEW type \in AboutResponse, NEW part, NEW data
  PROVE  /\ Tells(Emit(r, type, part, data), open, begun, cur, input, whole, x, y, made)
         /\ Same(r, Emit(r, type, part, data))
<1> DEFINE s == Emit(r, type, part, data)
           e == EventOf(r, type, part, data)
<1>1. Sends(r, s, e) /\ Same(r, s)
  BY EmitSends DEF Tells
<1>2. e.type \in AboutResponse
  BY EventFields
<1> HIDE DEF s, e
<1>3. /\ Told(r.frames, r.outputIndex, open, begun, cur, input, whole, r.output, x, y, made)
      /\ IsNext(r.frames, r.outputIndex, e)
  BY <1>1 DEF Tells, Sends
<1>4. Told(Append(r.frames, e), r.outputIndex, open, begun, cur, input, whole, r.output, x, y, made)
  BY <1>2, <1>3, ResponseTold
<1> QED
  BY <1>1, <1>4, TellsSent DEF s

LEMMA EmitItemAdded ==
  ASSUME NEW made, NEW r, NEW x, NEW y, Tells(r, {}, {}, NoPart, <<>>, {}, x, y, made), NEW part, NEW id
  PROVE  /\ Tells(Emit(r, "output_item.added", part, id), {id}, {}, NoPart, <<>>, {}, x, y, made)
         /\ Same(r, Emit(r, "output_item.added", part, id))
<1> DEFINE s == Emit(r, "output_item.added", part, id)
           e == EventOf(r, "output_item.added", part, id)
<1>1. Sends(r, s, e) /\ Same(r, s)
  BY EmitSends DEF Tells
<1>2. e.type = "output_item.added" /\ e.data = id
  BY EventFields
<1> HIDE DEF s, e
<1>3. /\ Told(r.frames, r.outputIndex, {}, {}, NoPart, <<>>, {}, r.output, x, y, made)
      /\ IsNext(r.frames, r.outputIndex, e)
  BY <1>1 DEF Tells, Sends
<1>4. Told(Append(r.frames, e), r.outputIndex, {e.data}, {}, NoPart, <<>>, {}, r.output, x, y, made)
  BY <1>2, <1>3, ItemAddedTold
<1>5. Told(Append(r.frames, e), r.outputIndex, {id}, {}, NoPart, <<>>, {}, r.output, x, y, made)
  BY <1>2, <1>4
<1> QED
  BY <1>1, <1>5, TellsSent DEF s

\* Parts.
LEMMA EmitPartAdded ==
  ASSUME NEW made, NEW r, NEW id, NEW begun, NEW input, NEW whole, NEW x, NEW y,
         Tells(r, {id}, begun, NoPart, input, whole, x, y, made),
         NEW kind \in PartKinds, NEW p, NEW data,
         <<kind, p>> \notin begun, p > 0 => <<kind, p - 1>> \in begun
  PROVE  /\ Tells(Emit(r, kind.added, p, data), {id}, begun \cup {<<kind, p>>},
                  OpenPart(kind, p, <<>>), input, whole, x, y, made)
         /\ Same(r, Emit(r, kind.added, p, data))
<1> DEFINE type == kind.added
           s == Emit(r, type, p, data)
           e == EventOf(r, type, p, data)
           fs == r.frames
           k == r.outputIndex
           begun2 == begun \cup {<<kind, p>>}
           cur2 == OpenPart(kind, p, <<>>)
<1>1. Sends(r, s, e) /\ Same(r, s)
  BY EmitSends DEF Tells
<1>2. e.type = kind.added /\ e.part = p /\ e.index = k
  BY EventFields
<1> HIDE DEF s, e
<1>3. Told(fs, k, {id}, begun, NoPart, input, whole, r.output, x, y, made) /\ IsNext(fs, k, e)
  BY <1>1 DEF Tells, Sends
<1>4. IsSequence(fs) /\ PartsTold(fs, k, begun, NoPart)
  BY <1>3 DEF Told
<1>5. e.type \in PartTypes /\ e.type \notin TextTypes
  BY <1>2, KindTypes DEF TypesOf, PartKinds, TextPart, SummaryPart, TextTypes
<1> HIDE DEF fs, k
<1>6. PartsTold(Append(fs, e), k, begun2, cur2)
  BY <1>2, <1>4, PartAnnounced
<1> HIDE DEF begun2, cur2
<1>7. Told(Append(fs, e), k, {id}, begun2, cur2, input, whole, r.output, x, y, made)
  BY <1>3, <1>5, <1>6, AboutPart
<1>8. Tells(s, {id}, begun2, cur2, input, whole, x, y, made)
  BY <1>1, <1>7, TellsSent DEF fs, k
<1> QED
  BY <1>1, <1>8 DEF s, begun2, cur2

LEMMA EmitText ==
  ASSUME NEW made, NEW r, NEW id, NEW begun, NEW p, NEW text, NEW input, NEW whole, NEW x, NEW y,
         Tells(r, {id}, begun, OpenPart(TextPart, p, text), input, whole, x, y, made), NEW data
  PROVE  /\ Tells(Emit(r, "output_text.delta", p, data), {id}, begun,
                  OpenPart(TextPart, p, text \o data), input, whole, x \o data, y, made)
         /\ Same(r, Emit(r, "output_text.delta", p, data))
<1> DEFINE s == Emit(r, "output_text.delta", p, data)
           e == EventOf(r, "output_text.delta", p, data)
           fs == r.frames
           k == r.outputIndex
           cur == OpenPart(TextPart, p, text)
           cur2 == OpenPart(TextPart, p, text \o data)
<1>1. Sends(r, s, e) /\ Same(r, s)
  BY EmitSends DEF Tells
<1>2. e.type = "output_text.delta" /\ e.part = p /\ e.index = k /\ e.data = data
  BY EventFields
<1>3. TextPart \in PartKinds /\ TextPart.delta = "output_text.delta"
  BY DEF PartKinds, TextPart
<1> HIDE DEF s, e
<1>4. Told(fs, k, {id}, begun, cur, input, whole, r.output, x, y, made) /\ IsNext(fs, k, e)
  BY <1>1 DEF Tells, Sends
<1>5. IsSequence(fs) /\ PartsTold(fs, k, begun, cur)
  BY <1>4 DEF Told
<1>6. e.type \in PartTypes
  BY <1>2, <1>3, KindTypes DEF TypesOf
<1> HIDE DEF fs, k
<1>7. PartsTold(Append(fs, e), k, begun, OpenPart(TextPart, p, text \o e.data))
  BY <1>2, <1>3, <1>5, PartSays
<1>8. PartsTold(Append(fs, e), k, begun, cur2)
  BY <1>2, <1>7
<1> HIDE DEF cur, cur2
<1>9. Told(Append(fs, e), k, {id}, begun, cur2, input, whole, r.output, x \o e.data, y, made)
  BY <1>2, <1>4, <1>6, <1>8, AboutPart
<1>10. Told(Append(fs, e), k, {id}, begun, cur2, input, whole, r.output, x \o data, y, made)
  BY <1>2, <1>9
<1>11. Tells(s, {id}, begun, cur2, input, whole, x \o data, y, made)
  BY <1>1, <1>10, TellsSent DEF fs, k
<1> QED
  BY <1>1, <1>11 DEF s, cur2

LEMMA EmitReasoning ==
  ASSUME NEW made, NEW r, NEW id, NEW begun, NEW p, NEW text, NEW input, NEW whole, NEW x, NEW y,
         Tells(r, {id}, begun, OpenPart(SummaryPart, p, text), input, whole, x, y, made), NEW data
  PROVE  /\ Tells(Emit(r, "reasoning_summary_text.delta", p, data), {id}, begun,
                  OpenPart(SummaryPart, p, text \o data), input, whole, x, y \o data, made)
         /\ Same(r, Emit(r, "reasoning_summary_text.delta", p, data))
<1> DEFINE s == Emit(r, "reasoning_summary_text.delta", p, data)
           e == EventOf(r, "reasoning_summary_text.delta", p, data)
           fs == r.frames
           k == r.outputIndex
           cur == OpenPart(SummaryPart, p, text)
           cur2 == OpenPart(SummaryPart, p, text \o data)
<1>1. Sends(r, s, e) /\ Same(r, s)
  BY EmitSends DEF Tells
<1>2. e.type = "reasoning_summary_text.delta" /\ e.part = p /\ e.index = k /\ e.data = data
  BY EventFields
<1>3. SummaryPart \in PartKinds /\ SummaryPart.delta = "reasoning_summary_text.delta"
  BY DEF PartKinds, SummaryPart
<1> HIDE DEF s, e
<1>4. Told(fs, k, {id}, begun, cur, input, whole, r.output, x, y, made) /\ IsNext(fs, k, e)
  BY <1>1 DEF Tells, Sends
<1>5. IsSequence(fs) /\ PartsTold(fs, k, begun, cur)
  BY <1>4 DEF Told
<1>6. e.type \in PartTypes
  BY <1>2, <1>3, KindTypes DEF TypesOf
<1> HIDE DEF fs, k
<1>7. PartsTold(Append(fs, e), k, begun, OpenPart(SummaryPart, p, text \o e.data))
  BY <1>2, <1>3, <1>5, PartSays
<1>8. PartsTold(Append(fs, e), k, begun, cur2)
  BY <1>2, <1>7
<1> HIDE DEF cur, cur2
<1>9. Told(Append(fs, e), k, {id}, begun, cur2, input, whole, r.output, x, y \o e.data, made)
  BY <1>2, <1>4, <1>6, <1>8, AboutPart
<1>10. Told(Append(fs, e), k, {id}, begun, cur2, input, whole, r.output, x, y \o data, made)
  BY <1>2, <1>9
<1>11. Tells(s, {id}, begun, cur2, input, whole, x, y \o data, made)
  BY <1>1, <1>10, TellsSent DEF fs, k
<1> QED
  BY <1>1, <1>11 DEF s, cur2

LEMMA EmitPartText ==
  ASSUME NEW made, NEW r, NEW id, NEW begun, NEW kind \in PartKinds, NEW p, NEW text,
         NEW input, NEW whole, NEW x, NEW y,
         Tells(r, {id}, begun, OpenPart(kind, p, text), input, whole, x, y, made)
  PROVE  /\ Tells(Emit(r, kind.text, p, text), {id}, begun, ToldPart(kind, p, text), input, whole, x, y, made)
         /\ Same(r, Emit(r, kind.text, p, text))
<1> DEFINE s == Emit(r, kind.text, p, text)
           e == EventOf(r, kind.text, p, text)
           fs == r.frames
           k == r.outputIndex
           cur == OpenPart(kind, p, text)
           cur2 == ToldPart(kind, p, text)
<1>1. Sends(r, s, e) /\ Same(r, s)
  BY EmitSends DEF Tells
<1>2. e.type = kind.text /\ e.part = p /\ e.index = k /\ e.data = text
  BY EventFields
<1> HIDE DEF s, e
<1>3. Told(fs, k, {id}, begun, cur, input, whole, r.output, x, y, made) /\ IsNext(fs, k, e)
  BY <1>1 DEF Tells, Sends
<1>4. IsSequence(fs) /\ PartsTold(fs, k, begun, cur)
  BY <1>3 DEF Told
<1>5. e.type \in PartTypes /\ e.type \notin TextTypes
  BY <1>2, KindTypes DEF TypesOf, PartKinds, TextPart, SummaryPart, TextTypes
<1> HIDE DEF fs, k
<1>6. PartsTold(Append(fs, e), k, begun, cur2)
  BY <1>2, <1>4, PartSpelled
<1> HIDE DEF cur, cur2
<1>7. Told(Append(fs, e), k, {id}, begun, cur2, input, whole, r.output, x, y, made)
  BY <1>3, <1>5, <1>6, AboutPart
<1>8. Tells(s, {id}, begun, cur2, input, whole, x, y, made)
  BY <1>1, <1>7, TellsSent DEF fs, k
<1> QED
  BY <1>1, <1>8 DEF s, cur2

LEMMA EmitPartDone ==
  ASSUME NEW made, NEW r, NEW id, NEW begun, NEW kind \in PartKinds, NEW p, NEW text,
         NEW input, NEW whole, NEW x, NEW y,
         Tells(r, {id}, begun, ToldPart(kind, p, text), input, whole, x, y, made)
  PROVE  /\ Tells(Emit(r, kind.done, p, text), {id}, begun, NoPart, input, whole, x, y, made)
         /\ Same(r, Emit(r, kind.done, p, text))
<1> DEFINE s == Emit(r, kind.done, p, text)
           e == EventOf(r, kind.done, p, text)
           fs == r.frames
           k == r.outputIndex
           cur == ToldPart(kind, p, text)
<1>1. Sends(r, s, e) /\ Same(r, s)
  BY EmitSends DEF Tells
<1>2. e.type = kind.done /\ e.part = p /\ e.index = k /\ e.data = text
  BY EventFields
<1> HIDE DEF s, e
<1>3. Told(fs, k, {id}, begun, cur, input, whole, r.output, x, y, made) /\ IsNext(fs, k, e)
  BY <1>1 DEF Tells, Sends
<1>4. IsSequence(fs) /\ PartsTold(fs, k, begun, cur)
  BY <1>3 DEF Told
<1>5. e.type \in PartTypes /\ e.type \notin TextTypes
  BY <1>2, KindTypes DEF TypesOf, PartKinds, TextPart, SummaryPart, TextTypes
<1> HIDE DEF fs, k
<1>6. PartsTold(Append(fs, e), k, begun, NoPart)
  BY <1>2, <1>4, PartClosed
<1> HIDE DEF cur
<1>7. Told(Append(fs, e), k, {id}, begun, NoPart, input, whole, r.output, x, y, made)
  BY <1>3, <1>5, <1>6, AboutPart
<1>8. Tells(s, {id}, begun, NoPart, input, whole, x, y, made)
  BY <1>1, <1>7, TellsSent DEF fs, k
<1> QED
  BY <1>1, <1>8 DEF s

\* The whole input of a tool.
LEMMA EmitToolDone ==
  ASSUME NEW made, NEW r, NEW id, NEW begun, NEW cur, NEW input, NEW whole, NEW x, NEW y,
         Tells(r, {id}, begun, cur, input, whole, x, y, made), NEW type \in ToolDones, NEW part, NEW data
  PROVE  /\ Tells(Emit(r, type, part, data), {id}, begun, cur, input, whole \cup {data}, x, y, made)
         /\ Same(r, Emit(r, type, part, data))
<1> DEFINE s == Emit(r, type, part, data)
           e == EventOf(r, type, part, data)
<1>1. Sends(r, s, e) /\ Same(r, s)
  BY EmitSends DEF Tells
<1>2. e.type \in ToolDones /\ e.data = data
  BY EventFields
<1> HIDE DEF s, e
<1>3. /\ Told(r.frames, r.outputIndex, {id}, begun, cur, input, whole, r.output, x, y, made)
      /\ IsNext(r.frames, r.outputIndex, e)
  BY <1>1 DEF Tells, Sends
<1>4. Told(Append(r.frames, e), r.outputIndex, {id}, begun, cur, input, whole \cup {e.data}, r.output, x, y, made)
  BY <1>2, <1>3, InputDoneTold
<1>5. Told(Append(r.frames, e), r.outputIndex, {id}, begun, cur, input, whole \cup {data}, r.output, x, y, made)
  BY <1>2, <1>4
<1> QED
  BY <1>1, <1>5, TellsSent DEF s

LEMMA PrefixGrows ==
  ASSUME NEW g, IsSequence(g), NEW m \in Nat, m + 1 <= Len(g)
  PROVE  SubSeq(g, 1, m + 1) = Append(SubSeq(g, 1, m), g[m + 1])
<1> DEFINE u == SubSeq(g, 1, m)
           v == SubSeq(g, m + 1, m + 1)
           x == g[m + 1]
<1>1. u \o v = SubSeq(g, 1, m + 1)
  BY Pieces
<1>2. /\ m \in Int /\ m + 1 \in Int /\ m + 1 <= m + 1 /\ (m + 1) - (m + 1) + 1 = 1
      /\ 1 \in 1..((m + 1) - (m + 1) + 1) /\ (m + 1) + 1 - 1 = m + 1
  OBVIOUS
<1>3. IsSequence(u)
  BY <1>2, SubSequence
<1>4. IsSequence(v)
  BY <1>2, SubSequence
<1>5. v = <<x>>
  <2>1. Len(v) = 1
    BY <1>2, SubSequence
  <2>2. \A i \in 1..((m + 1) - (m + 1) + 1) : v[i] = g[(m + 1) + i - 1]
    BY <1>2, SubSequence
  <2>3. v[1] = x
    BY <1>2, <2>2
  <2> HIDE DEF v, x
  <2> QED
    BY <1>4, <2>1, <2>3 DEF IsSequence
<1> HIDE DEF u, x
<1>6. Append(u, x) = u \o <<x>>
  BY <1>3, AppendIs
<1> QED
  BY <1>1, <1>5, <1>6 DEF u, x

LEMMA AppendAfter ==
  ASSUME NEW s, NEW t, IsSequence(s), IsSequence(t), NEW x
  PROVE  s \o Append(t, x) = Append(s \o t, x)
<1>1. Append(t, x) = t \o <<x>> /\ IsSequence(<<x>>) /\ IsSequence(s \o t)
  BY AppendIs, ShortSequences, Concatenation
<1>2. (s \o t) \o <<x>> = s \o (t \o <<x>>)
  BY <1>1, ConcatenationAssociates
<1>3. Append(s \o t, x) = (s \o t) \o <<x>>
  BY <1>1, AppendIs
<1> QED
  BY <1>1, <1>2, <1>3, Zenon

\* An item is done: it joins the output, and nothing is open.
ItemClosed(r, d) ==
  [Emit(r, "output_item.done", 0, d)
     EXCEPT !.output = Append(@, d), !.outputIndex = @ + 1, !.open = NoItem]

LEMMA EmitItemDone ==
  ASSUME NEW made, NEW r, NEW id, NEW begun, NEW input, NEW whole, NEW x, NEW y,
         Tells(r, {id}, begun, NoPart, input, whole, x, y, made),
         NEW d, d.id = id, ItemSays(d, input, whole, made)
  PROVE  Tells(ItemClosed(r, d), {}, {}, NoPart, <<>>, {}, x, y, made) /\ ItemClosed(r, d).open = NoItem
<1> DEFINE s == ItemClosed(r, d)
           c == Emit(r, "output_item.done", 0, d)
           e == EventOf(r, "output_item.done", 0, d)
           k == r.outputIndex
           out == r.output
<1>1. Sends(r, c, e) /\ Same(r, c)
  BY EmitSends DEF Tells
<1>2. e.type = "output_item.done" /\ e.data = d
  BY EventFields
<1>3. s = [c EXCEPT !.output = Append(@, d), !.outputIndex = @ + 1, !.open = NoItem]
  BY DEF ItemClosed
<1> HIDE DEF c, e, s
<1>4. Told(r.frames, k, {id}, begun, NoPart, input, whole, out, x, y, made) /\ IsNext(r.frames, k, e)
  BY <1>1 DEF Tells, Sends
<1>5. Told(Append(r.frames, e), k + 1, {}, {}, NoPart, <<>>, {}, Append(out, e.data), x, y, made)
  BY <1>2, <1>4, ItemDoneTold
<1>6. IsResponsesOut(c)
  BY <1>1 DEF Sends
<1>7. /\ s = [f \in ResponsesFields |-> s[f]]
      /\ s.seq = c.seq /\ s.frames = c.frames /\ s.open = NoItem
      /\ s.terminated = c.terminated /\ s.failed = c.failed
      /\ s.output = Append(c.output, d) /\ s.outputIndex = c.outputIndex + 1
  BY <1>3, <1>6 DEF IsResponsesOut, ResponsesFields
<1>8. IsResponsesOut(s)
  BY <1>6, <1>7 DEF IsResponsesOut
<1>9. /\ s.frames = Append(r.frames, e) /\ s.seq = Len(s.frames) /\ s.outputIndex = k + 1
      /\ s.output = Append(out, e.data)
  BY <1>1, <1>2, <1>7 DEF Sends, Same
<1> HIDE DEF k, out
<1>10. Tells(s, {}, {}, NoPart, <<>>, {}, x, y, made)
  BY <1>5, <1>8, <1>9, Zenon DEF Tells
<1> QED
  BY <1>7, <1>10 DEF s

\* The fragments of a tool's input, one event each.
LEMMA EmitFragments ==
  ASSUME NEW made, NEW r, NEW id, NEW begun, NEW cur, NEW input, NEW whole, NEW x, NEW y,
         Tells(r, {id}, begun, cur, input, whole, x, y, made), IsSequence(input),
         NEW type \in ToolDeltas, NEW runes, IsSequence(runes)
  PROVE  LET s == EmitEach(r, type, ChatSplitRunes(runes, ArgChunkSize))
         IN Tells(s, {id}, begun, cur, input \o runes, whole, x, y, made) /\ Same(r, s)
<1> DEFINE size == ArgChunkSize
           datas == ChatSplitRunes(runes, size)
           s == EmitEach(r, type, datas)
           len == Len(runes)
           n == (len + size - 1) \div size
           end(m) == IF m * size > len THEN len ELSE m * size
           fs == r.frames
           k == r.outputIndex
           out == r.output
           g == [m \in DOMAIN datas |->
                   [sequence_number |-> r.seq + m - 1, type |-> type,
                    index |-> r.outputIndex, part |-> 0, data |-> datas[m]]]
<1>1. size \in Nat \ {0} /\ len \in Nat
  BY ChunkAssumption, SequenceLen
<1>2. /\ n \in Nat /\ n * size >= len
      /\ \A m \in 1..n : (m - 1) * size < len
  BY <1>1, FragmentCount
<1>3. /\ IsSequence(datas) /\ Len(datas) = n /\ DOMAIN datas = 1..n
      /\ \A m \in 1..n : datas[m] = SubSeq(runes, (m - 1) * size + 1, end(m))
  <2>1. /\ DOMAIN datas = 1..n /\ datas = [m \in DOMAIN datas |-> datas[m]]
        /\ \A m \in 1..n : datas[m] = SubSeq(runes, (m - 1) * size + 1, end(m))
    BY DEF ChatSplitRunes
  <2> HIDE DEF datas, n, end
  <2>2. IsSequence(datas) /\ Len(datas) = n
    BY <1>2, <2>1, TableIsSequence
  <2> QED
    BY <2>1, <2>2
<1>4. /\ IsResponsesOut(r) /\ r.seq = Len(fs) /\ IsSequence(fs) /\ Len(fs) \in Nat
      /\ Told(fs, k, {id}, begun, cur, input, whole, out, x, y, made)
  BY SequenceLen DEF Tells, IsResponsesOut
<1>5. /\ s = [f \in ResponsesFields |-> s[f]]
      /\ s.seq = r.seq + Len(datas) /\ s.frames = fs \o g /\ s.open = r.open
      /\ s.terminated = r.terminated /\ s.failed = r.failed
      /\ s.outputIndex = k /\ s.output = out
  BY <1>4 DEF IsResponsesOut, ResponsesFields, EmitEach
<1>6. /\ DOMAIN g = 1..n /\ g = [m \in DOMAIN g |-> g[m]]
      /\ \A m \in 1..n : /\ g[m].sequence_number = Len(fs) + m - 1 /\ g[m].type = type
                         /\ g[m].index = k /\ g[m].data = datas[m]
  BY <1>3, <1>4
<1> HIDE DEF g, s, datas, n, end, size, len, fs, k, out
<1>7. IsSequence(g) /\ Len(g) = n
  BY <1>2, <1>6, TableIsSequence
<1> DEFINE sent(m) == fs \o SubSeq(g, 1, m)
           said(m) == input \o SubSeq(runes, 1, end(m))
           S == {m \in Nat : m <= n => Told(sent(m), k, {id}, begun, cur, said(m), whole, out, x, y, made)}
<1>8. ASSUME NEW m \in Nat
      PROVE  /\ IsSequence(SubSeq(g, 1, m)) /\ Len(SubSeq(g, 1, m)) = m
             /\ IsSequence(sent(m)) /\ Len(sent(m)) = Len(fs) + m
  <2>1. IsSequence(SubSeq(g, 1, m)) /\ Len(SubSeq(g, 1, m)) = m
    <3>1. Len(SubSeq(g, 1, m)) = IF 1 <= m THEN m - 1 + 1 ELSE 0
      BY SubSequence
    <3>2. (IF 1 <= m THEN m - 1 + 1 ELSE 0) = m
      OBVIOUS
    <3> QED
      BY <3>1, <3>2, SubSequence
  <2> DEFINE h == SubSeq(g, 1, m)
  <2> HIDE DEF h
  <2>2. IsSequence(fs \o h) /\ Len(fs \o h) = Len(fs) + Len(h)
    BY <1>4, <2>1, Concatenation DEF h
  <2> QED
    BY <2>1, <2>2 DEF h
<1>9. 0 \in S
  <2>1. end(0) = 0
    BY <1>1 DEF end
  <2>2. SubSeq(runes, 1, 0) = <<>> /\ SubSeq(g, 1, 0) = <<>>
    OBVIOUS
  <2>3. input \o <<>> = input /\ fs \o <<>> = fs
    BY <1>4, EmptyConcatenation
  <2>4. said(0) = input /\ sent(0) = fs
    BY <2>1, <2>2, <2>3
  <2> HIDE DEF said, sent
  <2> QED
    BY <1>4, <2>4
<1>10. ASSUME NEW m \in Nat, m \in S PROVE m + 1 \in S
  <2> SUFFICES ASSUME m + 1 <= n
               PROVE  Told(sent(m + 1), k, {id}, begun, cur, said(m + 1), whole, out, x, y, made)
    OBVIOUS
  <2> DEFINE p == end(m)
             q == end(m + 1)
             before == SubSeq(runes, 1, p)
             piece == SubSeq(runes, p + 1, q)
             e == g[m + 1]
  <2>1. m + 1 \in 1..n /\ (m + 1) - 1 = m /\ m <= n
    BY <1>2
  <2>2. m * size < len
    BY <1>2, <2>1
  <2>3. m * size \in Nat /\ (m + 1) * size = m * size + size
    BY <1>1
  <2>4. p = m * size /\ p \in Nat /\ q \in Nat /\ p <= q /\ q <= len
    BY <1>1, <2>2, <2>3 DEF end
  <2>5. e.data = piece /\ e.type = type /\ e.index = k /\ e.sequence_number = Len(fs) + m
    BY <1>3, <1>4, <1>6, <2>1, <2>4
  <2>6. Told(sent(m), k, {id}, begun, cur, said(m), whole, out, x, y, made)
    BY <1>10, <2>1
  <2>7. sent(m + 1) = Append(sent(m), e)
    <3>1. SubSeq(g, 1, m + 1) = Append(SubSeq(g, 1, m), g[m + 1])
      BY <1>7, <2>1, PrefixGrows
    <3>2. fs \o Append(SubSeq(g, 1, m), g[m + 1]) = Append(fs \o SubSeq(g, 1, m), g[m + 1])
      <4> DEFINE h == SubSeq(g, 1, m)
                 z == g[m + 1]
      <4>1. IsSequence(fs) /\ IsSequence(h)
        BY <1>4, <1>8
      <4> HIDE DEF h, z
      <4>2. fs \o Append(h, z) = Append(fs \o h, z)
        BY ONLY <4>1, AppendAfter
      <4> QED
        BY <4>2 DEF h, z
    <3> QED
      BY <3>1, <3>2
  <2>8. said(m + 1) = said(m) \o piece
    <3> HIDE DEF p, q
    <3>1. before \o piece = SubSeq(runes, 1, q)
      BY <2>4, Pieces DEF len
    <3>2. IsSequence(before) /\ IsSequence(piece)
      BY <2>4, SubSequence
    <3> HIDE DEF before, piece
    <3>3. (input \o before) \o piece = input \o (before \o piece)
      BY ONLY <3>2, IsSequence(input), ConcatenationAssociates
    <3> QED
      BY <3>1, <3>3 DEF p, q, before
  <2>9. IsNext(sent(m), k, e)
    BY <1>8, <2>5 DEF IsNext
  <2> HIDE DEF e, piece, said, sent
  <2>10. Told(Append(sent(m), e), k, {id}, begun, cur, said(m) \o e.data, whole, out, x, y, made)
    BY <2>5, <2>6, <2>9, InputDeltaTold
  <2> QED
    BY <2>5, <2>7, <2>8, <2>10
<1>11. n \in S
  <2> HIDE DEF S
  <2> QED
    BY <1>2, <1>9, <1>10, Induction
<1>12. sent(n) = fs \o g /\ said(n) = input \o runes
  <2>1. n * size \in Int
    BY <1>1, <1>2
  <2>2. end(n) = len
    BY <1>1, <1>2, <2>1 DEF end
  <2>3. SubSeq(runes, 1, len) = runes /\ SubSeq(g, 1, n) = g
    BY <1>7 DEF IsSequence, len
  <2> QED
    BY <2>2, <2>3
<1>13. Told(fs \o g, k, {id}, begun, cur, input \o runes, whole, out, x, y, made)
  <2>1. Told(sent(n), k, {id}, begun, cur, said(n), whole, out, x, y, made)
    BY <1>2, <1>11
  <2> HIDE DEF sent, said
  <2> QED
    BY <1>12, <2>1
<1>14. IsSequence(fs \o g) /\ Len(fs \o g) = Len(fs) + n
  BY <1>4, <1>7, Concatenation
<1>15. IsResponsesOut(s) /\ s.seq = Len(s.frames)
  <2>1. IsSequence(s.frames)
    BY <1>5, <1>14, Zenon
  <2>2. s.seq = Len(fs) + n
    BY <1>3, <1>4, <1>5
  <2>3. s.seq \in Nat /\ s.seq = Len(s.frames)
    BY <1>2, <1>4, <1>5, <1>14, <2>2
  <2>4. /\ s.open = NoItem \/ IsItem(s.open)
        /\ s.terminated \in BOOLEAN /\ s.failed \in BOOLEAN
    BY <1>4, <1>5 DEF IsResponsesOut
  <2> QED
    BY <1>5, <2>1, <2>3, <2>4 DEF IsResponsesOut
<1>16. Tells(s, {id}, begun, cur, input \o runes, whole, x, y, made)
  BY <1>5, <1>13, <1>15 DEF Tells
<1>17. Same(r, s)
  BY <1>5 DEF Same, k, out
<1> QED
  BY <1>16, <1>17 DEF s, datas, size

---------------------------------------------------------------------------
(* The methods.  What a record tells depends on the item that is open.     *)

ToolItemKinds == {"function_call", "custom_tool_call", "tool_search_call"}

\* The first n parts of a kind.
Begins(kind, n) == {<<kind, p>> : p \in 0..(n - 1)}

\* The input of a tool told in fragments so far.
SentInput(item) ==
  IF item.kind = "function_call" THEN item.arguments
  ELSE IF item.kind = "custom_tool_call" THEN item.unwrapped ELSE <<>>

\* What was sent of a custom tool's text is the text of an object the input
\* began with.
Unwrapped(item) ==
  /\ item.inputEmitted = Len(item.unwrapped)
  /\ \/ item.unwrapped = <<>>
     \/ \E n \in 2..Len(item.arguments) :
          /\ IsObject(SubSeq(item.arguments, 1, n))
          /\ item.unwrapped = SubSeq(item.arguments, 2, n - 1)

Between(r, x, y, made) == r.open = NoItem /\ Tells(r, {}, {}, NoPart, <<>>, {}, x, y, made)

AfterText(r, x, y, made) ==
  /\ r.open.kind = "message" /\ r.open.partOpen = FALSE /\ r.open.partText = <<>>
  /\ r.open.contentIndex \in Nat
  /\ Tells(r, {r.open.id}, Begins(TextPart, r.open.contentIndex), NoPart, <<>>, {}, x, y, made)

InText(r, x, y, made) ==
  /\ r.open.kind = "message" /\ r.open.partOpen = TRUE /\ r.open.contentIndex \in Nat
  /\ IsSequence(r.open.partText)
  /\ Tells(r, {r.open.id}, Begins(TextPart, r.open.contentIndex + 1),
           OpenPart(TextPart, r.open.contentIndex, r.open.partText), <<>>, {}, x, y, made)

InReasoning(r, x, y, made) ==
  /\ r.open.kind = "reasoning" /\ IsSequence(r.open.thinking)
  /\ Tells(r, {r.open.id}, {<<SummaryPart, 0>>}, OpenPart(SummaryPart, 0, r.open.thinking),
           <<>>, {}, x, y, made)

InTool(r, x, y, made) ==
  /\ r.open.kind \in ToolItemKinds
  /\ r.open.kind = "custom_tool_call" => Unwrapped(r.open)
  /\ Tells(r, {r.open.id}, {}, NoPart, SentInput(r.open), {}, x, y, made)

\* One of them holds whenever feed is called.
Good(r, x, y, made) ==
  \/ Between(r, x, y, made) \/ AfterText(r, x, y, made) \/ InText(r, x, y, made)
  \/ InReasoning(r, x, y, made) \/ InTool(r, x, y, made)

LEMMA GoodType ==
  ASSUME NEW made, NEW r, NEW x, NEW y, Good(r, x, y, made)
  PROVE  IsResponsesOut(r) /\ (r.open.kind # None => IsItem(r.open))
BY DEF Good, Between, AfterText, InText, InReasoning, InTool, Tells, IsResponsesOut, NoItem

\* Another item in the record, or the same with other fields.
LEMMA OpenTells ==
  ASSUME NEW made, NEW r, NEW open, NEW begun, NEW cur, NEW input, NEW whole, NEW x, NEW y,
         Tells(r, open, begun, cur, input, whole, x, y, made), NEW item, IsItem(item)
  PROVE  /\ Tells([r EXCEPT !.open = item], open, begun, cur, input, whole, x, y, made)
         /\ [r EXCEPT !.open = item].open = item
<1> DEFINE c == [r EXCEPT !.open = item]
<1>1. IsResponsesOut(r)
  BY DEF Tells
<1>2. IsResponsesOut(c) /\ c.open = item
  BY <1>1, OpenChanges
<1>3. c.frames = r.frames /\ c.seq = r.seq /\ c.outputIndex = r.outputIndex /\ c.output = r.output
  BY <1>1 DEF IsResponsesOut, ResponsesFields
<1> HIDE DEF c
<1>4. Tells(c, open, begun, cur, input, whole, x, y, made)
  BY <1>2, <1>3, TellsQuietly
<1> QED
  BY <1>2, <1>4 DEF c

---------------------------------------------------------------------------
(* Closing. *)

LEMMA CloseTextTells ==
  ASSUME NEW made, NEW r, NEW x, NEW y, InText(r, x, y, made)
  PROVE  AfterText(CloseTextPart(r), x, y, made)
<1> DEFINE item == r.open
           i == item.contentIndex
           t == item.partText
           id == item.id
           begun == Begins(TextPart, i + 1)
           a == Emit(r, "output_text.done", i, t)
           b == Emit(a, "content_part.done", i, t)
           c == CloseTextPart(r)
<1>1. /\ Tells(r, {id}, begun, OpenPart(TextPart, i, t), <<>>, {}, x, y, made)
      /\ item.kind = "message" /\ item.partOpen = TRUE /\ i \in Nat
  BY DEF InText
<1>2. /\ TextPart \in PartKinds /\ TextPart.text = "output_text.done"
      /\ TextPart.done = "content_part.done"
  BY DEF PartKinds, TextPart
<1>3. c = [b EXCEPT !.open.parts = Append(@, t), !.open.partText = <<>>,
                    !.open.partOpen = FALSE, !.open.contentIndex = i + 1]
  BY <1>1 DEF CloseTextPart
<1>4. IsResponsesOut(r) /\ IsItem(item)
  BY <1>1 DEF Tells, IsResponsesOut, NoItem, None
<1>5. IsResponsesOut(c)
  BY <1>4, CloseTextPartFollows DEF Follows
<1> HIDE DEF b, c, i, t, id, begun, item
<1>6. Tells(a, {id}, begun, ToldPart(TextPart, i, t), <<>>, {}, x, y, made) /\ Same(r, a)
  <2>1. Tells(Emit(r, TextPart.text, i, t), {id}, begun, ToldPart(TextPart, i, t), <<>>, {}, x, y, made)
        /\ Same(r, Emit(r, TextPart.text, i, t))
    BY ONLY <1>1, <1>2, EmitPartText
  <2> QED
    BY <1>2, <2>1
<1>7. Tells(b, {id}, begun, NoPart, <<>>, {}, x, y, made) /\ Same(a, b)
  <2> HIDE DEF a
  <2>1. Tells(Emit(a, TextPart.done, i, t), {id}, begun, NoPart, <<>>, {}, x, y, made)
        /\ Same(a, Emit(a, TextPart.done, i, t))
    BY ONLY <1>2, <1>6, EmitPartDone
  <2> QED
    BY <1>2, <2>1 DEF b
<1> HIDE DEF a
<1>8. b.open = item /\ IsResponsesOut(b)
  BY <1>6, <1>7 DEF Same, Tells, item
<1>9. /\ c.frames = b.frames /\ c.seq = b.seq
      /\ c.outputIndex = b.outputIndex /\ c.output = b.output
      /\ c.open = [item EXCEPT !.parts = Append(@, t), !.partText = <<>>,
                               !.partOpen = FALSE, !.contentIndex = i + 1]
  BY <1>3, <1>8 DEF IsResponsesOut, ResponsesFields
<1>10. /\ c.open.kind = "message" /\ c.open.partOpen = FALSE /\ c.open.partText = <<>>
       /\ c.open.contentIndex = i + 1 /\ c.open.id = id
  BY <1>1, <1>4, <1>9 DEF IsItem, ItemFields, id
<1>11. Tells(c, {id}, begun, NoPart, <<>>, {}, x, y, made)
  BY <1>5, <1>7, <1>9, TellsQuietly
<1> QED
  BY <1>1, <1>10, <1>11 DEF AfterText, begun, c

LEMMA DoneItemFields ==
  ASSUME NEW item, item.kind \in ToolItemKinds \cup {"message", "reasoning"}
  PROVE  /\ DoneItem(item).id = item.id /\ DoneItem(item).kind = item.kind
         /\ item.kind \in {"function_call", "custom_tool_call"} =>
              DoneItem(item).content = SentInput(item)
BY DEF DoneItem, ToolItemKinds, SentInput

\* No input was told as whole, and the fragments are the content if it has any.
LEMMA SaysFragments ==
  ASSUME NEW made, NEW item, item.kind \in ToolItemKinds \cup {"message", "reasoning"}, NEW told,
         item.kind \in {"function_call", "custom_tool_call"} => told = SentInput(item)
  PROVE  ItemSays(DoneItem(item), told, {}, made)
BY DoneItemFields DEF ItemSays, MakesUp

\* The parts of the item are closed: the item is done.
LEMMA ItemDoneTells ==
  ASSUME NEW made, NEW r, NEW c, r.open # NoItem, c = CloseParts(r),
         c.open.kind \in ToolItemKinds \cup {"message", "reasoning"},
         NEW begun, NEW input, NEW whole, NEW x, NEW y,
         Tells(c, {c.open.id}, begun, NoPart, input, whole, x, y, made),
         ItemSays(DoneItem(c.open), input, whole, made)
  PROVE  Between(CloseOpen(r), x, y, made)
<1> DEFINE d == DoneItem(c.open)
           id == c.open.id
           s == CloseOpen(r)
<1>1. s = ItemClosed(c, d)
  BY DEF CloseOpen, ItemClosed
<1>2. d.id = id
  BY DoneItemFields
<1>4. ItemSays(d, input, whole, made) /\ Tells(c, {id}, begun, NoPart, input, whole, x, y, made)
  OBVIOUS
<1> HIDE DEF d, id, s
<1>5. Tells(ItemClosed(c, d), {}, {}, NoPart, <<>>, {}, x, y, made) /\ ItemClosed(c, d).open = NoItem
  <2>1. Tells(c, {id}, begun, NoPart, input, whole, x, y, made)
    BY <1>4
  <2>2. d.id = id /\ ItemSays(d, input, whole, made)
    BY <1>2, <1>4
  <2> QED
    BY ONLY <2>1, <2>2, EmitItemDone
<1>6. Tells(s, {}, {}, NoPart, <<>>, {}, x, y, made) /\ s.open = NoItem
  BY <1>1, <1>5, Zenon
<1> QED
  BY <1>6 DEF Between, s

LEMMA CloseOpenTells ==
  ASSUME NEW made, NEW r, NEW x, NEW y, Good(r, x, y, made)
  PROVE  Between(CloseOpen(r), x, y, made)
<1>1. CASE Between(r, x, y, made)
  <2>1. r.open = NoItem
    BY <1>1 DEF Between
  <2>2. CloseOpen(r) = r
    BY <2>1 DEF CloseOpen
  <2> QED
    BY <1>1, <2>2
<1>2. ASSUME AfterText(CloseParts(r), x, y, made), r.open # NoItem PROVE Between(CloseOpen(r), x, y, made)
  <2> DEFINE c == CloseParts(r)
  <2>1. c.open.kind = "message"
        /\ Tells(c, {c.open.id}, Begins(TextPart, c.open.contentIndex), NoPart, <<>>, {}, x, y, made)
    BY <1>2 DEF AfterText
  <2>2. /\ c.open.kind \in ToolItemKinds \cup {"message", "reasoning"}
        /\ ~(c.open.kind \in {"function_call", "custom_tool_call"})
    BY <2>1
  <2>3. ItemSays(DoneItem(c.open), <<>>, {}, made)
    BY <2>2, SaysFragments
  <2> HIDE DEF c
  <2> QED
    BY <1>2, <2>1, <2>2, <2>3, ItemDoneTells DEF c
<1>3. CASE AfterText(r, x, y, made)
  <2>1. CloseParts(r) = r /\ r.open # NoItem
    BY <1>3 DEF CloseParts, CloseTextPart, AfterText, NoItem, None
  <2> QED
    BY <1>2, <1>3, <2>1
<1>4. CASE InText(r, x, y, made)
  <2>1. CloseParts(r) = CloseTextPart(r) /\ r.open # NoItem
    BY <1>4 DEF CloseParts, InText, NoItem, None
  <2> QED
    BY <1>2, <1>4, <2>1, CloseTextTells
<1>5. CASE InReasoning(r, x, y, made)
  <2> DEFINE t == r.open.thinking
             id == r.open.id
             begun == {<<SummaryPart, 0>>}
             a == Emit(r, "reasoning_summary_text.done", 0, t)
             b == Emit(a, "reasoning_summary_part.done", 0, t)
  <2>1. r.open.kind = "reasoning" /\ Tells(r, {id}, begun, OpenPart(SummaryPart, 0, t), <<>>, {}, x, y, made)
    BY <1>5 DEF InReasoning
  <2>2. b = CloseParts(r) /\ r.open # NoItem
    BY <2>1 DEF CloseParts, CloseReasoningSummary, NoItem, None
  <2>3. /\ SummaryPart \in PartKinds /\ SummaryPart.text = "reasoning_summary_text.done"
        /\ SummaryPart.done = "reasoning_summary_part.done"
    BY DEF PartKinds, SummaryPart
  <2> HIDE DEF t, id, begun, b
  <2>4. Tells(a, {id}, begun, ToldPart(SummaryPart, 0, t), <<>>, {}, x, y, made) /\ Same(r, a)
    <3>1. Tells(Emit(r, SummaryPart.text, 0, t), {id}, begun, ToldPart(SummaryPart, 0, t), <<>>, {}, x, y, made)
          /\ Same(r, Emit(r, SummaryPart.text, 0, t))
      BY ONLY <2>1, <2>3, EmitPartText
    <3> QED
      BY <2>3, <3>1
  <2> HIDE DEF a
  <2>5. Tells(b, {id}, begun, NoPart, <<>>, {}, x, y, made) /\ Same(a, b)
    <3>1. Tells(Emit(a, SummaryPart.done, 0, t), {id}, begun, NoPart, <<>>, {}, x, y, made)
          /\ Same(a, Emit(a, SummaryPart.done, 0, t))
      BY ONLY <2>3, <2>4, EmitPartDone
    <3> QED
      BY <2>3, <3>1 DEF b
  <2>6. b.open.kind = "reasoning" /\ b.open.id = id
    BY <2>1, <2>4, <2>5 DEF Same, id
  <2>7. /\ b.open.kind \in ToolItemKinds \cup {"message", "reasoning"}
        /\ ~(b.open.kind \in {"function_call", "custom_tool_call"})
        /\ Tells(b, {b.open.id}, begun, NoPart, <<>>, {}, x, y, made)
    BY <2>5, <2>6
  <2>8. ItemSays(DoneItem(b.open), <<>>, {}, made)
    BY <2>7, SaysFragments
  <2> QED
    BY <2>2, <2>7, <2>8, ItemDoneTells
<1>6. CASE InTool(r, x, y, made)
  <2>1. /\ r.open.kind \in ToolItemKinds
        /\ Tells(r, {r.open.id}, {}, NoPart, SentInput(r.open), {}, x, y, made)
    BY <1>6 DEF InTool
  <2>2. CloseParts(r) = r /\ r.open # NoItem
    BY <2>1 DEF CloseParts, ToolItemKinds, NoItem, None
  <2>3. ItemSays(DoneItem(r.open), SentInput(r.open), {}, made)
    BY <2>1, SaysFragments
  <2> QED
    BY <2>1, <2>2, <2>3, ItemDoneTells
<1> QED
  BY <1>1, <1>3, <1>4, <1>5, <1>6 DEF Good

---------------------------------------------------------------------------
(* Opening. *)

LEMMA BeginsOn ==
  ASSUME NEW kind, NEW n \in Nat
  PROVE  /\ Begins(kind, n) \cup {<<kind, n>>} = Begins(kind, n + 1)
         /\ <<kind, n>> \notin Begins(kind, n)
         /\ n > 0 => <<kind, n - 1>> \in Begins(kind, n)
         /\ Begins(kind, 0) = {}
<1>1. 0..((n + 1) - 1) = 0..(n - 1) \cup {n} /\ n \notin 0..(n - 1)
  OBVIOUS
<1>2. Begins(kind, n) \cup {<<kind, n>>} = Begins(kind, n + 1)
  BY <1>1 DEF Begins
<1>3. <<kind, n>> \notin Begins(kind, n)
  BY <1>1 DEF Begins
<1>4. n > 0 => <<kind, n - 1>> \in Begins(kind, n)
  <2>1. n > 0 => n - 1 \in 0..(n - 1)
    OBVIOUS
  <2> QED
    BY <2>1 DEF Begins
<1>5. Begins(kind, 0) = {}
  BY DEF Begins
<1> QED
  BY <1>2, <1>3, <1>4, <1>5

LEMMA AddedTells ==
  ASSUME NEW made, NEW r, NEW x, NEW y, Between(r, x, y, made), NEW item, IsItem(item)
  PROVE  /\ Tells(Added(r, item), {item.id}, {}, NoPart, <<>>, {}, x, y, made)
         /\ Added(r, item).open = item
<1> DEFINE c == [r EXCEPT !.open = item]
           id == item.id
           d == Emit(c, "output_item.added", 0, id)
<1>1. Tells(c, {}, {}, NoPart, <<>>, {}, x, y, made) /\ c.open = item
  BY OpenTells DEF Between
<1>2. Added(r, item) = d
  BY DEF Added
<1> HIDE DEF c, id
<1>3. Tells(d, {id}, {}, NoPart, <<>>, {}, x, y, made) /\ Same(c, d)
  BY <1>1, EmitItemAdded
<1> HIDE DEF d
<1> QED
  BY <1>1, <1>2, <1>3 DEF Same, id

LEMMA StartTextTells ==
  ASSUME NEW made, NEW r, NEW x, NEW y, Good(r, x, y, made)
  PROVE  InText(StartTextPart(r), x, y, made)
<1> DEFINE d == CloseOpen(r)
           n == [d EXCEPT !.messageSeq = @ + 1]
           item == NewItem("message", d.outputIndex, <<"msg", d.messageSeq>>)
           c == IF r.open.kind # "message" THEN Added(n, item) ELSE CloseTextPart(r)
           open == c.open
           new == [open EXCEPT !.partOpen = TRUE]
           s == [c EXCEPT !.open = new]
           p == Emit(s, "content_part.added", open.contentIndex, None)
<1>1. p = StartTextPart(r)
  BY DEF StartTextPart, BeforeStart
<1>2. AfterText(c, x, y, made)
  <2>1. CASE r.open.kind # "message"
    <3>1. Between(d, x, y, made)
      BY CloseOpenTells
    <3>2. IsResponsesOut(d)
      BY <3>1 DEF Between, Tells
    <3>3. IsItem(item)
      BY NewItemType DEF None
    <3>4. /\ item.kind = "message" /\ item.partOpen = FALSE /\ item.partText = <<>>
          /\ item.contentIndex = 0
      BY DEF NewItem
    <3>5. c = Added(n, item)
      BY <2>1
    <3> HIDE DEF d
    <3>6. /\ n.open = d.open /\ n.seq = d.seq /\ n.frames = d.frames
          /\ n.outputIndex = d.outputIndex /\ n.output = d.output
          /\ n.terminated = d.terminated /\ n.failed = d.failed
          /\ n = [f \in ResponsesFields |-> n[f]]
      BY <3>2 DEF IsResponsesOut, ResponsesFields
    <3> HIDE DEF n, item, c
    <3>7. IsResponsesOut(n)
      BY <3>2, <3>6 DEF IsResponsesOut
    <3>8. Tells(n, {}, {}, NoPart, <<>>, {}, x, y, made)
      BY <3>1, <3>6, <3>7, TellsQuietly DEF Between
    <3>9. Between(n, x, y, made)
      BY <3>1, <3>6, <3>8 DEF Between
    <3>10. Tells(c, {item.id}, {}, NoPart, <<>>, {}, x, y, made) /\ c.open = item
      BY <3>3, <3>5, <3>9, AddedTells
    <3>11. Begins(TextPart, 0) = {}
      BY BeginsOn
    <3>12. Begins(TextPart, c.open.contentIndex) = {} /\ {item.id} = {c.open.id}
      BY <3>4, <3>10, <3>11
    <3>13. Tells(c, {c.open.id}, Begins(TextPart, c.open.contentIndex), NoPart, <<>>, {}, x, y, made)
      BY <3>10, <3>12, Zenon
    <3>14. /\ c.open.kind = "message" /\ c.open.partOpen = FALSE /\ c.open.partText = <<>>
           /\ c.open.contentIndex \in Nat
      BY <3>4, <3>10
    <3> QED
      BY <3>13, <3>14, Zenon DEF AfterText
  <2>2. CASE r.open.kind = "message"
    <3>1. c = CloseTextPart(r)
      BY <2>2
    <3>2. CASE AfterText(r, x, y, made)
      <4>1. r.open.partOpen = FALSE
        BY <3>2 DEF AfterText
      <4>2. CloseTextPart(r) = r
        BY <4>1 DEF CloseTextPart
      <4> HIDE DEF c
      <4> QED
        BY <3>1, <3>2, <4>2
    <3>3. CASE InText(r, x, y, made)
      BY <3>1, <3>3, CloseTextTells
    <3>4. AfterText(r, x, y, made) \/ InText(r, x, y, made)
      BY <2>2 DEF Good, Between, InReasoning, InTool, NoItem, None, ToolItemKinds
    <3> QED
      BY <3>2, <3>3, <3>4
  <2> QED
    BY <2>1, <2>2
<1> DEFINE i == open.contentIndex
           id == open.id
           begun == Begins(TextPart, i)
           begun2 == Begins(TextPart, i + 1)
<1> HIDE DEF c
<1>3. /\ open.kind = "message" /\ open.partText = <<>> /\ i \in Nat
      /\ Tells(c, {id}, begun, NoPart, <<>>, {}, x, y, made)
  BY <1>2 DEF AfterText
<1>4. IsItem(open)
  BY <1>3 DEF Tells, IsResponsesOut, NoItem, None
<1>5. IsItem(new) /\ new.kind = "message"
  BY <1>3, <1>4, ItemChanges DEF ItemFields
<1>6. /\ new.partOpen = TRUE /\ new.partText = <<>>
      /\ new.contentIndex = i /\ new.id = id
  <2> HIDE DEF open
  <2> QED
    BY <1>3, <1>4 DEF IsItem, ItemFields, i, id
<1> HIDE DEF new, open, i, id
<1>7. Tells(s, {id}, begun, NoPart, <<>>, {}, x, y, made) /\ s.open = new
  BY <1>3, <1>5, OpenTells
<1>8. /\ begun \cup {<<TextPart, i>>} = begun2 /\ <<TextPart, i>> \notin begun
      /\ i > 0 => <<TextPart, i - 1>> \in begun
  BY <1>3, BeginsOn
<1> HIDE DEF s, begun, begun2
<1>9. TextPart \in PartKinds /\ TextPart.added = "content_part.added"
  BY DEF PartKinds, TextPart
<1>10. /\ Tells(p, {id}, begun2, OpenPart(TextPart, i, <<>>), <<>>, {}, x, y, made)
       /\ Same(s, p)
  <2> DEFINE q == Emit(s, TextPart.added, i, None)
  <2>1. /\ Tells(q, {id}, begun \cup {<<TextPart, i>>}, OpenPart(TextPart, i, <<>>), <<>>, {}, x, y, made)
        /\ Same(s, q)
    BY <1>7, <1>8, <1>9, EmitPartAdded
  <2>2. p = q
    BY <1>9 DEF i
  <2> QED
    BY <1>8, <2>1, <2>2
<1> HIDE DEF p
<1>11. p.open = new
  BY <1>7, <1>10 DEF Same
<1>12. InText(p, x, y, made)
  BY <1>3, <1>5, <1>6, <1>10, <1>11, ShortSequences DEF InText, begun2
<1> QED
  BY <1>1, <1>12

LEMMA StartReasoningTells ==
  ASSUME NEW made, NEW r, NEW x, NEW y, Good(r, x, y, made)
  PROVE  InReasoning(StartReasoning(r), x, y, made)
<1> DEFINE c == CloseOpen(r)
           item == NewItem("reasoning", c.outputIndex, <<"reasoning">>)
           d == Added(c, item)
           id == item.id
           p == Emit(d, "reasoning_summary_part.added", 0, None)
<1>1. p = StartReasoning(r)
  BY DEF StartReasoning, BeforeStart
<1>2. Between(c, x, y, made)
  BY CloseOpenTells
<1>3. IsItem(item) /\ item.kind = "reasoning" /\ item.thinking = <<>>
  BY NewItemType DEF None, NewItem
<1> HIDE DEF c, item
<1>4. Tells(d, {id}, {}, NoPart, <<>>, {}, x, y, made) /\ d.open = item
  BY <1>2, <1>3, AddedTells
<1>5. SummaryPart \in PartKinds /\ SummaryPart.added = "reasoning_summary_part.added"
  BY DEF PartKinds, SummaryPart
<1>6. {} \cup {<<SummaryPart, 0>>} = {<<SummaryPart, 0>>}
  OBVIOUS
<1> HIDE DEF d, id
<1>7. /\ Tells(p, {id}, {<<SummaryPart, 0>>}, OpenPart(SummaryPart, 0, <<>>), <<>>, {}, x, y, made)
      /\ Same(d, p)
  <2> DEFINE q == Emit(d, SummaryPart.added, 0, None)
             one == <<SummaryPart, 0>>
             none == {}
  <2>1. one \notin none /\ (0 > 0 => <<SummaryPart, 0 - 1>> \in none)
    OBVIOUS
  <2>2. Tells(d, {id}, none, NoPart, <<>>, {}, x, y, made)
    BY <1>4
  <2> HIDE DEF none
  <2>3. /\ Tells(q, {id}, none \cup {one}, OpenPart(SummaryPart, 0, <<>>), <<>>, {}, x, y, made)
        /\ Same(d, q)
    BY <1>5, <2>1, <2>2, EmitPartAdded
  <2>4. p = q /\ none \cup {one} = {one}
    BY <1>5 DEF none
  <2> QED
    BY <2>3, <2>4
<1> HIDE DEF p
<1>8. p.open = item
  BY <1>4, <1>7 DEF Same
<1>9. InReasoning(p, x, y, made)
  BY <1>3, <1>7, <1>8, ShortSequences DEF InReasoning, id
<1> QED
  BY <1>1, <1>9

LEMMA StartToolTells ==
  ASSUME NEW made, NEW r, NEW x, NEW y, Good(r, x, y, made), NEW kind \in ToolItemKinds, NEW call
  PROVE  /\ InTool(StartToolCall(r, kind, call), x, y, made)
         /\ StartToolCall(r, kind, call).open.arguments = <<>>
         /\ StartToolCall(r, kind, call).open.kind = kind
         /\ StartToolCall(r, kind, call).open.id = <<kind, call>>
<1> DEFINE c == CloseOpen(r)
           item == NewItem(kind, c.outputIndex, <<kind, call>>)
           d == Added(c, item)
<1>1. d = StartToolCall(r, kind, call)
  BY DEF StartToolCall, BeforeStart
<1>2. Between(c, x, y, made)
  BY CloseOpenTells
<1>3. IsItem(item) /\ item.kind = kind
  BY NewItemType DEF None, ToolItemKinds
<1>4. /\ item.arguments = <<>> /\ item.unwrapped = <<>> /\ item.inputEmitted = 0
      /\ item.id = <<kind, call>>
  BY DEF NewItem
<1>5. SentInput(item) = <<>> /\ Unwrapped(item)
  BY <1>4, ShortSequences DEF SentInput, Unwrapped
<1> HIDE DEF c, item
<1>6. Tells(d, {item.id}, {}, NoPart, <<>>, {}, x, y, made) /\ d.open = item
  BY <1>2, <1>3, AddedTells
<1> HIDE DEF d
<1>7. InTool(d, x, y, made)
  BY <1>3, <1>5, <1>6 DEF InTool
<1> QED
  BY <1>1, <1>3, <1>4, <1>6, <1>7

---------------------------------------------------------------------------
(* The input of a tool.                                                    *)

\* More of the input of the item was taken in.
Fills(r, s, runes) ==
  /\ s.open.arguments = r.open.arguments \o runes
  /\ s.open.kind = r.open.kind /\ s.open.id = r.open.id

LEMMA EarlyPart ==
  ASSUME NEW s, NEW t, IsSequence(s), IsSequence(t), NEW m \in Nat \ {0}, NEW n \in Int, n <= Len(s)
  PROVE  SubSeq(s \o t, m, n) = SubSeq(s, m, n)
<1> DEFINE u == s \o t
           a == SubSeq(u, m, n)
           b == SubSeq(s, m, n)
<1>1. Len(s) \in Nat /\ \A i \in 1..Len(s) : u[i] = s[i]
  BY SequenceLen, Concatenation
<1> HIDE DEF u
<1>2. /\ IsSequence(a) /\ IsSequence(b)
      /\ Len(a) = (IF m <= n THEN n - m + 1 ELSE 0) /\ Len(b) = (IF m <= n THEN n - m + 1 ELSE 0)
      /\ \A i \in 1..(n - m + 1) : a[i] = u[m + i - 1] /\ b[i] = s[m + i - 1]
  BY SubSequence
<1>3. Len(a) = Len(b) /\ \A i \in 1..Len(a) : a[i] = b[i]
  <2>1. SUFFICES ASSUME NEW i \in 1..Len(a) PROVE a[i] = b[i]
    BY <1>2
  <2>2. i \in 1..(n - m + 1) /\ m + i - 1 \in 1..Len(s)
    BY <1>1, <1>2
  <2> QED
    BY <1>1, <1>2, <2>2
<1> HIDE DEF a, b
<1>4. DOMAIN a = DOMAIN b /\ a = [i \in DOMAIN a |-> a[i]] /\ b = [i \in DOMAIN b |-> b[i]]
  BY <1>2, <1>3 DEF IsSequence
<1>5. \A i \in DOMAIN a : a[i] = b[i]
  BY <1>2, <1>3 DEF IsSequence
<1>6. a = b
  BY <1>4, <1>5
<1> QED
  BY <1>6 DEF a, b, u

LEMMA MiddleIsPrefix ==
  ASSUME NEW raw, IsSequence(raw), NEW n \in 2..Len(raw)
  PROVE  IsPrefix(SubSeq(raw, 2, n - 1), SubSeq(raw, 2, Len(raw) - 1))
<1> DEFINE a == SubSeq(raw, 2, n - 1)
           len == Len(raw)
           b == SubSeq(raw, 2, len - 1)
<1>1. len \in Nat /\ n - 1 \in Int /\ len - 1 \in Int /\ n - 2 \in Nat /\ len - 2 \in Nat /\ n - 2 <= len - 2
  BY SequenceLen
<1>2. /\ IsSequence(a) /\ Len(a) = (IF 2 <= n - 1 THEN (n - 1) - 2 + 1 ELSE 0)
      /\ \A i \in 1..((n - 1) - 2 + 1) : a[i] = raw[2 + i - 1]
  BY <1>1, SubSequence
<1>3. /\ IsSequence(b) /\ Len(b) = (IF 2 <= len - 1 THEN (len - 1) - 2 + 1 ELSE 0)
      /\ \A i \in 1..((len - 1) - 2 + 1) : b[i] = raw[2 + i - 1]
  BY <1>1, SubSequence
<1> HIDE DEF a, b, len
<1>4. Len(a) = n - 2 /\ Len(b) = len - 2 /\ Len(a) <= Len(b)
  BY <1>1, <1>2, <1>3
<1>5. \A i \in 1..Len(a) : a[i] = b[i]
  BY <1>1, <1>2, <1>3, <1>4
<1>6. SubSeq(a, 1, Len(a)) = SubSeq(b, 1, Len(a))
  BY <1>1, <1>4, <1>5
<1>7. IsPrefix(a, b)
  BY <1>4, <1>6 DEF IsPrefix
<1> QED
  BY <1>7 DEF a, b, len

LEMMA UnsentJoins ==
  ASSUME NEW item, IsItem(item), item.inputEmitted = Len(item.unwrapped),
         NEW text, IsSequence(text), IsPrefix(item.unwrapped, text)
  PROVE  item.unwrapped \o Unsent(item, text) = text
<1> DEFINE u == item.unwrapped
           m == Len(u)
           len == Len(text)
<1>1. IsSequence(u) /\ m \in Nat /\ len \in Nat
  BY SequenceLen DEF IsItem
<1>2. Unsent(item, text) = SubSeq(text, m + 1, len)
  BY DEF Unsent
<1>3. m <= len /\ SubSeq(u, 1, m) = SubSeq(text, 1, m)
  BY DEF IsPrefix
<1>4. SubSeq(u, 1, m) = u /\ SubSeq(text, 1, len) = text
  BY <1>1 DEF IsSequence
<1> HIDE DEF u, m, len
<1>5. SubSeq(text, 1, m) \o SubSeq(text, m + 1, len) = SubSeq(text, 1, len)
  <2>1. len <= Len(text)
    BY <1>1 DEF len
  <2> QED
    BY <1>1, <1>3, <2>1, Pieces
<1> QED
  BY <1>2, <1>3, <1>4, <1>5 DEF u

\* What was sent of a custom tool's text, the rest, and the text.
LEMMA CustomTextGrows ==
  ASSUME NEW item, IsItem(item), Unwrapped(item), Unwraps(item.arguments)
  PROVE  item.unwrapped \o Unsent(item, CustomInput(item.arguments)) = CustomInput(item.arguments)
<1> DEFINE raw == item.arguments
           text == CustomInput(raw)
<1>1. IsSequence(raw) /\ IsSequence(text)
  BY InputTexts DEF IsItem
<1>2. item.inputEmitted = Len(item.unwrapped)
  BY DEF Unwrapped
<1>3. IsPrefix(item.unwrapped, text)
  <2>1. CASE item.unwrapped = <<>>
    <3> HIDE DEF text
    <3>1. Len(text) \in Nat /\ Len(<<>>) = 0
      BY <1>1, SequenceLen, ShortSequences
    <3>2. SubSeq(text, 1, 0) = <<>> /\ SubSeq(<<>>, 1, 0) = <<>>
      OBVIOUS
    <3> QED
      BY <2>1, <3>1, <3>2 DEF IsPrefix
  <2>2. CASE \E n \in 2..Len(raw) : item.unwrapped = SubSeq(raw, 2, n - 1)
    <3>1. PICK n \in 2..Len(raw) : item.unwrapped = SubSeq(raw, 2, n - 1)
      BY <2>2
    <3>2. raw # <<>>
      <4>1. Len(raw) \in Nat
        BY <1>1, SequenceLen
      <4> QED
        BY <3>1, <4>1, ShortSequences
    <3>3. text = SubSeq(raw, 2, Len(raw) - 1)
      BY <3>2 DEF CustomInput
    <3> HIDE DEF raw, text
    <3> QED
      BY <1>1, <3>1, <3>3, MiddleIsPrefix
  <2> QED
    BY <2>1, <2>2 DEF Unwrapped
<1> HIDE DEF text
<1>4. item.unwrapped \o Unsent(item, text) = text
  BY <1>1, <1>2, <1>3, UnsentJoins
<1> QED
  BY <1>4 DEF text

LEMMA FinalTextGrows ==
  ASSUME NEW item, IsItem(item), Unwrapped(item), Steady(item.arguments)
  PROVE  item.unwrapped \o Unsent(item, FinalInput(item.arguments)) = FinalInput(item.arguments)
<1> DEFINE raw == item.arguments
<1>1. CASE Unwraps(raw)
  BY <1>1, CustomTextGrows DEF FinalInput
<1>2. CASE ~Unwraps(raw)
  <2>1. FinalInput(raw) = raw /\ ~IsObject(raw)
    BY <1>2 DEF FinalInput, Unwraps
  <2>2. IsSequence(raw) /\ Len(raw) \in Nat
    BY SequenceLen DEF IsItem
  <2>3. item.unwrapped = <<>>
    BY <2>1, <2>2 DEF Unwrapped, Steady
  <2>4. item.inputEmitted = 0 /\ item.inputEmitted = Len(item.unwrapped)
    BY <2>3, ShortSequences DEF Unwrapped
  <2>5. IsPrefix(item.unwrapped, raw)
    <3> HIDE DEF raw
    <3>1. SubSeq(raw, 1, 0) = <<>> /\ SubSeq(<<>>, 1, 0) = <<>> /\ Len(<<>>) = 0
      BY ShortSequences
    <3> QED
      BY <2>2, <2>3, <3>1 DEF IsPrefix
  <2> HIDE DEF raw
  <2>6. item.unwrapped \o Unsent(item, raw) = raw
    BY <2>2, <2>4, <2>5, UnsentJoins
  <2> QED
    BY <2>1, <2>6 DEF raw
<1> QED
  BY <1>1, <1>2

\* What is sent in the end completes what was sent before, or comes behind the
\* text of an object that the input began with.
LEMMA FinalTextAtEnd ==
  ASSUME NEW item, IsItem(item), Unwrapped(item), NEW text, IsSequence(text)
  PROVE  LET told == item.unwrapped \o Unsent(item, text)
         IN told = text \/ ToldAhead(told, text, item.arguments)
<1> DEFINE u == item.unwrapped
           told == u \o Unsent(item, text)
<1>1. IsSequence(u) /\ item.inputEmitted = Len(u)
  BY DEF IsItem, Unwrapped
<1>2. CASE IsPrefix(u, text)
  BY <1>1, <1>2, UnsentJoins
<1>3. CASE ~IsPrefix(u, text) /\ u = <<>>
  <2>1. told = <<>> \o text
    BY <1>3 DEF Unsent
  <2>2. <<>> \o text = text
    BY ShortSequences DEF IsSequence
  <2> QED
    BY <2>1, <2>2
<1>4. CASE ~IsPrefix(u, text) /\ u # <<>>
  <2>1. told = u \o text
    BY <1>4 DEF Unsent
  <2>2. PICK n \in 2..Len(item.arguments) :
          /\ IsObject(SubSeq(item.arguments, 1, n))
          /\ u = SubSeq(item.arguments, 2, n - 1)
    BY <1>4 DEF Unwrapped
  <2> HIDE DEF told, u
  <2>3. ToldAhead(told, text, item.arguments)
    BY <2>1, <2>2 DEF ToldAhead
  <2> QED
    BY <2>3 DEF told, u
<1> QED
  BY <1>2, <1>3, <1>4

\* More of the input comes.
LEMMA UnwrappedStays ==
  ASSUME NEW item, IsItem(item), Unwrapped(item), NEW runes, IsSequence(runes),
         NEW new, new.unwrapped = item.unwrapped, new.inputEmitted = item.inputEmitted,
         new.arguments = item.arguments \o runes
  PROVE  Unwrapped(new)
<1> DEFINE raw == item.arguments
           more == raw \o runes
           u == item.unwrapped
<1>1. IsSequence(raw) /\ Len(raw) \in Nat /\ Len(runes) \in Nat
  BY SequenceLen DEF IsItem
<1> HIDE DEF raw
<1>2. IsSequence(more) /\ Len(more) = Len(raw) + Len(runes)
  BY <1>1, Concatenation
<1>3. CASE u = <<>>
  BY <1>3 DEF Unwrapped
<1>4. ASSUME NEW n \in 2..Len(raw), IsObject(SubSeq(raw, 1, n)), u = SubSeq(raw, 2, n - 1)
      PROVE  /\ n \in 2..Len(more) /\ IsObject(SubSeq(more, 1, n))
             /\ u = SubSeq(more, 2, n - 1)
  <2>1. n \in Int /\ n - 1 \in Int /\ n <= Len(raw) /\ n - 1 <= Len(raw)
    BY <1>1
  <2>2. SubSeq(more, 1, n) = SubSeq(raw, 1, n) /\ SubSeq(more, 2, n - 1) = SubSeq(raw, 2, n - 1)
    BY <1>1, <2>1, EarlyPart
  <2>3. n \in 2..Len(more)
    BY <1>1, <1>2
  <2> QED
    BY <1>4, <2>2, <2>3
<1>5. new.arguments = more /\ new.unwrapped = u /\ new.inputEmitted = Len(new.unwrapped)
  BY DEF Unwrapped, raw
<1>6. u = <<>> \/ \E n \in 2..Len(raw) : IsObject(SubSeq(raw, 1, n)) /\ u = SubSeq(raw, 2, n - 1)
  BY DEF Unwrapped, raw
<1> HIDE DEF more, u
<1> QED
  BY <1>4, <1>5, <1>6 DEF Unwrapped

\* The object is whole.
LEMMA NowUnwrapped ==
  ASSUME NEW item, IsItem(item), Unwraps(item.arguments), NEW new,
         new.arguments = item.arguments,
         new.unwrapped = CustomInput(item.arguments), new.inputEmitted = Len(CustomInput(item.arguments))
  PROVE  Unwrapped(new)
<1> DEFINE raw == item.arguments
<1>1. IsSequence(raw) /\ Len(raw) \in Nat
  BY SequenceLen DEF IsItem
<1>2. CASE raw = <<>>
  BY <1>2 DEF CustomInput, Unwrapped
<1>3. CASE IsObject(raw) /\ raw # <<>>
  <2>1. CustomInput(raw) = SubSeq(raw, 2, Len(raw) - 1)
    BY <1>3 DEF CustomInput
  <2>2. SubSeq(raw, 1, Len(raw)) = raw
    BY <1>1 DEF IsSequence
  <2>3. Len(raw) \in 2..Len(raw)
    <3> HIDE DEF raw
    <3>1. Len(raw) >= 2
      BY <1>3 DEF IsObject
    <3> QED
      BY <1>1, <3>1
  <2>4. new.arguments = raw /\ new.unwrapped = CustomInput(raw) /\ new.inputEmitted = Len(new.unwrapped)
    OBVIOUS
  <2> HIDE DEF raw
  <2> QED
    BY <1>3, <2>1, <2>2, <2>3, <2>4 DEF Unwrapped
<1> QED
  BY <1>2, <1>3 DEF Unwraps

---------------------------------------------------------------------------
(* Deltas.                                                                 *)

LEMMA TextTells ==
  ASSUME NEW made, NEW r, NEW x, NEW y, InText(r, x, y, made), IsSequence(x),
         NEW e, e.delta = "text_delta", IsSequence(e.payload)
  PROVE  InText(TakeDelta(r, e), x \o e.payload, y, made)
<1> DEFINE item == r.open
           i == item.contentIndex
           t == item.partText
           id == item.id
           data == e.payload
           new == [item EXCEPT !.partText = t \o data]
           c == [r EXCEPT !.open = new]
           d == Emit(c, "output_text.delta", i, data)
           begun == Begins(TextPart, i + 1)
<1>1. /\ Tells(r, {id}, begun, OpenPart(TextPart, i, t), <<>>, {}, x, y, made)
      /\ item.kind = "message" /\ item.partOpen = TRUE /\ i \in Nat /\ IsSequence(t)
  BY DEF InText
<1>2. CASE data = <<>>
  <2>1. TakeDelta(r, e) = r
    BY <1>2 DEF TakeDelta
  <2>2. x \o e.payload = x
    BY <1>2, EmptyConcatenation
  <2> QED
    BY <2>1, <2>2
<1>3. CASE data # <<>>
  <2>1. TakeDelta(r, e) = d
    BY <1>1, <1>3 DEF TakeDelta
  <2>2. IsItem(item)
    BY <1>1 DEF Tells, IsResponsesOut, NoItem, None
  <2>3. IsItem(new)
    BY <2>2, ItemChanges DEF ItemFields
  <2> HIDE DEF item, data
  <2>4. IsSequence(t \o data)
    <3> HIDE DEF t
    <3> QED
      BY <1>1, Concatenation DEF data
  <2>5. /\ new.kind = "message" /\ new.partOpen = TRUE /\ new.partText = t \o data
        /\ new.contentIndex = i /\ new.id = id
    BY <1>1, <2>2 DEF IsItem, ItemFields
  <2> HIDE DEF new, i, t, id, begun
  <2>6. Tells(c, {id}, begun, OpenPart(TextPart, i, t), <<>>, {}, x, y, made) /\ c.open = new
    BY <1>1, <2>3, OpenTells
  <2> HIDE DEF c
  <2>7. /\ Tells(d, {id}, begun, OpenPart(TextPart, i, t \o data), <<>>, {}, x \o data, y, made)
        /\ Same(c, d)
    BY <2>6, EmitText
  <2> HIDE DEF d
  <2>8. d.open = new
    BY <2>6, <2>7 DEF Same
  <2>9. /\ {d.open.id} = {id} /\ Begins(TextPart, d.open.contentIndex + 1) = begun
        /\ OpenPart(TextPart, d.open.contentIndex, d.open.partText) = OpenPart(TextPart, i, t \o data)
    BY <2>5, <2>8 DEF begun
  <2>10. Tells(d, {d.open.id}, Begins(TextPart, d.open.contentIndex + 1),
               OpenPart(TextPart, d.open.contentIndex, d.open.partText), <<>>, {}, x \o data, y, made)
    BY <2>7, <2>9
  <2>11. /\ d.open.kind = "message" /\ d.open.partOpen = TRUE /\ d.open.contentIndex \in Nat
         /\ IsSequence(d.open.partText)
    BY <1>1, <2>4, <2>5, <2>8
  <2>12. InText(d, x \o data, y, made)
    BY <2>10, <2>11 DEF InText
  <2> QED
    BY <2>1, <2>12 DEF data
<1> QED
  BY <1>2, <1>3

LEMMA ReasoningTells ==
  ASSUME NEW made, NEW r, NEW x, NEW y, InReasoning(r, x, y, made), IsSequence(y),
         NEW e, e.delta = "thinking_delta", IsSequence(e.payload)
  PROVE  InReasoning(TakeDelta(r, e), x, y \o e.payload, made)
<1> DEFINE item == r.open
           t == item.thinking
           id == item.id
           data == e.payload
           new == [item EXCEPT !.thinking = t \o data]
           c == [r EXCEPT !.open = new]
           d == Emit(c, "reasoning_summary_text.delta", 0, data)
           begun == {<<SummaryPart, 0>>}
<1>1. /\ Tells(r, {id}, begun, OpenPart(SummaryPart, 0, t), <<>>, {}, x, y, made)
      /\ item.kind = "reasoning" /\ IsSequence(t)
  BY DEF InReasoning
<1>2. CASE data = <<>>
  <2>1. TakeDelta(r, e) = r
    BY <1>2 DEF TakeDelta
  <2>2. y \o e.payload = y
    BY <1>2, EmptyConcatenation
  <2> QED
    BY <2>1, <2>2
<1>3. CASE data # <<>>
  <2>1. TakeDelta(r, e) = d
    BY <1>1, <1>3 DEF TakeDelta
  <2>2. IsItem(item)
    BY <1>1 DEF Tells, IsResponsesOut, NoItem, None
  <2>3. IsItem(new)
    BY <2>2, ItemChanges DEF ItemFields
  <2> HIDE DEF item, data
  <2>4. IsSequence(t \o data)
    <3> HIDE DEF t
    <3> QED
      BY <1>1, Concatenation DEF data
  <2>5. new.kind = "reasoning" /\ new.thinking = t \o data /\ new.id = id
    BY <1>1, <2>2 DEF IsItem, ItemFields
  <2> HIDE DEF new, t, id, begun
  <2>6. Tells(c, {id}, begun, OpenPart(SummaryPart, 0, t), <<>>, {}, x, y, made) /\ c.open = new
    BY <1>1, <2>3, OpenTells
  <2> HIDE DEF c
  <2>7. /\ Tells(d, {id}, begun, OpenPart(SummaryPart, 0, t \o data), <<>>, {}, x, y \o data, made)
        /\ Same(c, d)
    BY <2>6, EmitReasoning
  <2> HIDE DEF d
  <2>8. d.open = new
    BY <2>6, <2>7 DEF Same
  <2>9. /\ {d.open.id} = {id}
        /\ OpenPart(SummaryPart, 0, d.open.thinking) = OpenPart(SummaryPart, 0, t \o data)
    BY <2>5, <2>8
  <2>10. Tells(d, {d.open.id}, begun, OpenPart(SummaryPart, 0, d.open.thinking), <<>>, {}, x, y \o data, made)
    BY <2>7, <2>9
  <2>11. d.open.kind = "reasoning" /\ IsSequence(d.open.thinking)
    BY <2>4, <2>5, <2>8
  <2>12. InReasoning(d, x, y \o data, made)
    BY <2>10, <2>11 DEF InReasoning, begun
  <2> QED
    BY <2>1, <2>12 DEF data
<1> QED
  BY <1>2, <1>3

LEMMA SignatureTells ==
  ASSUME NEW made, NEW r, NEW x, NEW y, InReasoning(r, x, y, made), NEW e, e.delta = "signature_delta"
  PROVE  InReasoning(TakeDelta(r, e), x, y, made)
<1> DEFINE item == r.open
           new == [item EXCEPT !.signature = e.payload]
           c == [r EXCEPT !.open = new]
           begun == {<<SummaryPart, 0>>}
<1>1. /\ Tells(r, {item.id}, begun, OpenPart(SummaryPart, 0, item.thinking), <<>>, {}, x, y, made)
      /\ item.kind = "reasoning" /\ IsSequence(item.thinking)
  BY DEF InReasoning
<1>2. TakeDelta(r, e) = c
  BY <1>1 DEF TakeDelta
<1>3. IsItem(item)
  BY <1>1 DEF Tells, IsResponsesOut, NoItem, None
<1>4. IsItem(new)
  BY <1>3, ItemChanges DEF ItemFields
<1> HIDE DEF item
<1>5. new.kind = "reasoning" /\ new.thinking = item.thinking /\ new.id = item.id
  BY <1>1, <1>3 DEF IsItem, ItemFields
<1> HIDE DEF new, begun
<1>6. Tells(c, {item.id}, begun, OpenPart(SummaryPart, 0, item.thinking), <<>>, {}, x, y, made) /\ c.open = new
  BY <1>1, <1>4, OpenTells
<1> HIDE DEF c
<1>7. Tells(c, {c.open.id}, begun, OpenPart(SummaryPart, 0, c.open.thinking), <<>>, {}, x, y, made)
  BY <1>5, <1>6
<1>8. c.open.kind = "reasoning" /\ IsSequence(c.open.thinking)
  BY <1>1, <1>5, <1>6
<1>9. InReasoning(c, x, y, made)
  BY <1>7, <1>8 DEF InReasoning, begun
<1> QED
  BY <1>2, <1>9

\* emitToolDeltas.
LEMMA ToolDeltasTell ==
  ASSUME NEW made, NEW r, NEW id, NEW begun, NEW cur, NEW input, NEW whole, NEW x, NEW y,
         Tells(r, {id}, begun, cur, input, whole, x, y, made), IsSequence(input),
         r.open.kind \in {"function_call", "custom_tool_call"},
         NEW runes, IsSequence(runes)
  PROVE  /\ Tells(EmitToolDeltas(r, runes), {id}, begun, cur, input \o runes, whole, x, y, made)
         /\ EmitToolDeltas(r, runes).open = r.open
<1> DEFINE s(type) == EmitEach(r, type, ChatSplitRunes(runes, ArgChunkSize))
<1>1. ASSUME NEW type \in ToolDeltas
      PROVE  Tells(s(type), {id}, begun, cur, input \o runes, whole, x, y, made) /\ Same(r, s(type))
  BY EmitFragments
<1>2. \E type \in ToolDeltas : EmitToolDeltas(r, runes) = s(type)
  BY DEF EmitToolDeltas, ToolDeltas
<1> HIDE DEF s
<1> QED
  BY <1>1, <1>2 DEF Same

LEMMA FunctionTells ==
  ASSUME NEW made, NEW r, NEW x, NEW y, InTool(r, x, y, made), r.open.kind = "function_call",
         NEW runes, IsSequence(runes)
  PROVE  /\ InTool(AppendToolArguments(r, runes), x, y, made)
         /\ Fills(r, AppendToolArguments(r, runes), runes)
<1> DEFINE item == r.open
           id == item.id
           raw == item.arguments
           new == [item EXCEPT !.arguments = raw \o runes]
           c == [r EXCEPT !.open = new]
           d == EmitToolDeltas(c, runes)
<1>1. d = AppendToolArguments(r, runes)
  BY DEF AppendToolArguments
<1>2. Tells(r, {id}, {}, NoPart, raw, {}, x, y, made) /\ item.kind = "function_call"
  BY DEF InTool, SentInput
<1>3. IsItem(item) /\ IsSequence(raw)
  BY <1>2 DEF Tells, IsResponsesOut, NoItem, None, IsItem
<1> HIDE DEF item, raw
<1>4. IsSequence(raw \o runes)
  BY <1>3, Concatenation
<1>5. IsItem(new) /\ new.arguments = raw \o runes
  BY <1>3, <1>4, InputChanges
<1>6. new.kind = "function_call" /\ new.id = id
  BY <1>2, <1>3 DEF IsItem, ItemFields
<1> HIDE DEF new, id
<1>7. Tells(c, {id}, {}, NoPart, raw, {}, x, y, made) /\ c.open = new
  BY <1>2, <1>5, OpenTells
<1> HIDE DEF c
<1>8. Tells(d, {id}, {}, NoPart, raw \o runes, {}, x, y, made) /\ d.open = new
  <2>1. c.open.kind \in {"function_call", "custom_tool_call"}
    BY <1>6, <1>7
  <2> QED
    BY <1>3, <1>7, <2>1, ToolDeltasTell
<1> HIDE DEF d
<1>9. SentInput(d.open) = raw \o runes /\ d.open.id = id
  BY <1>5, <1>6, <1>8 DEF SentInput
<1>10. Tells(d, {d.open.id}, {}, NoPart, SentInput(d.open), {}, x, y, made)
  BY <1>8, <1>9
<1>11. d.open.kind \in ToolItemKinds /\ d.open.kind # "custom_tool_call"
  BY <1>6, <1>8 DEF ToolItemKinds
<1>12. InTool(d, x, y, made)
  BY <1>10, <1>11 DEF InTool
<1> QED
  BY <1>1, <1>2, <1>5, <1>6, <1>8, <1>12 DEF Fills, raw, item, id

LEMMA SearchTells ==
  ASSUME NEW made, NEW r, NEW x, NEW y, InTool(r, x, y, made), r.open.kind = "tool_search_call",
         NEW runes, IsSequence(runes)
  PROVE  /\ InTool(AppendToolArguments(r, runes), x, y, made)
         /\ Fills(r, AppendToolArguments(r, runes), runes)
<1> DEFINE item == r.open
           id == item.id
           raw == item.arguments
           new == [item EXCEPT !.arguments = raw \o runes]
           c == [r EXCEPT !.open = new]
<1>1. c = AppendToolArguments(r, runes)
  BY DEF AppendToolArguments
<1>2. Tells(r, {id}, {}, NoPart, <<>>, {}, x, y, made) /\ item.kind = "tool_search_call"
  BY DEF InTool, SentInput
<1>3. IsItem(item) /\ IsSequence(raw)
  BY <1>2 DEF Tells, IsResponsesOut, NoItem, None, IsItem
<1> HIDE DEF item, raw
<1>4. IsSequence(raw \o runes)
  BY <1>3, Concatenation
<1>5. IsItem(new) /\ new.arguments = raw \o runes
  BY <1>3, <1>4, InputChanges
<1>6. new.kind = "tool_search_call" /\ new.id = id
  BY <1>2, <1>3 DEF IsItem, ItemFields
<1> HIDE DEF new, id
<1>7. Tells(c, {id}, {}, NoPart, <<>>, {}, x, y, made) /\ c.open = new
  BY <1>2, <1>5, OpenTells
<1> HIDE DEF c
<1>8. SentInput(c.open) = <<>> /\ c.open.id = id
  BY <1>6, <1>7 DEF SentInput
<1>9. Tells(c, {c.open.id}, {}, NoPart, SentInput(c.open), {}, x, y, made)
  BY <1>7, <1>8
<1>10. c.open.kind \in ToolItemKinds /\ c.open.kind # "custom_tool_call"
  BY <1>6, <1>7 DEF ToolItemKinds
<1>11. InTool(c, x, y, made)
  BY <1>9, <1>10 DEF InTool
<1> QED
  BY <1>1, <1>2, <1>5, <1>6, <1>7, <1>11 DEF Fills, raw, item, id

\* appendCustomInputDelta.
LEMMA CustomInputTells ==
  ASSUME NEW made, NEW r, NEW x, NEW y, InTool(r, x, y, made), r.open.kind = "custom_tool_call"
  PROVE  /\ InTool(AppendCustomInput(r), x, y, made)
         /\ AppendCustomInput(r).open.arguments = r.open.arguments
         /\ AppendCustomInput(r).open.kind = r.open.kind
         /\ AppendCustomInput(r).open.id = r.open.id
<1> DEFINE item == r.open
           id == item.id
           raw == item.arguments
           sent == item.unwrapped
           text == CustomInput(raw)
           rest == Unsent(item, text)
           new  == [item EXCEPT !.unwrapped = text, !.inputEmitted = Len(text)]
           c    == [r EXCEPT !.open = new]
           d    == EmitToolDeltas(c, rest)
<1>1. CASE ~Unwraps(raw)
  <2>1. AppendCustomInput(r) = r
    BY <1>1 DEF AppendCustomInput
  <2> QED
    BY <2>1
<1>2. CASE Unwraps(raw)
  <2>1. /\ Tells(r, {id}, {}, NoPart, sent, {}, x, y, made) /\ item.kind = "custom_tool_call"
        /\ Unwrapped(item)
    BY DEF InTool, SentInput
  <2>2. IsResponsesOut(r) /\ IsItem(item) /\ IsSequence(raw) /\ IsSequence(sent)
    BY <2>1 DEF Tells, IsResponsesOut, NoItem, None, IsItem
  <2>3. AppendCustomInput(r) = d
    BY <1>2, <2>2 DEF AppendCustomInput, IsResponsesOut, ResponsesFields, IsItem, ItemFields
  <2>4. sent \o rest = text
    BY <1>2, <2>1, <2>2, CustomTextGrows
  <2> HIDE DEF item
  <2>5. IsSequence(text)
    BY <2>2, InputTexts
  <2>6. IsSequence(rest) /\ IsItem(new)
    <3> HIDE DEF text
    <3> QED
      BY <2>2, <2>5, InputTexts, InputChanges
  <2>7. /\ new.kind = "custom_tool_call" /\ new.id = id /\ new.arguments = raw
        /\ new.unwrapped = text /\ new.inputEmitted = Len(text)
    <3> HIDE DEF text
    <3> QED
      BY <2>1, <2>2 DEF IsItem, ItemFields
  <2>8. Unwrapped(new)
    <3> HIDE DEF new
    <3> QED
      BY <1>2, <2>2, <2>7, NowUnwrapped
  <2> HIDE DEF rest, new, text, sent, raw, id
  <2>9. Tells(c, {id}, {}, NoPart, sent, {}, x, y, made) /\ c.open = new
    BY <2>1, <2>6, OpenTells
  <2> HIDE DEF c
  <2>10. Tells(d, {id}, {}, NoPart, sent \o rest, {}, x, y, made) /\ d.open = new
    <3>1. c.open.kind \in {"function_call", "custom_tool_call"}
      BY <2>7, <2>9
    <3> QED
      BY <2>2, <2>6, <2>9, <3>1, ToolDeltasTell
  <2> HIDE DEF d
  <2>11. SentInput(d.open) = text /\ d.open.id = id
    BY <2>7, <2>10 DEF SentInput
  <2>12. Tells(d, {d.open.id}, {}, NoPart, SentInput(d.open), {}, x, y, made)
    BY <2>4, <2>10, <2>11
  <2>13. d.open.kind \in ToolItemKinds /\ Unwrapped(d.open)
    BY <2>7, <2>8, <2>10 DEF ToolItemKinds
  <2>14. InTool(d, x, y, made)
    BY <2>12, <2>13 DEF InTool
  <2> QED
    BY <2>1, <2>3, <2>7, <2>10, <2>14 DEF raw, item, id
<1> QED
  BY <1>1, <1>2

LEMMA CustomTells ==
  ASSUME NEW made, NEW r, NEW x, NEW y, InTool(r, x, y, made), r.open.kind = "custom_tool_call",
         NEW runes, IsSequence(runes)
  PROVE  /\ InTool(AppendToolArguments(r, runes), x, y, made)
         /\ Fills(r, AppendToolArguments(r, runes), runes)
<1> DEFINE item == r.open
           id == item.id
           raw == item.arguments
           sent == item.unwrapped
           new == [item EXCEPT !.arguments = raw \o runes]
           c == [r EXCEPT !.open = new]
<1>1. AppendToolArguments(r, runes) = AppendCustomInput(c)
  BY DEF AppendToolArguments
<1>2. /\ Tells(r, {id}, {}, NoPart, sent, {}, x, y, made) /\ item.kind = "custom_tool_call"
      /\ Unwrapped(item)
  BY DEF InTool, SentInput
<1>3. IsItem(item) /\ IsSequence(raw)
  BY <1>2 DEF Tells, IsResponsesOut, NoItem, None, IsItem
<1> HIDE DEF item
<1>4. IsSequence(raw \o runes)
  <2> HIDE DEF raw
  <2> QED
    BY <1>3, Concatenation
<1>5. IsItem(new) /\ new.arguments = raw \o runes
  <2> HIDE DEF raw
  <2> QED
    BY <1>3, <1>4, InputChanges
<1>6. /\ new.kind = "custom_tool_call" /\ new.id = id
      /\ new.unwrapped = sent /\ new.inputEmitted = item.inputEmitted
  BY <1>2, <1>3 DEF IsItem, ItemFields
<1> HIDE DEF new
<1>7. Unwrapped(new)
  BY <1>2, <1>3, <1>5, <1>6, UnwrappedStays
<1> HIDE DEF id, raw, sent
<1>8. Tells(c, {id}, {}, NoPart, sent, {}, x, y, made) /\ c.open = new
  BY <1>2, <1>5, OpenTells
<1> HIDE DEF c
<1>9. SentInput(c.open) = sent /\ c.open.id = id
  BY <1>6, <1>8 DEF SentInput
<1>10. Tells(c, {c.open.id}, {}, NoPart, SentInput(c.open), {}, x, y, made)
  BY <1>8, <1>9
<1>11. c.open.kind \in ToolItemKinds /\ c.open.kind = "custom_tool_call" /\ Unwrapped(c.open)
  BY <1>6, <1>7, <1>8 DEF ToolItemKinds
<1>12. InTool(c, x, y, made)
  BY <1>10, <1>11 DEF InTool
<1> DEFINE d == AppendCustomInput(c)
<1>13. /\ InTool(d, x, y, made) /\ d.open.arguments = c.open.arguments
       /\ d.open.kind = c.open.kind /\ d.open.id = c.open.id
  BY <1>11, <1>12, CustomInputTells
<1> HIDE DEF d
<1> QED
  BY <1>1, <1>2, <1>5, <1>6, <1>8, <1>13 DEF Fills, d, raw, item, id

LEMMA InputTells ==
  ASSUME NEW made, NEW r, NEW x, NEW y, InTool(r, x, y, made),
         NEW e, e.delta = "input_json_delta", IsSequence(e.payload)
  PROVE  /\ InTool(TakeDelta(r, e), x, y, made)
         /\ Fills(r, TakeDelta(r, e), e.payload)
<1> DEFINE runes == e.payload
           raw == r.open.arguments
<1>1. r.open.kind \in ToolItemKinds /\ r.open # NoItem
  BY DEF InTool, ToolItemKinds, NoItem, None
<1>2. IsSequence(raw)
  BY <1>1 DEF InTool, Tells, IsResponsesOut, IsItem
<1>3. CASE runes = <<>>
  <2>1. TakeDelta(r, e) = r
    BY <1>3 DEF TakeDelta
  <2>2. raw \o runes = raw
    <3> HIDE DEF raw
    <3> QED
      BY <1>2, <1>3, EmptyConcatenation
  <2> QED
    BY <2>1, <2>2 DEF Fills
<1>4. CASE runes # <<>>
  <2>1. TakeDelta(r, e) = AppendToolArguments(r, runes)
    BY <1>1, <1>4 DEF TakeDelta
  <2>2. /\ InTool(AppendToolArguments(r, runes), x, y, made)
        /\ Fills(r, AppendToolArguments(r, runes), runes)
    <3>1. CASE r.open.kind = "function_call"
      BY <3>1, FunctionTells
    <3>2. CASE r.open.kind = "custom_tool_call"
      BY <3>2, CustomTells
    <3>3. CASE r.open.kind = "tool_search_call"
      BY <3>3, SearchTells
    <3> QED
      BY <1>1, <3>1, <3>2, <3>3 DEF ToolItemKinds
  <2> QED
    BY <2>1, <2>2
<1> QED
  BY <1>3, <1>4

---------------------------------------------------------------------------
(* The end of a block, of the message and of the stream.                   *)

\* The input of the tool was that of its call.
CallKnown(item, made) ==
  \E c \in made : item.id = <<item.kind, c.call>> /\ c.input = item.arguments

LEMMA CustomDoneTells ==
  ASSUME NEW made, NEW r, NEW x, NEW y, InTool(r, x, y, made), r.open.kind = "custom_tool_call",
         CallKnown(r.open, made)
  PROVE  Between(CloseCustom(r), x, y, made)
<1> DEFINE item == r.open
           id == item.id
           sent == item.unwrapped
           text == FinalInput(item.arguments)
           rest == Unsent(item, text)
           a    == EmitToolDeltas(r, rest)
           new  == [a.open EXCEPT !.unwrapped = text]
           b    == [a EXCEPT !.open = new]
           c    == Emit(b, "custom_tool_call_input.done", 0, text)
           d    == CloseOpen(c)
<1>1. CloseCustom(r) = d
  BY DEF CloseCustom
<1>2. /\ Tells(r, {id}, {}, NoPart, sent, {}, x, y, made) /\ item.kind = "custom_tool_call"
      /\ Unwrapped(item)
  BY DEF InTool, SentInput
<1>3. IsItem(item) /\ IsSequence(item.arguments) /\ IsSequence(sent)
  BY <1>2 DEF Tells, IsResponsesOut, NoItem, None, IsItem
<1>5. IsSequence(text)
  BY <1>3, InputTexts
<1>4. /\ sent \o rest = text \/ ToldAhead(sent \o rest, text, item.arguments)
      /\ Steady(item.arguments) => sent \o rest = text
  <2>1. Steady(item.arguments) => sent \o rest = text
    BY <1>2, <1>3, FinalTextGrows
  <2> HIDE DEF text
  <2>2. sent \o rest = text \/ ToldAhead(sent \o rest, text, item.arguments)
    BY <1>2, <1>3, <1>5, FinalTextAtEnd
  <2> QED
    BY <2>1, <2>2
<1>16. PICK call \in made : id = <<item.kind, call.call>> /\ call.input = item.arguments
  BY DEF CallKnown
<1>17. text = FinalInput(call.input)
  BY <1>16
<1> HIDE DEF item
<1> HIDE DEF text
<1>6. IsSequence(rest)
  BY <1>3, <1>5, InputTexts
<1> HIDE DEF rest, sent, id
<1> DEFINE told == sent \o rest
<1>7. Tells(a, {id}, {}, NoPart, sent \o rest, {}, x, y, made) /\ a.open = item
  <2>1. r.open.kind \in {"function_call", "custom_tool_call"}
    OBVIOUS
  <2>2. Tells(a, {id}, {}, NoPart, sent \o rest, {}, x, y, made) /\ a.open = r.open
    BY <1>2, <1>3, <1>6, <2>1, ToolDeltasTell
  <2> QED
    BY <2>2 DEF item
<1> HIDE DEF a
<1>8. IsItem(new)
  BY <1>3, <1>5, <1>7, InputChanges
<1>9. new.kind = "custom_tool_call" /\ new.id = id /\ new.unwrapped = text
  BY <1>2, <1>3, <1>7 DEF IsItem, ItemFields, id
<1> HIDE DEF new
<1>10. Tells(b, {id}, {}, NoPart, told, {}, x, y, made) /\ b.open = new
  BY <1>7, <1>8, OpenTells
<1> HIDE DEF b, told
<1>11. Tells(c, {id}, {}, NoPart, told, {text}, x, y, made) /\ c.open = new
  <2>1. "custom_tool_call_input.done" \in ToolDones /\ {} \cup {text} = {text}
    BY DEF ToolDones
  <2>2. Tells(c, {id}, {}, NoPart, told, {} \cup {text}, x, y, made) /\ Same(b, c)
    BY <1>10, <2>1, EmitToolDone
  <2> HIDE DEF c
  <2> QED
    BY <1>10, <2>1, <2>2 DEF Same
<1> HIDE DEF c
<1>12. CloseParts(c) = c /\ c.open # NoItem
  BY <1>9, <1>11 DEF CloseParts, NoItem, None
<1>13. c.open.kind = "custom_tool_call" /\ c.open.id = id
       /\ c.open.kind \in ToolItemKinds \cup {"message", "reasoning"}
  BY <1>9, <1>11 DEF ToolItemKinds
<1> DEFINE f == DoneItem(c.open)
<1>14. f.kind = "custom_tool_call" /\ f.id = id /\ f.content = text
  <2>1. c.open.unwrapped = text
    BY <1>9, <1>11
  <2> QED
    BY <1>13, <2>1, DoneItemFields DEF SentInput
<1> HIDE DEF f
<1>18. ItemSays(f, told, {text}, made)
  <2>1. call \in CallOf(f, made) /\ WholeInput(f, call) = f.content
    BY <1>2, <1>14, <1>16, <1>17 DEF CallOf, WholeInput
  <2>2. {text} \subseteq {f.content}
    BY <1>14
  <2>3. MakesUp(told, f, made)
    <3>1. CASE Steady(call.input)
      BY <1>4, <1>14, <1>16, <3>1 DEF MakesUp, told
    <3>2. CASE ~Steady(call.input)
      BY <1>4, <1>14, <1>16, <2>1, <3>2 DEF MakesUp, told
    <3> QED
      BY <3>1, <3>2
  <2> QED
    BY <2>1, <2>2, <2>3 DEF ItemSays
<1>19. Tells(c, {c.open.id}, {}, NoPart, told, {text}, x, y, made)
  BY <1>11, <1>13
<1>15. Between(d, x, y, made)
  BY <1>12, <1>13, <1>18, <1>19, ItemDoneTells DEF f
<1> QED
  BY <1>1, <1>15

LEMMA FunctionDoneTells ==
  ASSUME NEW made, NEW r, NEW x, NEW y, InTool(r, x, y, made), r.open.kind = "function_call",
         CallKnown(r.open, made)
  PROVE  Between(CloseResponsesBlock(r), x, y, made)
<1> DEFINE item == r.open
           id == item.id
           raw == item.arguments
           c == Emit(r, "function_call_arguments.done", 0, raw)
           d == CloseOpen(c)
<1>1. CloseResponsesBlock(r) = d
  BY DEF CloseResponsesBlock
<1>2. Tells(r, {id}, {}, NoPart, raw, {}, x, y, made) /\ item.kind = "function_call"
  BY DEF InTool, SentInput
<1>8. PICK call \in made : id = <<item.kind, call.call>> /\ call.input = raw
  BY DEF CallKnown
<1> HIDE DEF item, raw, id
<1>3. Tells(c, {id}, {}, NoPart, raw, {raw}, x, y, made) /\ c.open = item
  <2>1. "function_call_arguments.done" \in ToolDones /\ {} \cup {raw} = {raw}
    BY DEF ToolDones
  <2>2. Tells(c, {id}, {}, NoPart, raw, {} \cup {raw}, x, y, made) /\ Same(r, c)
    BY <1>2, <2>1, EmitToolDone
  <2> HIDE DEF c
  <2> QED
    BY <2>1, <2>2 DEF Same, item
<1> HIDE DEF c
<1>4. CloseParts(c) = c /\ c.open # NoItem
  BY <1>2, <1>3 DEF CloseParts, NoItem, None
<1>5. c.open.kind = "function_call" /\ c.open.id = id
      /\ c.open.kind \in ToolItemKinds \cup {"message", "reasoning"}
  BY <1>2, <1>3 DEF ToolItemKinds, id
<1> DEFINE f == DoneItem(c.open)
<1>9. f.kind = "function_call" /\ f.id = id /\ f.content = raw
  <2>1. c.open.arguments = raw
    BY <1>3 DEF raw
  <2> QED
    BY <1>5, <2>1, DoneItemFields DEF SentInput
<1> HIDE DEF f
<1>10. ItemSays(f, raw, {raw}, made)
  <2>1. call \in CallOf(f, made) /\ WholeInput(f, call) = f.content
    BY <1>2, <1>8, <1>9 DEF CallOf, WholeInput
  <2>2. {raw} \subseteq {f.content} /\ MakesUp(raw, f, made)
    BY <1>9 DEF MakesUp
  <2> QED
    BY <2>1, <2>2 DEF ItemSays
<1>6. Tells(c, {c.open.id}, {}, NoPart, raw, {raw}, x, y, made)
  BY <1>3, <1>5
<1>7. Between(d, x, y, made)
  BY <1>4, <1>5, <1>6, <1>10, ItemDoneTells DEF f
<1> QED
  BY <1>1, <1>7

LEMMA BlockDoneTells ==
  ASSUME NEW made, NEW r, NEW x, NEW y
  PROVE  /\ InText(r, x, y, made) => AfterText(CloseResponsesBlock(r), x, y, made)
         /\ InReasoning(r, x, y, made) => Between(CloseResponsesBlock(r), x, y, made)
         /\ InTool(r, x, y, made) /\ CallKnown(r.open, made) => Between(CloseResponsesBlock(r), x, y, made)
<1>1. ASSUME InText(r, x, y, made) PROVE AfterText(CloseResponsesBlock(r), x, y, made)
  <2>1. CloseResponsesBlock(r) = CloseTextPart(r)
    BY <1>1 DEF CloseResponsesBlock, InText
  <2> QED
    BY <1>1, <2>1, CloseTextTells
<1>2. ASSUME InReasoning(r, x, y, made) PROVE Between(CloseResponsesBlock(r), x, y, made)
  <2>1. CloseResponsesBlock(r) = CloseOpen(r)
    BY <1>2 DEF CloseResponsesBlock, InReasoning
  <2> QED
    BY <1>2, <2>1, CloseOpenTells DEF Good
<1>3. ASSUME InTool(r, x, y, made), CallKnown(r.open, made)
      PROVE  Between(CloseResponsesBlock(r), x, y, made)
  <2>1. CASE r.open.kind = "function_call"
    BY <1>3, <2>1, FunctionDoneTells
  <2>2. CASE r.open.kind = "custom_tool_call"
    <3>1. CloseResponsesBlock(r) = CloseCustom(r)
      BY <2>2 DEF CloseResponsesBlock
    <3> QED
      BY <1>3, <2>2, <3>1, CustomDoneTells
  <2>3. CASE r.open.kind = "tool_search_call"
    <3>1. CloseResponsesBlock(r) = CloseOpen(r)
      BY <2>3 DEF CloseResponsesBlock
    <3> QED
      BY <1>3, <3>1, CloseOpenTells DEF Good
  <2> QED
    BY <1>3, <2>1, <2>2, <2>3 DEF InTool, ToolItemKinds
<1> QED
  BY <1>1, <1>2, <1>3

\* created and in_progress.
LEMMA StartedTells ==
  ASSUME NEW made PROVE Between(StartResponse(NewResponsesOut), <<>>, <<>>, made)
<1> DEFINE n == NewResponsesOut
           a == [n EXCEPT !.started = TRUE]
           b == Emit(a, "created", 0, None)
           c == Emit(b, "in_progress", 0, None)
<1>1. StartResponse(NewResponsesOut) = c
  BY DEF StartResponse, NewResponsesOut
<1>2. /\ a.open = NoItem /\ a.seq = 0 /\ a.frames = <<>> /\ a.outputIndex = 0 /\ a.output = <<>>
      /\ a.terminated = FALSE /\ a.failed = FALSE
      /\ a = [f \in ResponsesFields |-> a[f]]
  BY DEF NewResponsesOut, ResponsesFields
<1> HIDE DEF a
<1>3. IsResponsesOut(a)
  <2>1. IsSequence(a.frames)
    BY <1>2, ShortSequences, Zenon
  <2>2. a.terminated \in BOOLEAN /\ a.failed \in BOOLEAN
    BY <1>2, Zenon
  <2>3. a.seq \in Nat
    BY <1>2
  <2> QED
    BY <1>2, <2>1, <2>2, <2>3, Zenon DEF IsResponsesOut
<1>4. Told(a.frames, a.outputIndex, {}, {}, NoPart, <<>>, {}, a.output, <<>>, <<>>, made)
  BY <1>2, NothingTold
<1>5. Tells(a, {}, {}, NoPart, <<>>, {}, <<>>, <<>>, made)
  BY <1>2, <1>3, <1>4, ShortSequences DEF Tells
<1>6. "created" \in AboutResponse /\ "in_progress" \in AboutResponse
  BY DEF AboutResponse
<1>7. Tells(b, {}, {}, NoPart, <<>>, {}, <<>>, <<>>, made) /\ Same(a, b)
  BY <1>5, <1>6, EmitAboutResponse
<1> HIDE DEF b
<1>8. Tells(c, {}, {}, NoPart, <<>>, {}, <<>>, <<>>, made) /\ Same(b, c)
  BY <1>6, <1>7, EmitAboutResponse
<1> HIDE DEF c
<1> QED
  BY <1>1, <1>2, <1>7, <1>8 DEF Between, Same

\* Other fields change.
LEMMA GoodQuietly ==
  ASSUME NEW made, NEW r, NEW x, NEW y, Good(r, x, y, made), NEW s, IsResponsesOut(s),
         s.open = r.open, s.frames = r.frames, s.seq = r.seq,
         s.outputIndex = r.outputIndex, s.output = r.output
  PROVE  Good(s, x, y, made)
<1>1. \A open, begun, cur, input, whole :
        Tells(r, open, begun, cur, input, whole, x, y, made) => Tells(s, open, begun, cur, input, whole, x, y, made)
  BY DEF Tells
<1>2. Between(r, x, y, made) => Between(s, x, y, made)
  BY <1>1 DEF Between
<1>3. AfterText(r, x, y, made) => AfterText(s, x, y, made)
  BY <1>1 DEF AfterText
<1>4. InText(r, x, y, made) => InText(s, x, y, made)
  BY <1>1 DEF InText
<1>5. InReasoning(r, x, y, made) => InReasoning(s, x, y, made)
  BY <1>1 DEF InReasoning
<1>6. InTool(r, x, y, made) => InTool(s, x, y, made)
  BY <1>1 DEF InTool
<1> QED
  BY <1>2, <1>3, <1>4, <1>5, <1>6 DEF Good

LEMMA CaptureTells ==
  ASSUME NEW made, NEW r, NEW x, NEW y, Good(r, x, y, made), NEW e
  PROVE  Good(CaptureMeta(r, e), x, y, made)
<1> DEFINE c == CaptureMeta(r, e)
<1>1. IsResponsesOut(r)
  BY GoodType
<1>2. /\ c.open = r.open /\ c.seq = r.seq /\ c.frames = r.frames /\ c.outputIndex = r.outputIndex
      /\ c.output = r.output
  BY <1>1 DEF IsResponsesOut, ResponsesFields, CaptureMeta
<1>3. IsResponsesOut(c)
  BY <1>1, CaptureMetaFollows DEF Follows
<1> HIDE DEF c
<1>4. Good(c, x, y, made)
  BY <1>2, <1>3, GoodQuietly
<1> QED
  BY <1>4 DEF c

---------------------------------------------------------------------------
(* The terminal event.                                                     *)

\* No terminal event was sent.
NoneTerminal(fs) == \A i \in 1..Len(fs) : fs[i].type \notin TerminalTypes

\* The last event, and no other, is terminal; it lists the items done.
EndTold(fs, output, failed) ==
  /\ Len(fs) \in Nat \ {0}
  /\ \A i \in 1..Len(fs) : fs[i].type \in TerminalTypes <=> i = Len(fs)
  /\ fs[Len(fs)].data.output = output
  /\ fs[Len(fs)].type = "failed" <=> failed

LEMMA FollowsRegular ==
  ASSUME NEW r, NEW s, Follows(r, s), IsSequence(r.frames), NoneTerminal(r.frames)
  PROVE  NoneTerminal(s.frames)
<1>1. PICK g : Regular(g, r.seq) /\ s.frames = r.frames \o g
  BY DEF Follows
<1> DEFINE h == r.frames
           u == h \o g
<1>2. IsSequence(g) /\ IsSequence(h) /\ \A i \in 1..Len(g) : g[i].type \notin TerminalTypes
  BY <1>1 DEF Regular
<1>3. \A i \in 1..Len(h) : h[i].type \notin TerminalTypes
  BY DEF NoneTerminal
<1> HIDE DEF h
<1>4. /\ Len(u) = Len(h) + Len(g) /\ Len(h) \in Nat /\ Len(g) \in Nat
      /\ \A i \in 1..Len(h) : u[i] = h[i]
      /\ \A i \in 1..Len(g) : u[Len(h) + i] = g[i]
  BY <1>2, Concatenation, SequenceLen
<1> HIDE DEF u
<1>5. ASSUME NEW i \in 1..Len(u) PROVE u[i].type \notin TerminalTypes
  <2>1. CASE i \in 1..Len(h)
    BY <1>3, <1>4, <2>1
  <2>2. CASE i \notin 1..Len(h)
    <3> DEFINE j == i - Len(h)
    <3>1. j \in 1..Len(g) /\ i = Len(h) + j
      BY <1>4, <2>2
    <3> HIDE DEF j
    <3>2. u[i] = g[j]
      BY <1>4, <3>1
    <3> QED
      BY <1>2, <3>1, <3>2
  <2> QED
    BY <2>1, <2>2
<1> QED
  BY <1>1, <1>5 DEF NoneTerminal, u, h

LEMMA FinishTells ==
  ASSUME NEW made, NEW r, NEW x, NEW y, Good(r, x, y, made), ~r.terminated, NoneTerminal(r.frames)
  PROVE  LET t == FinishResponse(r)
         IN Between(t, x, y, made) /\ t.terminated /\ EndTold(t.frames, t.output, t.failed)
            /\ t.failed = r.failed
<1> DEFINE a == [r EXCEPT !.terminated = TRUE]
           c == CloseOpen(a)
           status == TerminalStatus(c)
           data == [output |-> c.output, usage |-> ResponsesUsageFromDelta(c.usage)]
           t == Emit(c, status, 0, data)
           e == EventOf(c, status, 0, data)
<1>1. FinishResponse(r) = t
  BY DEF FinishResponse, Terminated
<1>2. IsResponsesOut(r)
  BY GoodType
<1>3. /\ a.open = r.open /\ a.seq = r.seq /\ a.frames = r.frames /\ a.outputIndex = r.outputIndex
      /\ a.output = r.output /\ a.failed = r.failed /\ a.terminated
      /\ a = [f \in ResponsesFields |-> a[f]]
  BY <1>2 DEF IsResponsesOut, ResponsesFields
<1>4. IsResponsesOut(a)
  <2> HIDE DEF a
  <2> QED
    BY <1>2, <1>3 DEF IsResponsesOut
<1> HIDE DEF a
<1>5. Good(a, x, y, made)
  BY <1>3, <1>4, GoodQuietly
<1>6. Between(c, x, y, made)
  BY <1>5, CloseOpenTells
<1>7. Follows(a, c)
  BY <1>4, CloseOpenFollows
<1>8. c.terminated /\ c.failed = r.failed /\ IsResponsesOut(c)
  BY <1>3, <1>7 DEF Follows
<1>9. NoneTerminal(c.frames)
  <2>1. IsSequence(a.frames) /\ NoneTerminal(a.frames)
    BY <1>3, <1>4 DEF IsResponsesOut
  <2> QED
    BY <1>7, <2>1, FollowsRegular
<1> HIDE DEF c
<1>10. /\ status \in TerminalTypes /\ (status = "failed" <=> c.failed)
  BY <1>8 DEF TerminalStatus, TerminalTypes, IsResponsesOut
<1>11. e.type = status /\ e.data.output = c.output
  BY DEF EventOf
<1>12. TerminalTypes \subseteq AboutResponse
  BY DEF TerminalTypes, AboutResponse
<1>13. Tells(c, {}, {}, NoPart, <<>>, {}, x, y, made) /\ c.open = NoItem
  BY <1>6 DEF Between
<1> HIDE DEF status, data
<1>14. Tells(t, {}, {}, NoPart, <<>>, {}, x, y, made) /\ Same(c, t)
  BY <1>10, <1>12, <1>13, EmitAboutResponse
<1>15. Sends(c, t, e)
  BY <1>13, EmitSends DEF Tells
<1> HIDE DEF t, e
<1>16. t.frames = Append(c.frames, e)
  BY <1>15 DEF Sends
<1>17. EndTold(t.frames, t.output, t.failed)
  <2> DEFINE h == c.frames
             fs == Append(h, e)
  <2>1. /\ IsSequence(h) /\ Len(h) \in Nat /\ \A i \in 1..Len(h) : h[i].type \notin TerminalTypes
    BY <1>8, <1>9, SequenceLen DEF IsResponsesOut, NoneTerminal
  <2> HIDE DEF h
  <2>2. /\ Len(fs) = Len(h) + 1 /\ fs[Len(h) + 1] = e /\ \A i \in 1..Len(h) : fs[i] = h[i]
    BY <2>1, Appended
  <2> HIDE DEF fs
  <2>3. Len(fs) \in Nat \ {0} /\ fs[Len(fs)] = e
    BY <2>1, <2>2
  <2>4. \A i \in 1..Len(fs) : fs[i].type \in TerminalTypes <=> i = Len(fs)
    <3> SUFFICES ASSUME NEW i \in 1..Len(fs) PROVE fs[i].type \in TerminalTypes <=> i = Len(fs)
      OBVIOUS
    <3>1. CASE i = Len(fs)
      BY <1>10, <1>11, <2>3, <3>1
    <3>2. CASE i # Len(fs)
      <4>1. i \in 1..Len(h)
        BY <2>1, <2>2, <3>2
      <4> QED
        BY <2>1, <2>2, <3>2, <4>1
    <3> QED
      BY <3>1, <3>2
  <2>5. fs[Len(fs)].data.output = t.output /\ (fs[Len(fs)].type = "failed" <=> t.failed)
    BY <1>10, <1>11, <1>14, <2>3 DEF Same
  <2>6. EndTold(fs, t.output, t.failed)
    BY <2>3, <2>4, <2>5 DEF EndTold
  <2> QED
    BY <1>16, <2>6 DEF fs, h
<1> QED
  BY <1>1, <1>8, <1>13, <1>14, <1>17 DEF Between, Same

LEMMA FailTells ==
  ASSUME NEW made, NEW r, NEW x, NEW y, Good(r, x, y, made), ~r.terminated, NoneTerminal(r.frames), NEW m
  PROVE  LET t == Fail(r, m)
         IN Between(t, x, y, made) /\ t.terminated /\ EndTold(t.frames, t.output, t.failed) /\ t.failed
<1> DEFINE a == [r EXCEPT !.failed = TRUE, !.errMsg = m]
<1>1. Fail(r, m) = FinishResponse(a)
  BY DEF Fail, Terminated
<1>2. IsResponsesOut(r)
  BY GoodType
<1>3. /\ a.open = r.open /\ a.seq = r.seq /\ a.frames = r.frames /\ a.outputIndex = r.outputIndex
      /\ a.output = r.output /\ a.failed /\ a.terminated = r.terminated /\ a.failed = TRUE
      /\ a = [f \in ResponsesFields |-> a[f]]
  BY <1>2 DEF IsResponsesOut, ResponsesFields
<1> HIDE DEF a
<1>4. IsResponsesOut(a)
  BY <1>2, <1>3 DEF IsResponsesOut
<1>5. Good(a, x, y, made)
  BY <1>3, <1>4, GoodQuietly
<1>6. ~a.terminated /\ NoneTerminal(a.frames)
  BY <1>3
<1>7. LET t == FinishResponse(a)
      IN Between(t, x, y, made) /\ t.terminated /\ EndTold(t.frames, t.output, t.failed) /\ t.failed = a.failed
  BY <1>5, <1>6, FinishTells
<1> QED
  BY <1>1, <1>3, <1>7

---------------------------------------------------------------------------
(* What the properties say of the events follows from what they tell.      *)

LEMMA PartsInOrder ==
  ASSUME NEW fs, IsSequence(fs), NEW k \in Nat, NEW open, ItemsTold(fs, k, open),
         NEW begun, NEW cur, PartsTold(fs, k, begun, cur), cur.stage \in {"none", "open"},
         NEW kind \in PartKinds
  PROVE  /\ \A a \in At(fs, kind.added) :
              LET i == fs[a].index  p == fs[a].part
              IN /\ PartInOrder(fs, kind, i, p, a)
                 /\ p > 0 => OfPart(fs, kind.done, i, p - 1) # {}
                 /\ (\E d \in ItemsDone(fs) : fs[d].index = i) => OfPart(fs, kind.done, i, p) # {}
         /\ \A type \in {kind.delta, kind.text, kind.done} : \A d \in At(fs, type) :
              OfPart(fs, kind.added, fs[d].index, fs[d].part) # {}
<1> DEFINE x(i, p) == Part(fs, kind, i, p)
<1>1. ASSUME NEW i, NEW p
      PROVE  \/ Blank(x(i, p)) \/ Complete(x(i, p))
             \/ i = k /\ \E text : Going(x(i, p), text)
  <2>1. Stands(x(i, p), IF i = k THEN cur ELSE NoPart, kind, p)
    BY DEF PartsTold
  <2>2. CASE i = k /\ IsCurrent(cur, kind, p)
    <3>1. cur.stage = "open"
      BY <2>2 DEF IsCurrent
    <3>2. Going(x(i, p), cur.text)
      BY <2>1, <2>2, <3>1 DEF Stands
    <3> QED
      BY <2>2, <3>2
  <2>3. CASE ~(i = k /\ IsCurrent(cur, kind, p))
    <3>1. ~IsCurrent(IF i = k THEN cur ELSE NoPart, kind, p)
      BY <2>3 DEF IsCurrent, NoPart
    <3> QED
      BY <2>1, <3>1 DEF Stands
  <2> QED
    BY <2>2, <2>3
<1>2. ASSUME NEW i, NEW p
      PROVE  /\ x(i, p).added = OfPart(fs, kind.added, i, p)
             /\ x(i, p).deltas = OfPart(fs, kind.delta, i, p)
             /\ x(i, p).texts = OfPart(fs, kind.text, i, p)
             /\ x(i, p).closes = OfPart(fs, kind.done, i, p)
             /\ x(i, p).said = Data(fs, OfPart(fs, kind.delta, i, p))
             /\ x(i, p).told = {fs[j].data : j \in OfPart(fs, kind.text, i, p)}
             /\ x(i, p).sealed = {fs[j].data : j \in OfPart(fs, kind.done, i, p)}
  BY DEF Part
<1> HIDE DEF x
<1>3. ASSUME NEW a \in At(fs, kind.added)
      PROVE  LET i == fs[a].index  p == fs[a].part
             IN /\ PartInOrder(fs, kind, i, p, a)
                /\ p > 0 => OfPart(fs, kind.done, i, p - 1) # {}
                /\ (\E d \in ItemsDone(fs) : fs[d].index = i) => OfPart(fs, kind.done, i, p) # {}
  <2> DEFINE i == fs[a].index
             p == fs[a].part
             added == OfPart(fs, kind.added, i, p)
             deltas == OfPart(fs, kind.delta, i, p)
             texts == OfPart(fs, kind.text, i, p)
             closes == OfPart(fs, kind.done, i, p)
             y == x(i, p)
  <2>1. a \in added
    BY DEF OfPart
  <2>2. /\ y.added = added /\ y.deltas = deltas /\ y.texts = texts /\ y.closes = closes
        /\ y.said = Data(fs, deltas)
        /\ y.told = {fs[j].data : j \in texts} /\ y.sealed = {fs[j].data : j \in closes}
    BY <1>2
  <2>3. Complete(y) \/ (i = k /\ \E text : Going(y, text))
    <3>1. ~Blank(y)
      BY <2>1, <2>2 DEF Blank
    <3> QED
      BY <1>1, <3>1
  <2>4. p > 0 => OfPart(fs, kind.done, i, p - 1) # {}
    BY DEF PartsTold, Numbered
  <2>5. ASSUME NEW d \in ItemsDone(fs), fs[d].index = i PROVE closes # {}
    <3>1. d \in 1..Len(fs) /\ fs[d].type = "output_item.done"
      BY DEF ItemsDone, At
    <3>2. fs[d].index < k
      BY <3>1, ItemsKnown
    <3>3. i # k
      <4> HIDE DEF i
      <4> QED
        BY <2>5, <3>2
    <3> HIDE DEF y, closes, i
    <3> QED
      BY <2>2, <2>3, <3>3 DEF Complete
  <2> HIDE DEF added, deltas, texts, closes, y, i, p
  <2>6. added = {a} /\ \A j \in deltas \cup texts \cup closes : a < j
    BY <2>1, <2>2, <2>3 DEF Complete, Going, Begun
  <2>7. CASE Complete(y)
    <3>1. PICK t, c : texts = {t} /\ closes = {c} /\ t < c /\ \A j \in deltas : j < t
      BY <2>2, <2>7 DEF Complete
    <3>2. fs[t].data = Data(fs, deltas) /\ fs[c].data = Data(fs, deltas)
      <4>1. fs[t].data \in y.told /\ fs[c].data \in y.sealed
        BY <2>2, <3>1
      <4> QED
        BY <2>2, <2>7, <4>1 DEF Complete
    <3> QED
      BY <2>4, <2>5, <2>6, <3>1, <3>2 DEF PartInOrder, added, deltas, texts, closes, i, p
  <2>8. CASE \E text : Going(y, text)
    <3>1. texts = {} /\ closes = {}
      BY <2>2, <2>8 DEF Going
    <3> QED
      BY <2>4, <2>5, <2>6, <3>1 DEF PartInOrder, added, deltas, texts, closes, i, p
  <2> QED
    BY <2>3, <2>7, <2>8
<1>4. ASSUME NEW type \in {kind.delta, kind.text, kind.done}, NEW d \in At(fs, type)
      PROVE  OfPart(fs, kind.added, fs[d].index, fs[d].part) # {}
  <2> DEFINE i == fs[d].index
             p == fs[d].part
             y == x(i, p)
  <2>1. d \in OfPart(fs, type, i, p)
    BY DEF OfPart
  <2> HIDE DEF i, p
  <2>2. d \in y.deltas \cup y.texts \cup y.closes
    BY <1>2, <2>1
  <2>3. ~Blank(y)
    BY <2>2 DEF Blank
  <2>4. Complete(y) \/ \E text : Going(y, text)
    BY <1>1, <2>3
  <2>5. y.added # {}
    BY <2>4 DEF Complete, Going, Begun
  <2> QED
    BY <1>2, <2>5 DEF i, p
<1> QED
  BY <1>3, <1>4

\* The open item of the record, and what is told of it between calls.
LEMMA GoodTells ==
  ASSUME NEW made, NEW r, NEW x, NEW y, Good(r, x, y, made)
  PROVE  \E open, begun, cur, input, whole :
           /\ Tells(r, open, begun, cur, input, whole, x, y, made)
           /\ cur.stage \in {"none", "open"}
           /\ Cardinality(open) = IF r.open = NoItem THEN 0 ELSE 1
<1>1. Cardinality({}) = 0 /\ \A id : Cardinality({id}) = 1
  BY FS_EmptySet, FS_Singleton
<1>2. NoPart.stage \in {"none", "open"} /\ \A kind, p, text : OpenPart(kind, p, text).stage \in {"none", "open"}
  BY DEF NoPart, OpenPart
<1>3. CASE Between(r, x, y, made)
  <2>1. Tells(r, {}, {}, NoPart, <<>>, {}, x, y, made) /\ Cardinality({}) = IF r.open = NoItem THEN 0 ELSE 1
    BY <1>1, <1>3 DEF Between
  <2> QED
    BY <1>2, <2>1
<1>4. ASSUME r.open.kind # None PROVE \A id : Cardinality({id}) = IF r.open = NoItem THEN 0 ELSE 1
  <2>1. r.open # NoItem
    BY <1>4 DEF NoItem
  <2> QED
    BY <1>1, <2>1
<1>5. CASE AfterText(r, x, y, made)
  <2>1. r.open.kind # None /\ \E begun : Tells(r, {r.open.id}, begun, NoPart, <<>>, {}, x, y, made)
    BY <1>5 DEF AfterText, None
  <2> QED
    BY <1>2, <1>4, <2>1
<1>6. CASE InText(r, x, y, made)
  <2>1. r.open.kind # None /\ \E begun, p, text :
          Tells(r, {r.open.id}, begun, OpenPart(TextPart, p, text), <<>>, {}, x, y, made)
    BY <1>6 DEF InText, None
  <2> QED
    BY <1>2, <1>4, <2>1
<1>7. CASE InReasoning(r, x, y, made)
  <2>1. r.open.kind # None /\ \E begun, p, text :
          Tells(r, {r.open.id}, begun, OpenPart(SummaryPart, p, text), <<>>, {}, x, y, made)
    BY <1>7 DEF InReasoning, None
  <2> QED
    BY <1>2, <1>4, <2>1
<1>8. CASE InTool(r, x, y, made)
  <2>1. r.open.kind # None /\ \E input : Tells(r, {r.open.id}, {}, NoPart, input, {}, x, y, made)
    BY <1>8 DEF InTool, ToolItemKinds, None
  <2> QED
    BY <1>2, <1>4, <2>1
<1> QED
  BY <1>3, <1>5, <1>6, <1>7, <1>8 DEF Good

LEMMA GoodPaired ==
  ASSUME NEW made, NEW x, NEW y, Good(o, x, y, made)
  PROVE  EventsPaired
<1>1. PICK open, begun, cur, input, whole :
        /\ Tells(o, open, begun, cur, input, whole, x, y, made)
        /\ cur.stage \in {"none", "open"}
        /\ Cardinality(open) = IF o.open = NoItem THEN 0 ELSE 1
  BY GoodTells
<1> DEFINE fs == o.frames
           k == o.outputIndex
<1>2. /\ IsSequence(fs) /\ k \in Nat
      /\ \A i \in 1..Len(fs) : fs[i].sequence_number = i - 1
      /\ ItemsTold(fs, k, open) /\ PartsTold(fs, k, begun, cur)
  BY <1>1 DEF Tells, Told
<1>3. SequenceContiguous
  BY <1>2 DEF SequenceContiguous, Sent
<1>4. ItemsPaired
  <2> HIDE DEF k
  <2>1. ItemsInTurn(fs) /\ Cardinality(ItemsAdded(fs)) = Cardinality(ItemsDone(fs)) + Cardinality(open)
    BY <1>2 DEF ItemsTold
  <2> QED
    BY <1>1, <2>1 DEF ItemsPaired, Sent
<1> HIDE DEF fs, k
<1>5. PartsPaired
  <2> SUFFICES ASSUME NEW kind \in PartKinds
               PROVE
      /\ \A a \in At(fs, kind.added) :
           LET i == fs[a].index  p == fs[a].part
           IN /\ PartInOrder(fs, kind, i, p, a)
              /\ p > 0 => OfPart(fs, kind.done, i, p - 1) # {}
              /\ (\E d \in ItemsDone(fs) : fs[d].index = i) => OfPart(fs, kind.done, i, p) # {}
      /\ \A type \in {kind.delta, kind.text, kind.done} : \A d \in At(fs, type) :
           OfPart(fs, kind.added, fs[d].index, fs[d].part) # {}
    BY DEF PartsPaired, Sent, PartKinds, fs
  <2> QED
    BY <1>1, <1>2, PartsInOrder
<1> QED
  BY <1>3, <1>4, <1>5 DEF EventsPaired

LEMMA GoodInputs ==
  ASSUME NEW x, NEW y, Good(o, x, y, calls)
  PROVE  ToolInputWhole
<1>1. PICK open, begun, cur, input, whole : Tells(o, open, begun, cur, input, whole, x, y, calls)
  BY GoodTells
<1> QED
  BY <1>1 DEF Tells, Told, ToolTold, ToolInputWhole, Sent

LEMMA GoodContent ==
  ASSUME NEW made, NEW x, NEW y, Good(o, x, y, made)
  PROVE  /\ x = Data(Sent, At(Sent, "output_text.delta"))
         /\ y = Data(Sent, At(Sent, "reasoning_summary_text.delta"))
<1>1. PICK open, begun, cur, input, whole : Tells(o, open, begun, cur, input, whole, x, y, made)
  BY GoodTells
<1> QED
  BY <1>1 DEF Tells, Told, Sent

\* The last event of a stream that ended.
LEMMA EndedTells ==
  ASSUME NEW made, NEW x, NEW y, Between(o, x, y, made), EndTold(o.frames, o.output, o.failed)
  PROVE  /\ Terminals(Sent) # {}
         /\ \A k \in Terminals(Sent) :
              /\ k = Len(Sent)
              /\ Sent[k].type = "failed" <=> o.failed
              /\ Cardinality(ItemsAdded(Sent)) = Cardinality(ItemsDone(Sent))
              /\ ItemsListed(Sent[k].data.output, Sent)
<1> DEFINE fs == o.frames
           n == Len(fs)
<1>1. n \in Nat \ {0} /\ \A i \in 1..n : fs[i].type \in TerminalTypes <=> i = n
  BY DEF EndTold
<1>2. fs[n].data.output = o.output /\ (fs[n].type = "failed" <=> o.failed)
  BY DEF EndTold
<1>3. Terminals(fs) = {i \in 1..n : fs[i].type \in TerminalTypes}
  BY DEF Terminals, At, TerminalTypes
<1>4. Terminals(fs) = {n}
  BY <1>1, <1>3
<1>5. ItemsTold(fs, o.outputIndex, {}) /\ o.outputIndex \in Nat /\ ItemsListed(o.output, fs)
  BY DEF Between, Tells, Told, OutputTold
<1>6. Cardinality(ItemsAdded(fs)) = Cardinality(ItemsDone(fs))
  BY <1>5, FS_EmptySet DEF ItemsTold
<1> QED
  BY <1>2, <1>4, <1>5, <1>6 DEF Sent

---------------------------------------------------------------------------
(* The content fed.                                                        *)

ContentOf(f) ==
  [k \in 1..Len(f) |-> [data |-> IF IsDelta(f[k].event) THEN f[k].event.payload ELSE <<>>]]

TakenOf(f, delta) ==
  {k \in 1..Len(f) : IsDelta(f[k].event) /\ f[k].event.delta = delta /\ ~f[k].late}

FedContent(f, delta) == Data(ContentOf(f), TakenOf(f, delta))

LEMMA ContentAppended ==
  ASSUME NEW f, IsSequence(f), NEW t
  PROVE  /\ IsSequence(ContentOf(f)) /\ Len(ContentOf(f)) = Len(f)
         /\ ContentOf(Append(f, t)) =
              Append(ContentOf(f), [data |-> IF IsDelta(t.event) THEN t.event.payload ELSE <<>>])
<1> DEFINE g == Append(f, t)
           n == Len(f)
           c(u) == [data |-> IF IsDelta(u.event) THEN u.event.payload ELSE <<>>]
           a == ContentOf(f)
           b == Append(a, c(t))
           d == ContentOf(g)
<1>1. n \in Nat /\ Len(g) = n + 1 /\ g[n + 1] = t /\ \A i \in 1..n : g[i] = f[i]
  BY SequenceLen, Appended
<1>2. /\ DOMAIN a = 1..n /\ a = [i \in DOMAIN a |-> a[i]] /\ \A i \in 1..n : a[i] = c(f[i])
  BY DEF ContentOf
<1> HIDE DEF g
<1>3. /\ DOMAIN d = 1..Len(g) /\ d = [i \in DOMAIN d |-> d[i]] /\ \A i \in 1..Len(g) : d[i] = c(g[i])
  BY DEF ContentOf
<1> HIDE DEF a, c, d, n
<1>4. IsSequence(a) /\ Len(a) = n
  BY <1>1, <1>2, TableIsSequence
<1>5. /\ IsSequence(b) /\ Len(b) = n + 1 /\ b[n + 1] = c(t)
      /\ \A i \in 1..n : b[i] = a[i]
  BY <1>4, Appended
<1> HIDE DEF b
<1>6. /\ DOMAIN b = 1..(n + 1) /\ b = [i \in DOMAIN b |-> b[i]]
  BY <1>5 DEF IsSequence
<1>7. ASSUME NEW i \in 1..(n + 1) PROVE d[i] = b[i]
  <2>1. CASE i \in 1..n
    <3>1. d[i] = c(g[i]) /\ g[i] = f[i] /\ a[i] = c(f[i]) /\ b[i] = a[i]
      BY <1>1, <1>2, <1>3, <1>5, <2>1
    <3> QED
      BY <3>1
  <2>2. CASE i = n + 1
    <3>1. d[i] = c(g[i]) /\ g[i] = t /\ b[i] = c(t)
      BY <1>1, <1>3, <1>5, <2>2
    <3> QED
      BY <3>1
  <2> QED
    BY <1>1, <2>1, <2>2
<1>8. d = b
  <2>1. DOMAIN d = DOMAIN b /\ \A i \in DOMAIN d : d[i] = b[i]
    BY <1>1, <1>3, <1>6, <1>7
  <2> QED
    BY <1>3, <1>6, <2>1
<1> QED
  BY <1>4, <1>8 DEF a, b, c, d, g, n

LEMMA TakenAppended ==
  ASSUME NEW f, IsSequence(f), NEW t, NEW delta
  PROVE  /\ TakenOf(f, delta) \subseteq 1..Len(f)
         /\ TakenOf(Append(f, t), delta) =
              IF IsDelta(t.event) /\ t.event.delta = delta /\ ~t.late
              THEN TakenOf(f, delta) \cup {Len(f) + 1} ELSE TakenOf(f, delta)
<1> DEFINE g == Append(f, t)
           n == Len(f)
           takes(u) == IsDelta(u.event) /\ u.event.delta = delta /\ ~u.late
<1>1. /\ n \in Nat /\ 1..Len(g) = 1..n \cup {n + 1} /\ n + 1 \notin 1..n
      /\ g[n + 1] = t /\ \A i \in 1..n : g[i] = f[i]
  BY SequenceLen, Appended
<1>2. /\ TakenOf(f, delta) = {k \in 1..n : takes(f[k])}
      /\ TakenOf(g, delta) = {k \in 1..Len(g) : takes(g[k])}
  BY DEF TakenOf
<1> HIDE DEF g, n, takes
<1>3. TakenOf(g, delta) = IF takes(t) THEN TakenOf(f, delta) \cup {n + 1} ELSE TakenOf(f, delta)
  BY <1>1, <1>2
<1>4. TakenOf(f, delta) \subseteq 1..n
  BY <1>2
<1> QED
  BY <1>3, <1>4 DEF g, n, takes

LEMMA FedOther ==
  ASSUME NEW f, IsSequence(f), NEW t, NEW delta,
         ~(IsDelta(t.event) /\ t.event.delta = delta /\ ~t.late)
  PROVE  FedContent(Append(f, t), delta) = FedContent(f, delta)
<1> DEFINE a == ContentOf(f)
           P == TakenOf(f, delta)
           c == [data |-> IF IsDelta(t.event) THEN t.event.payload ELSE <<>>]
<1>1. IsSequence(a) /\ Len(a) = Len(f) /\ ContentOf(Append(f, t)) = Append(a, c)
  BY ContentAppended
<1>2. P \subseteq 1..Len(f) /\ TakenOf(Append(f, t), delta) = P
  BY TakenAppended
<1> HIDE DEF a, P, c
<1>3. Data(Append(a, c), P) = Data(a, P)
  BY <1>1, <1>2, DataStays
<1> QED
  BY <1>1, <1>2, <1>3 DEF FedContent, a, P

LEMMA FedMore ==
  ASSUME NEW f, IsSequence(f), NEW t, NEW delta, IsDelta(t.event), t.event.delta = delta, ~t.late
  PROVE  FedContent(Append(f, t), delta) = FedContent(f, delta) \o t.event.payload
<1> DEFINE a == ContentOf(f)
           P == TakenOf(f, delta)
           c == [data |-> IF IsDelta(t.event) THEN t.event.payload ELSE <<>>]
           Q == P \cup {Len(a) + 1}
<1>1. IsSequence(a) /\ Len(a) = Len(f) /\ ContentOf(Append(f, t)) = Append(a, c)
  BY ContentAppended
<1>2. P \subseteq 1..Len(f) /\ TakenOf(Append(f, t), delta) = P \cup {Len(f) + 1}
  BY TakenAppended
<1>3. c.data = t.event.payload
  OBVIOUS
<1> HIDE DEF a, P, c
<1>4. Data(Append(a, c), Q) = Data(a, P) \o c.data
  BY <1>1, <1>2, DataGrows
<1>5. FedContent(Append(f, t), delta) = Data(Append(a, c), Q)
  BY <1>1, <1>2 DEF FedContent
<1>6. FedContent(f, delta) = Data(a, P)
  BY DEF FedContent, a, P
<1> HIDE DEF Q
<1> QED
  BY <1>3, <1>4, <1>5, <1>6

LEMMA NoContentFed == \A delta : FedContent(<<>>, delta) = <<>>
<1> SUFFICES ASSUME NEW delta PROVE FedContent(<<>>, delta) = <<>>
  OBVIOUS
<1> DEFINE a == ContentOf(<<>>)
<1>1. DOMAIN a = 1..0 /\ a = [i \in DOMAIN a |-> a[i]]
  BY ShortSequences DEF ContentOf
<1>2. IsSequence(a)
  <2> HIDE DEF a
  <2>1. 0 \in Nat
    OBVIOUS
  <2> QED
    BY <1>1, <2>1, TableIsSequence
<1>3. TakenOf(<<>>, delta) = {}
  BY ShortSequences DEF TakenOf
<1> QED
  BY <1>2, <1>3, NoData DEF FedContent

LEMMA ContentFedIs ==
  \A delta : Data(ContentFed, Taken(delta)) = FedContent(fed, delta)
BY DEF ContentFed, Taken, FedContent, ContentOf, TakenOf

---------------------------------------------------------------------------
(* The inductive invariant.                                                *)

TextFed == FedContent(fed, "text_delta")
ThinkingFed == FedContent(fed, "thinking_delta")

\* The runes of the input that were fed and those that are left are the input
\* of the call the item stands for.
InputFed(r, rest, made) ==
  /\ IsSequence(rest)
  /\ \E c \in made : r.open.id = <<r.open.kind, c.call>> /\ c.input = r.open.arguments \o rest

\* Until the terminal event, the open item is the one of the open block, and
\* the message that was written last may wait for another part.
BlockOpen(r, b, rest, x, y, made) ==
  /\ b \in {None, "text", "thinking", "tool_use"}
  /\ b = None => Between(r, x, y, made) \/ AfterText(r, x, y, made)
  /\ b = "text" => InText(r, x, y, made)
  /\ b = "thinking" => InReasoning(r, x, y, made)
  /\ b = "tool_use" => InTool(r, x, y, made) /\ InputFed(r, rest, made)

Running(r) == NoneTerminal(r.frames) /\ ~r.failed
Over(r, x, y, made) == Between(r, x, y, made) /\ EndTold(r.frames, r.output, r.failed)

StreamInv ==
  /\ o.terminated \in BOOLEAN /\ o.failed \in BOOLEAN /\ ended \in BOOLEAN
  /\ IsSequence(fed) /\ IsSequence(TextFed) /\ IsSequence(ThinkingFed)
  /\ ~o.terminated => Running(o) /\ BlockOpen(o, block, left, TextFed, ThinkingFed, calls)
  /\ o.terminated => Over(o, TextFed, ThinkingFed, calls)
  /\ o.failed <=> ErrorFed
  /\ ended => o.terminated
  /\ o.terminated => ended \/ o.failed

LEMMA BlockGood ==
  ASSUME NEW made, NEW r, NEW b, NEW rest, NEW x, NEW y, BlockOpen(r, b, rest, x, y, made)
  PROVE  Good(r, x, y, made)
BY DEF BlockOpen, Good

\* More calls of the source take nothing back.
LEMMA GoodGrows ==
  ASSUME NEW made, NEW more, made \subseteq more, NEW r, NEW x, NEW y
  PROVE  /\ Good(r, x, y, made) => Good(r, x, y, more)
         /\ Between(r, x, y, made) => Between(r, x, y, more)
<1>1. ASSUME NEW fs, NEW d, InputTold(fs, made, d) PROVE InputTold(fs, more, d)
  <2> DEFINE item == fs[d].data
             Q == OfItem(fs, ToolDones, fs[d].index)
             told == Data(fs, OfItem(fs, ToolDeltas, fs[d].index))
  <2>1. /\ \A k \in Q : k < d /\ fs[k].data = item.content
        /\ Q # {} => \E c \in CallOf(item, made) : item.content = WholeInput(item, c)
        /\ MakesUp(told, item, made)
    BY <1>1 DEF InputTold
  <2>2. CallOf(item, made) \subseteq CallOf(item, more)
    BY DEF CallOf
  <2> HIDE DEF item, Q, told
  <2>3. MakesUp(told, item, more)
    BY <2>1, <2>2 DEF MakesUp
  <2>4. Q # {} => \E c \in CallOf(item, more) : item.content = WholeInput(item, c)
    BY <2>1, <2>2
  <2> QED
    BY <2>1, <2>3, <2>4 DEF InputTold, item, Q, told
<1>2. ASSUME NEW open, NEW begun, NEW cur, NEW input, NEW whole,
             Tells(r, open, begun, cur, input, whole, x, y, made)
      PROVE  Tells(r, open, begun, cur, input, whole, x, y, more)
  BY <1>1, <1>2 DEF Tells, Told, ToolTold
<1>3. /\ Between(r, x, y, made) => Between(r, x, y, more)
      /\ AfterText(r, x, y, made) => AfterText(r, x, y, more)
      /\ InText(r, x, y, made) => InText(r, x, y, more)
      /\ InReasoning(r, x, y, made) => InReasoning(r, x, y, more)
      /\ InTool(r, x, y, made) => InTool(r, x, y, more)
  BY <1>2 DEF Between, AfterText, InText, InReasoning, InTool
<1> QED
  BY <1>3 DEF Good

LEMMA StreamGood == ASSUME StreamInv PROVE Good(o, TextFed, ThinkingFed, calls)
BY BlockGood DEF StreamInv, Over, Good

---------------------------------------------------------------------------
(* One event is fed.                                                       *)

LEMMA TextsAre == \A t \in Texts \cup ToolInputs : IsSequence(t)
BY TextsAssumption DEF IsSequence

Record(e) == [event |-> e, late |-> o.terminated]

LEMMA ErrorAppended ==
  ASSUME IsSequence(fed), NEW e, fed' = Append(fed, Record(e))
  PROVE  IsSequence(fed') /\ (ErrorFed' <=> ErrorFed \/ e.name = "error")
<1> DEFINE t == Record(e)
           g == Append(fed, t)
           n == Len(fed)
<1>1. t.event = e
  BY DEF Record
<1>2. /\ n \in Nat /\ IsSequence(g) /\ Len(g) = n + 1 /\ g[n + 1] = t /\ \A i \in 1..n : g[i] = fed[i]
  BY SequenceLen, Appended
<1>3. fed' = g
  OBVIOUS
<1> HIDE DEF g, t, n
<1>4. ErrorFed <=> \E k \in 1..n : fed[k].event.name = "error"
  BY DEF ErrorFed, n
<1>5. ErrorFed' <=> \E k \in 1..(n + 1) : g[k].event.name = "error"
  <2>1. ErrorFed' <=> \E k \in 1..Len(fed') : fed'[k].event.name = "error"
    BY DEF ErrorFed
  <2> QED
    BY <1>2, <1>3, <2>1
<1>6. ASSUME ErrorFed PROVE ErrorFed'
  <2>1. PICK k \in 1..n : fed[k].event.name = "error"
    BY <1>4, <1>6
  <2>2. k \in 1..(n + 1) /\ g[k] = fed[k]
    BY <1>2, <2>1
  <2> QED
    BY <1>5, <2>1, <2>2
<1>7. ASSUME e.name = "error" PROVE ErrorFed'
  <2>1. n + 1 \in 1..(n + 1)
    BY <1>2
  <2> QED
    BY <1>1, <1>2, <1>5, <1>7, <2>1
<1>8. ASSUME ErrorFed' PROVE ErrorFed \/ e.name = "error"
  <2>1. PICK k \in 1..(n + 1) : g[k].event.name = "error"
    BY <1>5, <1>8
  <2>2. CASE k \in 1..n
    BY <1>2, <1>4, <2>1, <2>2
  <2>3. CASE k = n + 1
    BY <1>1, <1>2, <2>1, <2>3
  <2> QED
    BY <1>2, <2>2, <2>3
<1>9. IsSequence(fed')
  BY <1>2, <1>3, Zenon
<1> QED
  BY <1>6, <1>7, <1>8, <1>9

LEMMA FedPrimed == \A delta : FedContent(fed, delta)' = FedContent(fed', delta)
BY DEF FedContent, ContentOf, TakenOf

\* After the terminal event nothing is taken in.
LEMMA LateEvent ==
  ASSUME StreamInv, o.terminated, NEW e, Takes(e), ended' = ended, calls \subseteq calls'
  PROVE  StreamInv'
<1>1. o' = o /\ ~ended /\ fed' = Append(fed, Record(e)) /\ IsSequence(fed)
  BY FeedTerminated DEF Takes, StreamInv, Record
<1>2. IsSequence(fed') /\ (ErrorFed' <=> ErrorFed \/ e.name = "error")
  BY <1>1, ErrorAppended
<1>3. /\ o.failed /\ ErrorFed /\ Over(o, TextFed, ThinkingFed, calls)
      /\ IsSequence(TextFed) /\ IsSequence(ThinkingFed)
  BY <1>1 DEF StreamInv
<1>4. ASSUME NEW delta PROVE FedContent(fed', delta) = FedContent(fed, delta)
  <2>1. Record(e).late = TRUE
    BY DEF Record, StreamInv
  <2> QED
    BY <1>1, <2>1, FedOther
<1>5. TextFed' = TextFed /\ ThinkingFed' = ThinkingFed
  BY <1>4, FedPrimed DEF TextFed, ThinkingFed
<1> DEFINE more == calls'
<1>8. Between(o, TextFed, ThinkingFed, more)
  <2> HIDE DEF more
  <2>1. Between(o, TextFed, ThinkingFed, calls) /\ calls \subseteq more
    BY <1>3 DEF Over, more
  <2> QED
    BY ONLY <2>1, GoodGrows
<1>6. Over(o, TextFed, ThinkingFed, calls)'
  BY <1>1, <1>3, <1>5, <1>8 DEF Over, Between, Tells, EndTold
<1>7. IsSequence(TextFed') /\ IsSequence(ThinkingFed')
  BY <1>3, <1>5
<1> QED
  BY <1>1, <1>2, <1>3, <1>6, <1>7 DEF StreamInv

\* An event that neither ends the stream nor reports an error.
LEMMA RegularEvent ==
  ASSUME StreamInv, ~o.terminated, NEW e, Takes(e), ended' = ended, e.name # "error",
         Follows(o, o'), NEW x, NEW y, TextFed' = x, ThinkingFed' = y,
         IsSequence(x), IsSequence(y), NEW made, calls' = made,
         BlockOpen(o', block', left', x, y, made)
  PROVE  StreamInv'
<1>1. /\ ~ended /\ fed' = Append(fed, Record(e)) /\ IsSequence(fed)
      /\ ~o.failed /\ ~ErrorFed /\ NoneTerminal(o.frames) /\ ended' = FALSE
  BY DEF Takes, StreamInv, Running, Record
<1>2. IsSequence(fed') /\ ~ErrorFed'
  BY <1>1, ErrorAppended
<1>3. o'.terminated = FALSE /\ o'.failed = FALSE
  BY <1>1 DEF Follows, StreamInv
<1>4. IsSequence(o.frames)
  BY StreamGood, GoodType DEF IsResponsesOut
<1>5. NoneTerminal(o'.frames)
  BY <1>1, <1>4, FollowsRegular
<1>6. Running(o)'
  BY <1>3, <1>5 DEF Running
<1>7. BlockOpen(o, block, left, TextFed, ThinkingFed, calls)'
  BY DEF BlockOpen, Between, AfterText, InText, InReasoning, InTool, InputFed
<1>8. IsSequence(TextFed') /\ IsSequence(ThinkingFed')
  BY Zenon
<1> QED
  BY <1>1, <1>2, <1>3, <1>6, <1>7, <1>8 DEF StreamInv

\* What was fed before stays; an event with content adds to it.
LEMMA NoContent ==
  ASSUME StreamInv, ~o.terminated, NEW e, Takes(e),
         IsDelta(e) => e.delta \notin {"text_delta", "thinking_delta"}
  PROVE  TextFed' = TextFed /\ ThinkingFed' = ThinkingFed
<1>1. fed' = Append(fed, Record(e)) /\ IsSequence(fed) /\ Record(e).event = e
  BY DEF Takes, StreamInv, Record
<1>2. ASSUME NEW delta \in {"text_delta", "thinking_delta"}
      PROVE  FedContent(fed', delta) = FedContent(fed, delta)
  <2>1. ~(IsDelta(Record(e).event) /\ Record(e).event.delta = delta /\ ~Record(e).late)
    BY <1>1
  <2> QED
    BY <1>1, <2>1, FedOther
<1> QED
  BY <1>2, FedPrimed DEF TextFed, ThinkingFed

LEMMA SomeContent ==
  ASSUME StreamInv, ~o.terminated, NEW e, Takes(e), IsDelta(e)
  PROVE  /\ e.delta = "text_delta" => TextFed' = TextFed \o e.payload /\ ThinkingFed' = ThinkingFed
         /\ e.delta = "thinking_delta" => TextFed' = TextFed /\ ThinkingFed' = ThinkingFed \o e.payload
<1>1. /\ fed' = Append(fed, Record(e)) /\ IsSequence(fed) /\ Record(e).event = e
      /\ Record(e).late = FALSE
  BY DEF Takes, StreamInv, Record
<1>2. ASSUME NEW delta, e.delta # delta PROVE FedContent(fed', delta) = FedContent(fed, delta)
  <2>1. ~(IsDelta(Record(e).event) /\ Record(e).event.delta = delta /\ ~Record(e).late)
    BY <1>1, <1>2
  <2> QED
    BY <1>1, <2>1, FedOther
<1>3. ASSUME NEW delta, e.delta = delta PROVE FedContent(fed', delta) = FedContent(fed,
             delta) \o e.payload
  <2> DEFINE t == Record(e)
  <2>1. IsDelta(t.event) /\ t.event.delta = delta /\ ~t.late /\ t.event.payload = e.payload
    BY <1>1, <1>3
  <2> HIDE DEF t
  <2>2. FedContent(Append(fed, t), delta) = FedContent(fed, delta) \o t.event.payload
    BY <1>1, <2>1, FedMore
  <2>3. fed' = Append(fed, t)
    BY <1>1 DEF t
  <2> QED
    BY <2>1, <2>2, <2>3
<1>4. "text_delta" # "thinking_delta"
  OBVIOUS
<1> QED
  BY <1>2, <1>3, <1>4, FedPrimed DEF TextFed, ThinkingFed

LEMMA InitInv == Init => StreamInv
<1> SUFFICES ASSUME Init PROVE StreamInv
  OBVIOUS
<1>1. o = StartResponse(NewResponsesOut)
  BY DEF Init, ResponsesFeed, MessageStart, NewResponsesOut, Terminated, IsStart, IsDelta, IsStop
<1>2. Between(o, <<>>, <<>>, calls)
  BY <1>1, StartedTells
<1>3. IsResponsesOut(NewResponsesOut) /\ Follows(NewResponsesOut, o)
  BY <1>1, NewResponsesOutType, StartResponseFollows
<1>4. /\ NewResponsesOut.frames = <<>> /\ NewResponsesOut.terminated = FALSE
      /\ NewResponsesOut.failed = FALSE
  BY DEF NewResponsesOut
<1>5. o.terminated = FALSE /\ o.failed = FALSE
  BY <1>3, <1>4 DEF Follows
<1>6. NoneTerminal(NewResponsesOut.frames) /\ IsSequence(NewResponsesOut.frames)
  BY <1>4, ShortSequences DEF NoneTerminal
<1>7. Running(o)
  BY <1>3, <1>5, <1>6, FollowsRegular DEF Running
<1>8. block = None /\ left = <<>> /\ fed = <<>> /\ ended = FALSE
  BY DEF Init
<1>9. TextFed = <<>> /\ ThinkingFed = <<>>
  BY <1>8, NoContentFed DEF TextFed, ThinkingFed
<1>10. BlockOpen(o, block, left, TextFed, ThinkingFed, calls)
  BY <1>2, <1>8, <1>9 DEF BlockOpen, None
<1>11. IsSequence(fed) /\ IsSequence(TextFed) /\ IsSequence(ThinkingFed)
  BY <1>8, <1>9, ShortSequences, Zenon
<1>12. ~ErrorFed
  BY <1>8, ShortSequences DEF ErrorFed
<1> QED
  BY <1>5, <1>7, <1>8, <1>10, <1>11, <1>12 DEF StreamInv

\* The open item and the open block, as long as the stream runs.
LEMMA StreamRuns ==
  ASSUME StreamInv, ~o.terminated
  PROVE  /\ BlockOpen(o, block, left, TextFed, ThinkingFed, calls) /\ Good(o, TextFed, ThinkingFed, calls)
         /\ IsResponsesOut(o) /\ ~Terminated(o)
         /\ IsSequence(TextFed) /\ IsSequence(ThinkingFed)
BY StreamGood, GoodType DEF StreamInv, Terminated

LEMMA StartKeeps ==
  ASSUME StreamInv, ~o.terminated, NEW kind \in {"text", "thinking"}, FeedBlockStart(kind)
  PROVE  StreamInv'
<1> DEFINE e == BlockStart(blocks, kind)
<1>1. e.name = "content_block_start" /\ e.kind = kind
  BY DEF BlockStart
<1>2. /\ Takes(e) /\ o' = ResponsesFeed(o, e)
      /\ block' = kind /\ left' = left /\ ended' = ended /\ calls' = calls
  BY DEF FeedBlockStart, Takes
<1> HIDE DEF e
<1>3. IsStart(e) /\ ~IsDelta(e) /\ e.name # "error" /\ e.name # "message_stop"
  BY <1>1 DEF IsStart, IsDelta
<1>4. TextFed' = TextFed /\ ThinkingFed' = ThinkingFed
  BY <1>2, <1>3, NoContent
<1>5. o' = StartBlock(o, e)
  BY <1>1, <1>2 DEF ResponsesFeed, Terminated, IsStart, IsDelta, IsStop
<1>6. /\ Good(o, TextFed, ThinkingFed, calls) /\ IsResponsesOut(o)
      /\ IsSequence(TextFed) /\ IsSequence(ThinkingFed)
  BY StreamRuns
<1>7. CASE kind = "text"
  <2>1. o' = StartTextPart(o)
    BY <1>1, <1>5, <1>7 DEF StartBlock
  <2>2. Follows(o, o') /\ InText(o', TextFed, ThinkingFed, calls)
    BY <1>6, <2>1, StartTextPartFollows, StartTextTells
  <2>3. BlockOpen(o', block', left', TextFed, ThinkingFed, calls)
    BY <1>2, <1>7, <2>2 DEF BlockOpen, None
  <2> QED
    BY <1>2, <1>3, <1>4, <1>6, <2>2, <2>3, RegularEvent
<1>8. CASE kind = "thinking"
  <2>1. o' = StartReasoning(o)
    BY <1>1, <1>5, <1>8 DEF StartBlock
  <2>2. Follows(o, o') /\ InReasoning(o', TextFed, ThinkingFed, calls)
    BY <1>6, <2>1, StartReasoningFollows, StartReasoningTells
  <2>3. BlockOpen(o', block', left', TextFed, ThinkingFed, calls)
    BY <1>2, <1>8, <2>2 DEF BlockOpen, None
  <2> QED
    BY <1>2, <1>3, <1>4, <1>6, <2>2, <2>3, RegularEvent
<1> QED
  BY <1>7, <1>8

LEMMA ToolStartKeeps ==
  ASSUME StreamInv, ~o.terminated, NEW kind \in ToolKinds, NEW input \in ToolInputs,
         FeedToolStart(kind, input)
  PROVE  StreamInv'
<1> DEFINE e == ToolStart(blocks, kind)
           call == [call |-> blocks, input |-> input]
           made == calls \cup {call}
<1>1. e.name = "content_block_start" /\ e.kind = "tool_use" /\ ToolKind(e) = kind /\ e.index = blocks
  BY DEF ToolStart, ToolKind
<1>2. /\ Takes(e) /\ o' = ResponsesFeed(o, e) /\ calls' = made
      /\ block' = "tool_use" /\ left' = input /\ ended' = ended
  BY DEF FeedToolStart, Takes
<1> HIDE DEF e
<1>3. IsStart(e) /\ ~IsDelta(e) /\ e.name # "error" /\ e.name # "message_stop"
  BY <1>1 DEF IsStart, IsDelta
<1>4. TextFed' = TextFed /\ ThinkingFed' = ThinkingFed
  BY <1>2, <1>3, NoContent
<1>5. o' = StartToolCall(o, kind, e.index)
  <2>1. o' = StartBlock(o, e)
    BY <1>1, <1>2 DEF ResponsesFeed, Terminated, IsStart, IsDelta, IsStop
  <2> QED
    BY <1>1, <2>1 DEF StartBlock
<1>11. calls \subseteq made
  OBVIOUS
<1>12. call \in made /\ call.call = blocks /\ call.input = input
  OBVIOUS
<1> HIDE DEF made, call
<1>6. /\ Good(o, TextFed, ThinkingFed, made) /\ IsResponsesOut(o)
      /\ IsSequence(TextFed) /\ IsSequence(ThinkingFed)
  BY <1>11, StreamRuns, GoodGrows
<1>7. kind \in ToolItemKinds /\ kind # None
  BY KindsAssumption DEF ToolItemKinds, None
<1>8. /\ Follows(o, o') /\ InTool(o', TextFed, ThinkingFed, made) /\ o'.open.arguments = <<>>
      /\ o'.open.kind = kind /\ o'.open.id = <<kind, blocks>>
  BY <1>1, <1>5, <1>6, <1>7, StartToolCallFollows, StartToolTells
<1>9. InputFed(o', left', made)
  <2>1. IsSequence(input) /\ <<>> \o input = input
    BY TextsAre, EmptyConcatenation
  <2>2. IsSequence(left')
    BY <1>2, <2>1, Zenon
  <2>3. /\ o'.open.id = <<o'.open.kind, call.call>>
        /\ call.input = o'.open.arguments \o left'
    BY <1>2, <1>8, <1>12, <2>1, Zenon
  <2> QED
    BY <1>12, <2>2, <2>3 DEF InputFed
<1>10. BlockOpen(o', block', left', TextFed, ThinkingFed, made)
  BY <1>2, <1>8, <1>9 DEF BlockOpen, None
<1> QED
  BY <1>2, <1>3, <1>4, <1>6, <1>8, <1>10, RegularEvent

\* feed of a delta.
LEMMA FeedIsTake ==
  ASSUME ~o.terminated, NEW e, e.name = "content_block_delta"
  PROVE  ResponsesFeed(o, e) = TakeDelta(o, e)
BY DEF ResponsesFeed, Terminated, IsStart, IsDelta, IsStop

LEMMA DeltaKeeps ==
  ASSUME StreamInv, ~o.terminated, NEW kind \in {"text", "thinking"}, NEW chunk \in Texts,
         FeedDelta(kind, chunk)
  PROVE  StreamInv'
<1> DEFINE delta == IF kind = "text" THEN "text_delta" ELSE "thinking_delta"
           e == BlockDelta(blocks - 1, delta, chunk)
           x == TextFed
           y == ThinkingFed
<1>1. e.name = "content_block_delta" /\ e.delta = delta /\ e.payload = chunk /\ IsSequence(chunk)
  BY TextsAre DEF BlockDelta
<1>2. /\ Takes(e) /\ o' = ResponsesFeed(o, e)
      /\ block = kind /\ block' = kind /\ left' = left /\ ended' = ended /\ calls' = calls
  BY DEF FeedDelta, Takes, sourceVars
<1> HIDE DEF e
<1>3. IsDelta(e) /\ e.name # "error" /\ IsSequence(e.payload)
  BY <1>1 DEF IsDelta
<1>4. o' = TakeDelta(o, e)
  BY <1>1, <1>2, FeedIsTake
<1>5. /\ BlockOpen(o, block, left, x, y, calls) /\ IsResponsesOut(o)
      /\ IsSequence(x) /\ IsSequence(y)
  BY StreamRuns
<1>6. Follows(o, o')
  BY <1>3, <1>4, <1>5, TakeDeltaFollows
<1> HIDE DEF x, y
<1>7. IsSequence(x \o chunk) /\ IsSequence(y \o chunk)
  BY <1>1, <1>5, Concatenation
<1>8. CASE kind = "text"
  <2>1. e.delta = "text_delta"
    BY <1>1, <1>8
  <2>2. InText(o, x, y, calls)
    BY <1>2, <1>5, <1>8 DEF BlockOpen
  <2>3. InText(o', x \o e.payload, y, calls)
    BY <1>3, <1>4, <1>5, <2>1, <2>2, TextTells
  <2>4. InText(o', x \o chunk, y, calls)
    BY <1>1, <2>3
  <2>5. TextFed' = TextFed \o e.payload /\ ThinkingFed' = ThinkingFed
    BY <1>2, <1>3, <2>1, SomeContent
  <2>6. TextFed' = x \o chunk /\ ThinkingFed' = y
    BY <1>1, <2>5 DEF x, y
  <2>7. BlockOpen(o', block', left', x \o chunk, y, calls)
    BY <1>2, <1>8, <2>4 DEF BlockOpen, None
  <2> DEFINE z == x \o chunk
  <2> HIDE DEF z
  <2>8. TextFed' = z /\ IsSequence(z) /\ BlockOpen(o', block', left', z, y, calls)
    BY <1>7, <2>6, <2>7 DEF z
  <2> QED
    BY <1>2, <1>3, <1>5, <1>6, <2>6, <2>8, RegularEvent
<1>9. CASE kind = "thinking"
  <2>1. e.delta = "thinking_delta"
    BY <1>1, <1>9
  <2>2. InReasoning(o, x, y, calls)
    BY <1>2, <1>5, <1>9 DEF BlockOpen
  <2>3. InReasoning(o', x, y \o e.payload, calls)
    BY <1>3, <1>4, <1>5, <2>1, <2>2, ReasoningTells
  <2>4. InReasoning(o', x, y \o chunk, calls)
    BY <1>1, <2>3
  <2>5. TextFed' = TextFed /\ ThinkingFed' = ThinkingFed \o e.payload
    BY <1>2, <1>3, <2>1, SomeContent
  <2>6. TextFed' = x /\ ThinkingFed' = y \o chunk
    BY <1>1, <2>5 DEF x, y
  <2>7. BlockOpen(o', block', left', x, y \o chunk, calls)
    BY <1>2, <1>9, <2>4 DEF BlockOpen, None
  <2> DEFINE z == y \o chunk
  <2> HIDE DEF z
  <2>8. ThinkingFed' = z /\ IsSequence(z) /\ BlockOpen(o', block', left', x, z, calls)
    BY <1>7, <2>6, <2>7 DEF z
  <2> QED
    BY <1>2, <1>3, <1>5, <1>6, <2>6, <2>8, RegularEvent
<1> QED
  BY <1>8, <1>9

LEMMA SignatureKeeps ==
  ASSUME StreamInv, ~o.terminated, FeedSignature PROVE StreamInv'
<1> DEFINE e == BlockDelta(blocks - 1, "signature_delta", <<"signed">>)
<1>1. e.name = "content_block_delta" /\ e.delta = "signature_delta" /\ IsSequence(e.payload)
  BY ShortSequences DEF BlockDelta
<1>2. /\ Takes(e) /\ o' = ResponsesFeed(o, e)
      /\ block = "thinking" /\ block' = block /\ left' = left /\ ended' = ended /\ calls' = calls
  BY DEF FeedSignature, Takes, sourceVars
<1> HIDE DEF e
<1>3. e.name # "error" /\ e.delta \notin {"text_delta", "thinking_delta"}
  BY <1>1
<1>4. TextFed' = TextFed /\ ThinkingFed' = ThinkingFed
  BY <1>2, <1>3, NoContent
<1>5. o' = TakeDelta(o, e)
  BY <1>1, <1>2, FeedIsTake
<1>6. /\ BlockOpen(o, block, left, TextFed, ThinkingFed, calls) /\ IsResponsesOut(o)
      /\ IsSequence(TextFed) /\ IsSequence(ThinkingFed)
  BY StreamRuns
<1>7. Follows(o, o')
  BY <1>1, <1>5, <1>6, TakeDeltaFollows
<1>8. InReasoning(o, TextFed, ThinkingFed, calls)
  BY <1>2, <1>6 DEF BlockOpen
<1>9. InReasoning(o', TextFed, ThinkingFed, calls)
  BY <1>1, <1>5, <1>8, SignatureTells
<1>10. BlockOpen(o', block', left', TextFed, ThinkingFed, calls)
  BY <1>2, <1>9 DEF BlockOpen, None
<1> QED
  BY <1>2, <1>3, <1>4, <1>6, <1>7, <1>10, RegularEvent

LEMMA FragmentKeeps ==
  ASSUME StreamInv, ~o.terminated, NEW n \in 1..Len(left), FeedFragment(n) PROVE StreamInv'
<1> DEFINE piece == SubSeq(left, 1, n)
           rest == SubSeq(left, n + 1, Len(left))
           e == BlockDelta(blocks - 1, "input_json_delta", piece)
           raw == o.open.arguments
<1>1. /\ block = "tool_use" /\ block' = block /\ left' = rest /\ ended' = ended
      /\ Takes(e) /\ o' = ResponsesFeed(o, e) /\ calls' = calls
  BY DEF FeedFragment, Takes
<1>2. /\ BlockOpen(o, block, left, TextFed, ThinkingFed, calls) /\ IsResponsesOut(o)
      /\ IsSequence(TextFed) /\ IsSequence(ThinkingFed)
  BY StreamRuns
<1>3. InTool(o, TextFed, ThinkingFed, calls) /\ InputFed(o, left, calls)
  BY <1>1, <1>2 DEF BlockOpen
<1>4. IsSequence(left) /\ Len(left) \in Nat
  BY <1>3, SequenceLen DEF InputFed
<1>5. IsSequence(piece) /\ IsSequence(rest) /\ piece \o rest = left
  <2>1. n \in Nat /\ n + 1 \in Int /\ n <= Len(left)
    BY <1>4
  <2>2. SubSeq(left, 1, Len(left)) = left
    BY <1>4 DEF IsSequence
  <2>3. SubSeq(left, 1, n) \o SubSeq(left, n + 1, Len(left)) = SubSeq(left, 1, Len(left))
    BY <1>4, <2>1, Pieces
  <2>4. SubSeq(left, 1, n) \o SubSeq(left, n + 1, Len(left)) = left
    BY <2>2, <2>3, Zenon
  <2>5. piece \o rest = left
    BY <2>4 DEF piece, rest
  <2>6. IsSequence(SubSeq(left, 1, n))
    BY <1>4, <2>1, SubSequence
  <2>7. IsSequence(SubSeq(left, n + 1, Len(left)))
    BY <1>4, <2>1, SubSequence
  <2> QED
    BY <2>5, <2>6, <2>7
<1> HIDE DEF piece, rest
<1>6. e.name = "content_block_delta" /\ e.delta = "input_json_delta" /\ e.payload = piece
  BY DEF BlockDelta
<1> HIDE DEF e
<1>7. e.name # "error" /\ e.delta \notin {"text_delta", "thinking_delta"} /\ IsSequence(e.payload)
  BY <1>5, <1>6
<1>8. TextFed' = TextFed /\ ThinkingFed' = ThinkingFed
  BY <1>1, <1>7, NoContent
<1>9. o' = TakeDelta(o, e)
  BY <1>1, <1>6, FeedIsTake
<1>10. Follows(o, o')
  BY <1>2, <1>7, <1>9, TakeDeltaFollows
<1>11. InTool(o', TextFed, ThinkingFed, calls) /\ Fills(o, o', piece)
  BY <1>3, <1>6, <1>7, <1>9, InputTells
<1>14. /\ o'.open.arguments = raw \o piece
       /\ o'.open.kind = o.open.kind /\ o'.open.id = o.open.id
  BY <1>11 DEF Fills
<1>12. InputFed(o', left', calls)
  <2>1. PICK c \in calls : o.open.id = <<o.open.kind, c.call>> /\ c.input = raw \o left
    BY <1>3 DEF InputFed
  <2>2. IsSequence(raw)
    BY <1>3 DEF InTool, Tells, IsResponsesOut, IsItem, NoItem, None, ToolItemKinds
  <2> HIDE DEF raw
  <2>7. IsSequence(raw) /\ IsSequence(piece) /\ IsSequence(rest)
    BY <1>5, <2>2, Zenon
  <2>3. (raw \o piece) \o rest = raw \o (piece \o rest)
    BY ONLY <2>7, ConcatenationAssociates
  <2>4. (raw \o piece) \o rest = c.input
    BY <1>5, <2>1, <2>3, Zenon
  <2>5. c.input = o'.open.arguments \o left'
    BY <1>1, <1>14, <2>4, Zenon
  <2>6. IsSequence(left')
    BY <1>1, <1>5, Zenon
  <2>8. o'.open.id = <<o'.open.kind, c.call>>
    BY <1>14, <2>1, Zenon
  <2> QED
    BY <2>5, <2>6, <2>8 DEF InputFed
<1>13. BlockOpen(o', block', left', TextFed, ThinkingFed, calls)
  BY <1>1, <1>11, <1>12 DEF BlockOpen, None
<1> QED
  BY <1>1, <1>2, <1>7, <1>8, <1>10, <1>13, RegularEvent

LEMMA StopKeeps ==
  ASSUME StreamInv, ~o.terminated, FeedStop PROVE StreamInv'
<1> DEFINE e == BlockStop(blocks - 1)
           x == TextFed
           y == ThinkingFed
<1>1. e.name = "content_block_stop"
  BY DEF BlockStop
<1>2. /\ Takes(e) /\ o' = ResponsesFeed(o, e) /\ ended' = ended /\ calls' = calls
      /\ block # None /\ block' = None /\ left = <<>> /\ left' = left
  BY DEF FeedStop, Takes
<1> HIDE DEF e
<1>3. e.name # "error" /\ ~IsDelta(e)
  BY <1>1 DEF IsDelta
<1>4. TextFed' = x /\ ThinkingFed' = y
  BY <1>2, <1>3, NoContent
<1>5. o' = CloseResponsesBlock(o)
  BY <1>1, <1>2 DEF ResponsesFeed, Terminated, IsStart, IsDelta, IsStop
<1>6. /\ BlockOpen(o, block, left, x, y, calls) /\ IsResponsesOut(o) /\ IsSequence(x) /\ IsSequence(y)
  BY StreamRuns
<1>7. Follows(o, o')
  BY <1>5, <1>6, CloseResponsesBlockFollows
<1> HIDE DEF x, y
<1>8. InTool(o, x, y, calls) /\ InputFed(o, left, calls) => CallKnown(o.open, calls)
  <2> SUFFICES ASSUME InTool(o, x, y, calls), InputFed(o, left, calls) PROVE CallKnown(o.open, calls)
    OBVIOUS
  <2> DEFINE raw == o.open.arguments
  <2>1. PICK c \in calls : o.open.id = <<o.open.kind, c.call>> /\ c.input = raw \o left
    BY DEF InputFed
  <2>2. IsSequence(raw)
    BY DEF InTool, Tells, IsResponsesOut, IsItem, NoItem, None, ToolItemKinds
  <2> HIDE DEF raw
  <2>3. raw \o <<>> = raw
    BY <2>2, EmptyConcatenation
  <2>4. c.input = raw
    BY <1>2, <2>1, <2>3
  <2> QED
    BY <2>1, <2>4 DEF CallKnown, raw
<1>9. Between(o', x, y, calls) \/ AfterText(o', x, y, calls)
  <2>1. InText(o, x, y, calls) \/ InReasoning(o, x, y, calls) \/ (InTool(o, x, y, calls) /\ InputFed(o, left, calls))
    BY <1>2, <1>6 DEF BlockOpen
  <2> QED
    BY <1>5, <1>8, <2>1, BlockDoneTells
<1>10. BlockOpen(o', block', left', x, y, calls)
  BY <1>2, <1>9 DEF BlockOpen, None
<1> QED
  BY <1>2, <1>3, <1>4, <1>6, <1>7, <1>10, RegularEvent

LEMMA ErrorKeeps ==
  ASSUME StreamInv, ~o.terminated, FeedError PROVE StreamInv'
<1> DEFINE e == ErrorEvent("message")
           x == TextFed
           y == ThinkingFed
<1>1. e.name = "error" /\ e.message = "message"
  BY DEF ErrorEvent
<1>2. /\ Takes(e) /\ o' = ResponsesFeed(o, e) /\ ended' = ended /\ ~ended /\ calls' = calls
      /\ fed' = Append(fed, Record(e)) /\ IsSequence(fed)
  BY DEF FeedError, Takes, sourceVars, Record, StreamInv
<1> HIDE DEF e
<1>3. ~IsDelta(e)
  BY <1>1 DEF IsDelta
<1>4. TextFed' = x /\ ThinkingFed' = y
  BY <1>2, <1>3, NoContent
<1>5. o' = Fail(o, e.message)
  BY <1>1, <1>2 DEF ResponsesFeed, Terminated, IsStart, IsDelta, IsStop
<1>6. /\ Good(o, x, y, calls) /\ IsResponsesOut(o) /\ IsSequence(x) /\ IsSequence(y)
      /\ NoneTerminal(o.frames)
  BY StreamRuns DEF StreamInv, Running
<1> HIDE DEF x, y
<1>7. /\ Between(o', x, y, calls) /\ o'.terminated /\ EndTold(o'.frames, o'.output, o'.failed) /\ o'.failed
  BY <1>5, <1>6, FailTells
<1>8. IsResponsesOut(o')
  BY <1>7 DEF Between, Tells
<1>9. o'.terminated = TRUE /\ o'.failed = TRUE
  BY <1>7, <1>8 DEF IsResponsesOut
<1>10. IsSequence(fed') /\ ErrorFed'
  BY <1>1, <1>2, ErrorAppended
<1>11. IsSequence(TextFed') /\ IsSequence(ThinkingFed')
  BY <1>4, <1>6, Zenon
<1>12. Over(o', x, y, calls)
  BY <1>7 DEF Over
<1>13. Over(o, TextFed, ThinkingFed, calls)'
  BY <1>2, <1>4, <1>12 DEF Over, Between, Tells, EndTold
<1>14. ended' \in BOOLEAN /\ ended' = FALSE
  BY <1>2 DEF StreamInv
<1> QED
  BY <1>9, <1>10, <1>11, <1>13, <1>14 DEF StreamInv

LEMMA EndKeeps ==
  ASSUME StreamInv, NEW reason, EndOfStream(reason) PROVE StreamInv'
<1> DEFINE x == TextFed
           y == ThinkingFed
           c == CaptureMeta(o, MessageDelta(reason, NoTokens))
           t == FinishResponse(c)
<1>1. ~ended /\ ended' = TRUE /\ fed' = fed /\ block' = block /\ left' = left /\ calls' = calls
  BY DEF EndOfStream
<1>2. TextFed' = x /\ ThinkingFed' = y /\ (ErrorFed' <=> ErrorFed)
  BY <1>1 DEF TextFed, ThinkingFed, FedContent, ContentOf, TakenOf, ErrorFed
<1>3. IsSequence(fed) /\ IsSequence(x) /\ IsSequence(y)
  BY DEF StreamInv
<1>4. IsSequence(fed') /\ IsSequence(TextFed') /\ IsSequence(ThinkingFed')
  BY <1>1, <1>2, <1>3, Zenon
<1>5. CASE o.terminated
  <2>1. o' = o
    <3>1. o.failed
      BY <1>1, <1>5 DEF StreamInv
    <3>2. o' = FinishResponse(o)
      BY <3>1 DEF EndOfStream
    <3> QED
      BY <1>5, <3>2, FeedTerminated
  <2>2. Over(o, TextFed, ThinkingFed, calls)'
    BY <1>1, <1>2, <1>5, <2>1 DEF StreamInv, Over, Between, Tells, EndTold
  <2> QED
    BY <1>1, <1>2, <1>4, <1>5, <2>1, <2>2 DEF StreamInv
<1>6. CASE ~o.terminated
  <2>1. ~o.failed /\ NoneTerminal(o.frames)
    BY <1>6 DEF StreamInv, Running
  <2>2. o' = FinishResponse(ResponsesFeed(ResponsesFeed(o, MessageDelta(reason, NoTokens)), MessageStop))
    BY <2>1 DEF EndOfStream
  <2>3. ResponsesFeed(o, MessageDelta(reason, NoTokens)) = c
    BY <1>6 DEF ResponsesFeed, Terminated, MessageDelta, IsStart, IsDelta, IsStop
  <2>4. Good(o, x, y, calls) /\ IsResponsesOut(o)
    BY <1>6, StreamRuns
  <2>5. Good(c, x, y, calls) /\ Follows(o, c)
    BY <2>4, CaptureTells, CaptureMetaFollows
  <2> HIDE DEF c, x, y
  <2>6. c.terminated = o.terminated /\ c.failed = o.failed
    BY <2>5 DEF Follows
  <2>7. NoneTerminal(c.frames)
    BY <2>1, <2>4, <2>5, FollowsRegular DEF IsResponsesOut
  <2>8. Between(t, x, y, calls) /\ t.terminated /\ EndTold(t.frames, t.output, t.failed) /\ t.failed = c.failed
    BY <1>6, <2>5, <2>6, <2>7, FinishTells
  <2>9. ResponsesFeed(c, MessageStop) = t
    BY <1>6, <2>6 DEF ResponsesFeed, Terminated, MessageStop, IsStart, IsDelta, IsStop
  <2> HIDE DEF t
  <2>10. FinishResponse(t) = t
    BY <2>8, FeedTerminated
  <2>11. o' = t
    BY <2>2, <2>3, <2>9, <2>10
  <2>12. Over(t, x, y, calls)
    BY <2>8 DEF Over
  <2>13. Over(o, TextFed, ThinkingFed, calls)'
    BY <1>1, <1>2, <2>11, <2>12 DEF Over, Between, Tells, EndTold
  <2>14. o'.terminated = TRUE /\ o'.failed = FALSE
    <3>1. IsResponsesOut(t)
      BY <2>8 DEF Between, Tells
    <3>2. o.failed = FALSE
      BY <2>1, <2>4 DEF IsResponsesOut
    <3> QED
      BY <2>6, <2>8, <2>11, <3>1, <3>2 DEF IsResponsesOut
  <2>15. ~ErrorFed
    BY <2>1 DEF StreamInv
  <2> QED
    BY <1>1, <1>2, <1>4, <2>13, <2>14, <2>15 DEF StreamInv
<1> QED
  BY <1>5, <1>6

LEMMA StreamStep == StreamInv /\ [Next]_responsesVars => StreamInv'
<1> SUFFICES ASSUME StreamInv, [Next]_responsesVars PROVE StreamInv'
  OBVIOUS
<1>1. CASE FeedSignature
  BY <1>1, SignatureKeeps, LateEvent DEF FeedSignature, sourceVars
<1>2. CASE FeedStop
  BY <1>2, StopKeeps, LateEvent DEF FeedStop
<1>3. CASE FeedError
  BY <1>3, ErrorKeeps, LateEvent DEF FeedError, sourceVars
<1>4. ASSUME NEW kind \in {"text", "thinking"}, FeedBlockStart(kind) PROVE StreamInv'
  BY <1>4, StartKeeps, LateEvent DEF FeedBlockStart
<1>5. ASSUME NEW kind \in {"text", "thinking"}, NEW chunk \in Texts, FeedDelta(kind, chunk)
      PROVE  StreamInv'
  BY <1>5, DeltaKeeps, LateEvent DEF FeedDelta, sourceVars
<1>6. ASSUME NEW kind \in ToolKinds, NEW input \in ToolInputs, FeedToolStart(kind, input)
      PROVE  StreamInv'
  BY <1>6, ToolStartKeeps, LateEvent DEF FeedToolStart
<1>7. ASSUME NEW n \in 1..Len(left), FeedFragment(n) PROVE StreamInv'
  BY <1>7, FragmentKeeps, LateEvent DEF FeedFragment
<1>8. ASSUME NEW reason \in StopReasons, EndOfStream(reason) PROVE StreamInv'
  BY <1>8, EndKeeps
<1>9. CASE UNCHANGED responsesVars
  BY <1>9 DEF responsesVars, sourceVars, StreamInv, Running, BlockOpen, Over, Between, AfterText,
     InText, InReasoning, InTool, InputFed, Tells, NoneTerminal, EndTold, TextFed, ThinkingFed,
     FedContent, ContentOf, TakenOf, ErrorFed
<1> QED
  BY <1>1, <1>2, <1>3, <1>4, <1>5, <1>6, <1>7, <1>8, <1>9 DEF Next

\* Every event that feed takes, and Finish, keep what the events sent tell.
THEOREM StreamInvariant == Spec => []StreamInv
<1>1. Init => StreamInv
  BY InitInv
<1>2. StreamInv /\ [Next]_responsesVars => StreamInv'
  BY StreamStep
<1> QED
  BY <1>1, <1>2, PTL DEF Spec

\* Items are added and done in turn under consecutive indexes, the parts of one
\* are opened, told and closed in order, and the numbers of the events are
\* consecutive (startBlock, closeBlock, nextSeq).
THEOREM EventsArePaired == Spec => []EventsPaired
<1>1. StreamInv => EventsPaired
  BY StreamGood, GoodPaired
<1> QED
  BY <1>1, StreamInvariant, PTL

\* What the done event tells and the finished item carries is the whole input of
\* the call, in whatever fragments it came; the fragments sent make it up, or end
\* with it where a custom tool's input goes on after an object
\* (appendToolArguments, appendCustomInputDelta, closeFunction, closeCustom).
THEOREM ToolInputsAreWhole == Spec => []ToolInputWhole
<1>1. StreamInv => ToolInputWhole
  BY StreamGood, GoodInputs
<1> QED
  BY <1>1, StreamInvariant, PTL

\* One terminal event, the last of the stream, says whether it failed, and its
\* output is what the items done were (finish, fail).
THEOREM OneTerminalEvent == Spec => []TerminalEvent
<1>1. StreamInv => TerminalEvent
  <2> SUFFICES ASSUME StreamInv PROVE TerminalEvent
    OBVIOUS
  <2>1. (o.failed <=> ErrorFed) /\ (ended => o.terminated) /\ (~o.terminated => ~o.failed)
    BY DEF StreamInv, Running
  <2>2. CASE o.terminated
    <3>1. Between(o, TextFed, ThinkingFed, calls) /\ EndTold(o.frames, o.output, o.failed)
      BY <2>2 DEF StreamInv, Over
    <3> QED
      BY <2>1, <3>1, EndedTells DEF TerminalEvent
  <2>3. CASE ~o.terminated
    <3>1. NoneTerminal(o.frames)
      BY <2>3 DEF StreamInv, Running
    <3>2. Terminals(Sent) = {}
      BY <3>1 DEF NoneTerminal, Terminals, At, Sent, TerminalTypes
    <3> QED
      BY <2>1, <2>3, <3>2 DEF TerminalEvent
  <2> QED
    BY <2>2, <2>3
<1> QED
  BY <1>1, StreamInvariant, PTL

\* The text and the reasoning fed before the end are, in order, what the
\* deltas of text and of reasoning carry (blockDelta).
THEOREM ContentIsKept == Spec => []ContentKept
<1>1. StreamInv => ContentKept
  BY StreamGood, GoodContent, ContentFedIs DEF ContentKept, TextFed, ThinkingFed
<1> QED
  BY <1>1, StreamInvariant, PTL

===============================================================================
