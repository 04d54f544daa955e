--------------------------- MODULE AnswersProofs ---------------------------
(***************************************************************************)
(* What holds of the answers for every stream: the message is what the     *)
(* stream says, each tool has its own input, the frames of a streamed chat *)
(* completion are in order, tell a failure and say what the buffered       *)
(* completion says, and every token is billed once.                        *)
(*                                                                         *)
(* The argument has two halves.  The first is about sequences of events    *)
(* alone: Aggregated and Coded say what an aggregator, an encoder and a    *)
(* chat aggregator are after a stream, and each event keeps them, if the   *)
(* stream stays Good (EventMirrored).  The second is about the system: the *)
(* translator's stream is Good, a call adds some events to it, and so, by  *)
(* induction over these events, Mirrored holds after the call if it held   *)
(* before (NextMirrored).                                                  *)
(***************************************************************************)
EXTENDS Answers, StreamProofs

---------------------------------------------------------------------------
(* The consumers after the events es. *)

IsDelivery(f, x, es) ==
  f[0] = x /\ \A n \in 1..Len(es) : f[n] = Deliver(f[n - 1], es[n])

LEMMA DeliveredIs ==
  ASSUME NEW x, NEW es, IsSequence(es)
  PROVE  \E f : IsDelivery(f, x, es) /\ Delivered(x, es) = f[Len(es)]
<1> DEFINE F(f, m) == f = [n \in 0..m |-> IF n = 0 THEN x ELSE Deliver(f[n - 1], es[n])]
           S == {m \in Nat : \E f : F(f, m)}
<1>1. 0 \in S
  <2> DEFINE f == [n \in 0..0 |-> x]
  <2>1. F(f, 0)
    OBVIOUS
  <2> QED
    BY <2>1
<1>2. ASSUME NEW m \in Nat, m \in S PROVE m + 1 \in S
  <2>1. PICK f : F(f, m)
    BY <1>2
  <2> DEFINE g == [n \in 0..(m + 1) |-> IF n = m + 1 THEN Deliver(f[m], es[m + 1]) ELSE f[n]]
  <2>2. \A n \in 0..m : f[n] = IF n = 0 THEN x ELSE Deliver(f[n - 1], es[n])
    BY <2>1
  <2>3. \A n \in 0..(m + 1) : g[n] = IF n = 0 THEN x ELSE Deliver(g[n - 1], es[n])
    BY <2>2
  <2>4. g = [n \in 0..(m + 1) |-> g[n]]
    OBVIOUS
  <2> HIDE DEF g
  <2>5. F(g, m + 1)
    BY <2>3, <2>4
  <2> QED
    BY <2>5
<1> HIDE DEF S
<1>3. Len(es) \in S
  <2>1. Len(es) \in Nat
    BY SequenceLen
  <2> QED
    BY <1>1, <1>2, <2>1, Induction
<1> DEFINE f == CHOOSE f : F(f, Len(es))
<1>4. F(f, Len(es))
  BY <1>3 DEF S
<1>5. Delivered(x, es) = f[Len(es)]
  BY DEF Delivered
<1> HIDE DEF f
<1>6. /\ f[0] = x
      /\ \A n \in 1..Len(es) : f[n] = Deliver(f[n - 1], es[n])
  BY <1>4, <1>3, SequenceLen
<1> QED
  BY <1>5, <1>6 DEF IsDelivery

---------------------------------------------------------------------------
(* The message. *)

IsBlock(b) ==
  /\ b = [type |-> b.type, text |-> b.text, signature |-> b.signature, input |-> b.input]
  /\ IsSequence(b.text)

\* A delta of stream s carries one chunk, a tool input one of the texts.
Plain(s) ==
  \A i \in 1..Len(s) : IsDelta(s[i]) /\ s[i].delta # "signature_delta" =>
    /\ s[i].payload = <<s[i].payload[1]>>
    /\ s[i].delta = "input_json_delta" => s[i].payload[1] \in JSONTexts

\* Of the m blocks of stream s each has a start.
Blocks(s, m) ==
  /\ m = Cardinality(Starts(s))
  /\ \A i \in Starts(s) : s[i].index \in 0..(m - 1)
  /\ \A b \in 0..(m - 1) : \E i \in Starts(s) : s[i].index = b

\* C are the blocks of stream s.
BlocksOf(s, C) ==
  /\ IsSequence(C) /\ \A p \in 1..Len(C) : IsBlock(C[p])
  /\ Blocks(s, Len(C))
  /\ \A i \in Starts(s) :
       /\ C[s[i].index + 1].type = s[i].kind
       /\ Carried(C[s[i].index + 1].text, s, TextDeltas(s, s[i].index))
  /\ \A k \in 1..Len(s) : IsDelta(s[k]) => s[k].index \in 0..(Len(C) - 1)

\* J are the inputs of its tool blocks.
InputsOf(s, J) ==
  /\ J = [b \in DOMAIN J |-> J[b]] /\ \A b \in DOMAIN J : IsSequence(J[b])
  /\ DOMAIN J = {s[i].index : i \in {j \in Starts(s) : s[j].kind = "tool_use"}}
  /\ \A b \in DOMAIN J : Carried(J[b], s, InputDeltas(s, b))

\* u is the usage its latest message_delta brought, if there was one.
Billed(s, u) ==
  \A i \in 1..Len(s) :
    (s[i].name = "message_delta" /\ \A k \in (i + 1)..Len(s) : s[k].name # "message_delta")
      => u = s[i].usage

\* The aggregator a has taken in stream s.
Aggregated(s, a) ==
  /\ a = [content |-> a.content, inputJSON |-> a.inputJSON,
          stop_reason |-> a.stop_reason, usage |-> a.usage]
  /\ BlocksOf(s, a.content)
  /\ InputsOf(s, a.inputJSON)
  /\ Billed(s, a.usage)

LEMMA StartAdded ==
  ASSUME NEW s \in Seq(Event), NEW e \in Event
  PROVE  /\ Starts(s) \subseteq 1..Len(s)
         /\ IsStart(e)  => Starts(Append(s, e)) = Starts(s) \cup {Len(s) + 1}
         /\ ~IsStart(e) => Starts(Append(s, e)) = Starts(s)
<1> DEFINE t == Append(s, e)
           n == Len(s) + 1
<1>1. /\ Len(t) = Len(s) + 1 /\ t[n] = e /\ \A i \in 1..Len(s) : t[i] = s[i]
      /\ Len(s) \in Nat
  BY AppendSeq
<1>2. 1..Len(t) = 1..Len(s) \cup {n}
  BY <1>1
<1> QED
  BY <1>1, <1>2 DEF Starts

LEMMA DeltaAdded ==
  ASSUME NEW s \in Seq(Event), NEW e \in Event, NEW b
  PROVE  LET text  == IsDelta(e) /\ e.index = b /\ e.delta \in {"text_delta", "thinking_delta"}
             input == IsDelta(e) /\ e.index = b /\ e.delta = "input_json_delta"
         IN /\ TextDeltas(s, b) \subseteq 1..Len(s) /\ InputDeltas(s, b) \subseteq 1..Len(s)
            /\ text   => TextDeltas(Append(s, e), b) = TextDeltas(s, b) \cup {Len(s) + 1}
            /\ ~text  => TextDeltas(Append(s, e), b) = TextDeltas(s, b)
            /\ input  => InputDeltas(Append(s, e), b) = InputDeltas(s, b) \cup {Len(s) + 1}
            /\ ~input => InputDeltas(Append(s, e), b) = InputDeltas(s, b)
<1> DEFINE t == Append(s, e)
           n == Len(s) + 1
<1>1. /\ Len(t) = Len(s) + 1 /\ t[n] = e /\ \A i \in 1..Len(s) : t[i] = s[i]
      /\ Len(s) \in Nat
  BY AppendSeq
<1>2. 1..Len(t) = 1..Len(s) \cup {n}
  BY <1>1
<1>3. /\ TextDeltas(s, b) \subseteq 1..Len(s) /\ InputDeltas(s, b) \subseteq 1..Len(s)
  BY DEF TextDeltas, InputDeltas
<1> HIDE DEF t, n
<1>4. /\ (IsDelta(e) /\ e.index = b /\ e.delta \in {"text_delta", "thinking_delta"})
           => TextDeltas(t, b) = TextDeltas(s, b) \cup {n}
      /\ ~(IsDelta(e) /\ e.index = b /\ e.delta \in {"text_delta", "thinking_delta"})
           => TextDeltas(t, b) = TextDeltas(s, b)
  BY <1>1, <1>2 DEF TextDeltas
<1>5. /\ (IsDelta(e) /\ e.index = b /\ e.delta = "input_json_delta")
           => InputDeltas(t, b) = InputDeltas(s, b) \cup {n}
      /\ ~(IsDelta(e) /\ e.index = b /\ e.delta = "input_json_delta")
           => InputDeltas(t, b) = InputDeltas(s, b)
  BY <1>1, <1>2 DEF InputDeltas
<1> QED
  BY <1>3, <1>4, <1>5 DEF t, n

LEMMA CarriedKept ==
  ASSUME NEW s \in Seq(Event), NEW e \in Event, NEW P, P \subseteq 1..Len(s),
         NEW chunks, Carried(chunks, s, P)
  PROVE  Carried(chunks, Append(s, e), P)
<1>1. \A i \in 1..Len(s) : Append(s, e)[i] = s[i]
  BY AppendSeq
<1> QED
  BY <1>1 DEF Carried

LEMMA PlaceIn ==
  ASSUME NEW n \in Nat, NEW P, P \subseteq 1..n, NEW i \in P
  PROVE  Place(P, i) \in 1..Cardinality(P)
<1> DEFINE Q == {j \in P : j <= i}
<1>0. i \in 1..n /\ i <= i
  OBVIOUS
<1>1. i \in Q /\ Q \subseteq 1..n
  BY <1>0
<1>2. IsFiniteSet(Q) /\ Cardinality(Q) \in Nat /\ IsFiniteSet(P) /\ Cardinality(P) \in Nat
  BY <1>1, PositionsFinite
<1>3. Cardinality(Q) # 0
  BY <1>1, <1>2, FS_EmptySet
<1>4. Place(P, i) = Cardinality(Q)
  BY DEF Place
<1>5. Place(P, i) <= Cardinality(P)
  BY PlaceType
<1> QED
  BY <1>2, <1>3, <1>4, <1>5

LEMMA CarriedMore ==
  ASSUME NEW s \in Seq(Event), NEW e \in Event, NEW P, P \subseteq 1..Len(s),
         NEW chunks, IsSequence(chunks), Carried(chunks, s, P), e.payload = <<e.payload[1]>>
  PROVE  /\ Carried(chunks \o e.payload, Append(s, e), P \cup {Len(s) + 1})
         /\ IsSequence(chunks \o e.payload)
<1> DEFINE n == Len(s) + 1
           t == Append(s, e)
           x == e.payload[1]
           more == chunks \o <<x>>
           Q == P \cup {n}
<1>1. /\ t[n] = e /\ \A i \in 1..Len(s) : t[i] = s[i]
      /\ Len(s) \in Nat
  BY AppendSeq
<1>2. /\ IsSequence(more) /\ Len(more) = Len(chunks) + 1
      /\ \A i \in 1..Len(chunks) : more[i] = chunks[i]
      /\ more[Len(chunks) + 1] = x
  BY OneAdded
<1>3. /\ Cardinality(Q) = Cardinality(P) + 1
      /\ Place(Q, n) = Cardinality(P) + 1
      /\ \A i \in P : Place(Q, i) = Place(P, i)
  BY <1>1, PositionAdded
<1>4. Len(chunks) = Cardinality(P) /\ \A i \in P : s[i].payload = <<chunks[Place(P, i)]>>
  BY DEF Carried
<1>5. \A i \in P : Place(P, i) \in 1..Len(chunks)
  <2> TAKE i \in P
  <2> QED
    BY <1>1, <1>4, PlaceIn
<1> HIDE DEF more, t, Q, x
<1>6. \A i \in P : t[i].payload = <<more[Place(Q, i)]>>
  <2> TAKE i \in P
  <2>1. t[i] = s[i]
    BY <1>1
  <2>2. Place(Q, i) = Place(P, i) /\ more[Place(P, i)] = chunks[Place(P, i)]
    BY <1>2, <1>3, <1>5
  <2> QED
    BY <1>4, <2>1, <2>2
<1>7. t[n].payload = <<more[Place(Q, n)]>>
  <2>1. t[n].payload = <<x>>
    BY <1>1 DEF x
  <2>2. more[Place(Q, n)] = x
    BY <1>2, <1>3, <1>4
  <2> QED
    BY <2>1, <2>2
<1>8. Len(more) = Cardinality(Q)
  BY <1>2, <1>3, <1>4
<1>9. Carried(more, t, Q)
  BY <1>6, <1>7, <1>8 DEF Carried, Q
<1>10. more = chunks \o e.payload
  BY DEF more, x
<1> QED
  BY <1>2, <1>9, <1>10 DEF t, Q

\* A new block has the number after the last.
LEMMA NumberOfStart ==
  ASSUME NEW s \in Seq(Event), NEW e \in Event, Numbered(Append(s, e)), IsStart(e),
         NEW m \in Nat, Blocks(s, m)
  PROVE  /\ e.index = m
         /\ Blocks(Append(s, e), m + 1)
<1> DEFINE t == Append(s, e)
           n == Len(s) + 1
<1>1. /\ t[n] = e /\ Len(t) = n /\ \A i \in 1..Len(s) : t[i] = s[i]
      /\ Len(s) \in Nat /\ n \in 1..Len(t)
  BY AppendSeq
<1>2. Starts(s) \subseteq 1..Len(s) /\ Starts(t) = Starts(s) \cup {n}
  BY StartAdded
<1>3. e.index \in Nat
  BY StartType
<1>4. FollowsPrevious(t, n)
  BY <1>1 DEF Numbered
<1>5. e.index >= m
  <2> SUFFICES ASSUME e.index < m PROVE FALSE
    BY <1>3
  <2>1. PICK i \in Starts(s) : s[i].index = e.index
    BY <1>3 DEF Blocks
  <2>2. i \in 1..(n - 1) /\ IsStart(t[i]) /\ t[i].index = e.index
    BY <1>1, <1>2, <2>1 DEF Starts
  <2>3. t[i].index < e.index
    BY <1>1, <1>4, <2>2 DEF FollowsPrevious
  <2> QED
    BY <1>3, <2>2, <2>3
<1>6. e.index <= m
  <2> SUFFICES ASSUME e.index > 0 PROVE e.index <= m
    BY <1>3
  <2>1. PICK i \in 1..(n - 1) : IsStart(t[i]) /\ t[i].index = e.index - 1
    BY <1>1, <1>4 DEF FollowsPrevious
  <2>2. i \in Starts(s) /\ s[i].index = e.index - 1
    BY <1>1, <2>1 DEF Starts
  <2>3. s[i].index < m
    BY <2>2 DEF Blocks
  <2> QED
    BY <1>3, <2>2, <2>3
<1>7. e.index = m
  BY <1>3, <1>5, <1>6
<1>8. Cardinality(Starts(t)) = m + 1
  <2> DEFINE P == Starts(s)
             k == Len(s)
  <2>1. Cardinality(P) = m /\ P \subseteq 1..k /\ k \in Nat /\ Starts(t) = P \cup {k + 1}
    BY <1>1, <1>2 DEF Blocks
  <2> HIDE DEF P, k
  <2>2. Cardinality(P \cup {k + 1}) = Cardinality(P) + 1
    BY <2>1, PositionAdded
  <2> QED
    BY <2>1, <2>2
<1>9. \A i \in Starts(t) : t[i].index \in 0..m
  BY <1>1, <1>2, <1>7 DEF Blocks
<1>10. ASSUME NEW b \in 0..m PROVE \E i \in Starts(t) : t[i].index = b
  <2>1. CASE b = m
    BY <1>1, <1>2, <1>7, <2>1
  <2>2. CASE b # m
    <3>1. PICK i \in Starts(s) : s[i].index = b
      BY <2>2 DEF Blocks
    <3> QED
      BY <1>1, <1>2, <3>1
  <2> QED
    BY <2>1, <2>2
<1>11. (m + 1) - 1 = m
  OBVIOUS
<1> QED
  BY <1>7, <1>8, <1>9, <1>10, <1>11 DEF Blocks

LEMMA NoStartAdded ==
  ASSUME NEW s \in Seq(Event), NEW e \in Event, ~IsStart(e), NEW m, Blocks(s, m)
  PROVE  Blocks(Append(s, e), m)
<1> DEFINE t == Append(s, e)
<1>1. \A i \in 1..Len(s) : t[i] = s[i]
  BY AppendSeq
<1>2. Starts(s) \subseteq 1..Len(s) /\ Starts(t) = Starts(s)
  BY StartAdded
<1> HIDE DEF t
<1>3. \A i \in Starts(s) : t[i] = s[i]
  BY <1>1, <1>2
<1>4. Blocks(t, m)
  BY <1>2, <1>3 DEF Blocks
<1> QED
  BY <1>4 DEF t

\* A delta belongs to the latest block.
LEMMA NumberOfDelta ==
  ASSUME NEW s \in Seq(Event), NEW e \in Event, IsDelta(e),
         Disciplined(Append(s, e)), Numbered(Append(s, e)), NEW m \in Nat, Blocks(s, m)
  PROVE  /\ m > 0 /\ e.index = m - 1
         /\ \E j \in Starts(s) : /\ s[j].index = m - 1 /\ e.delta \in DeltasOf(s[j].kind)
                                 /\ \A i \in Starts(s) : i <= j
<1> DEFINE t == Append(s, e)
           n == Len(s) + 1
<1>1. /\ t[n] = e /\ Len(t) = n /\ \A i \in 1..Len(s) : t[i] = s[i]
      /\ Len(s) \in Nat /\ n \in 1..Len(t)
  BY AppendSeq
<1>2. Starts(s) \subseteq 1..Len(s)
  BY DEF Starts
<1>3. PICK j \in 1..(n - 1) :
        OpenUntil(t, j, n) /\ t[j].index = e.index /\ e.delta \in DeltasOf(t[j].kind)
  BY <1>1 DEF Disciplined, DeltaIsOfOpenBlock
<1>4. j \in Starts(s) /\ t[j] = s[j]
  BY <1>1, <1>3 DEF OpenUntil, Starts
<1>5. \A i \in Starts(s) : i <= j
  <2> SUFFICES ASSUME NEW i \in Starts(s), i > j PROVE FALSE
    BY <1>2, <1>4
  <2>1. i \in (j + 1)..(n - 1) /\ IsStart(t[i])
    BY <1>1, <1>2 DEF Starts
  <2> QED
    BY <1>3, <2>1 DEF OpenUntil, IsStart
<1>6. s[j].index \in 0..(m - 1)
  BY <1>4 DEF Blocks
<1>7. s[j].index = m - 1
  <2>1. PICK i \in Starts(s) : s[i].index = m - 1
    BY <1>6 DEF Blocks
  <2>2. CASE i = j
    BY <2>1, <2>2
  <2>3. CASE i # j
    <3>1. i \in 1..(j - 1) /\ IsStart(t[i]) /\ IsStart(t[j]) /\ t[i] = s[i] /\ j \in 1..Len(t)
      BY <1>1, <1>2, <1>4, <1>5, <2>3 DEF Starts
    <3>2. t[i].index < t[j].index
      BY <3>1 DEF Numbered, FollowsPrevious
    <3> QED
      BY <1>4, <1>6, <2>1, <3>1, <3>2
  <2> QED
    BY <2>2, <2>3
<1> QED
  BY <1>3, <1>4, <1>5, <1>6, <1>7

LEMMA NothingCarried == \A s : Carried(<<>>, s, {})
BY FS_EmptySet, ShortSequences DEF Carried

LEMMA BlockStarted ==
  ASSUME NEW s \in Seq(Event), NEW e \in Event, IsStart(e), Numbered(Append(s, e)),
         NEW C, BlocksOf(s, C)
  PROVE  BlocksOf(Append(s, e), Append(C, EmptyBlock(e.kind))) /\ e.index = Len(C)
<1> DEFINE t == Append(s, e)
           n == Len(s) + 1
           m == Len(C)
           b == EmptyBlock(e.kind)
           D == Append(C, b)
<1>1. /\ t[n] = e /\ Len(t) = n /\ \A i \in 1..Len(s) : t[i] = s[i]
      /\ Len(s) \in Nat /\ 1..Len(t) = 1..Len(s) \cup {n}
  BY AppendSeq
<1>2. IsSequence(C) /\ m \in Nat
  BY SequenceLen DEF BlocksOf
<1>3. e.index = m /\ Blocks(t, m + 1)
  BY <1>2, NumberOfStart DEF BlocksOf
<1>4. /\ IsSequence(D) /\ Len(D) = m + 1 /\ D[m + 1] = b
      /\ \A p \in 1..m : D[p] = C[p]
  <2> HIDE DEF b
  <2> QED
    BY ONLY <1>2, Appended
<1>5. IsBlock(b) /\ b.type = e.kind /\ b.text = <<>>
  BY ShortSequences DEF EmptyBlock, IsBlock
<1>6. Starts(s) \subseteq 1..Len(s) /\ Starts(t) = Starts(s) \cup {n}
  BY StartAdded
<1>7. ~IsDelta(e)
  BY DEF IsStart, IsDelta
<1>8. \A x : TextDeltas(t, x) = TextDeltas(s, x) /\ TextDeltas(s, x) \subseteq 1..Len(s)
  BY <1>7, DeltaAdded
<1>9. TextDeltas(s, m) = {}
  BY <1>2 DEF BlocksOf, TextDeltas
<1> HIDE DEF D, b
<1>10. \A p \in 1..Len(D) : IsBlock(D[p])
  BY <1>2, <1>4, <1>5 DEF BlocksOf
<1>11. ASSUME NEW i \in Starts(t)
       PROVE  /\ D[t[i].index + 1].type = t[i].kind
              /\ Carried(D[t[i].index + 1].text, t, TextDeltas(t, t[i].index))
  <2>1. CASE i = n
    <3>1. t[i] = e /\ D[e.index + 1] = b
      BY <1>1, <1>3, <1>4, <2>1
    <3>2. TextDeltas(t, e.index) = {}
      BY <1>3, <1>8, <1>9
    <3>3. Carried(b.text, t, {})
      BY <1>5, NothingCarried
    <3> QED
      BY <1>5, <3>1, <3>2, <3>3
  <2>2. CASE i # n
    <3> DEFINE x == s[i].index
               text == C[x + 1].text
    <3>1. i \in Starts(s) /\ t[i] = s[i]
      BY <1>1, <1>6, <2>2
    <3>2. x \in 0..(m - 1) /\ C[x + 1].type = s[i].kind /\ Carried(text, s, TextDeltas(s, x))
      BY <3>1 DEF BlocksOf, Blocks
    <3>3. D[x + 1] = C[x + 1]
      BY <1>2, <1>4, <3>2
    <3> HIDE DEF text, x
    <3>4. Carried(text, t, TextDeltas(t, x))
      BY <1>8, <3>2, CarriedKept
    <3> QED
      BY <3>1, <3>2, <3>3, <3>4 DEF text, x
  <2> QED
    BY <2>1, <2>2
<1>12. ASSUME NEW k \in 1..Len(t), IsDelta(t[k]) PROVE t[k].index \in 0..(Len(D) - 1)
  <2>1. k \in 1..Len(s) /\ t[k] = s[k]
    BY <1>1, <1>7, <1>12
  <2>2. s[k].index \in 0..(m - 1)
    BY <1>12, <2>1 DEF BlocksOf
  <2> QED
    BY <1>2, <1>4, <2>1, <2>2
<1>13. BlocksOf(t, D)
  BY <1>3, <1>4, <1>10, <1>11, <1>12 DEF BlocksOf
<1> QED
  BY <1>3, <1>13 DEF D, b

\* Blocks whose text is as before.
LEMMA BlocksKept ==
  ASSUME NEW s \in Seq(Event), NEW e \in Event, ~IsStart(e), NEW C, BlocksOf(s, C),
         IsDelta(e) => /\ e.delta \notin {"text_delta", "thinking_delta"}
                       /\ e.index \in 0..(Len(C) - 1),
         NEW D, IsSequence(D), Len(D) = Len(C),
         \A p \in 1..Len(C) : /\ IsBlock(D[p])
                              /\ D[p].type = C[p].type /\ D[p].text = C[p].text
  PROVE  BlocksOf(Append(s, e), D)
<1> DEFINE t == Append(s, e)
           n == Len(s) + 1
           m == Len(C)
<1>1. /\ t[n] = e /\ Len(t) = n /\ \A i \in 1..Len(s) : t[i] = s[i]
      /\ Len(s) \in Nat /\ 1..Len(t) = 1..Len(s) \cup {n}
  BY AppendSeq
<1>2. m \in Nat
  BY SequenceLen DEF BlocksOf
<1>3. Blocks(t, m)
  BY NoStartAdded DEF BlocksOf
<1>6. Starts(s) \subseteq 1..Len(s) /\ Starts(t) = Starts(s)
  BY StartAdded
<1>8. \A x : TextDeltas(t, x) = TextDeltas(s, x) /\ TextDeltas(s, x) \subseteq 1..Len(s)
  BY DeltaAdded
<1>11. ASSUME NEW i \in Starts(t)
       PROVE  /\ D[t[i].index + 1].type = t[i].kind
              /\ Carried(D[t[i].index + 1].text, t, TextDeltas(t, t[i].index))
  <2> DEFINE x == s[i].index
             text == C[x + 1].text
  <2>1. i \in Starts(s) /\ t[i] = s[i]
    BY <1>1, <1>6
  <2>2. x \in 0..(m - 1) /\ C[x + 1].type = s[i].kind /\ Carried(text, s, TextDeltas(s, x))
    BY <2>1 DEF BlocksOf, Blocks
  <2>3. D[x + 1].type = C[x + 1].type /\ D[x + 1].text = text
    BY <1>2, <2>2
  <2> HIDE DEF text, x
  <2>4. Carried(text, t, TextDeltas(t, x))
    BY <1>8, <2>2, CarriedKept
  <2> QED
    BY <2>1, <2>2, <2>3, <2>4 DEF x
<1>12. \A k \in 1..Len(t) : IsDelta(t[k]) => t[k].index \in 0..(Len(D) - 1)
  BY <1>1 DEF BlocksOf
<1> QED
  BY <1>3, <1>11, <1>12 DEF BlocksOf

\* A chunk joins the latest block.
LEMMA BlockWritten ==
  ASSUME NEW s \in Seq(Event), NEW e \in Event, IsDelta(e), ~IsStart(e),
         e.delta \in {"text_delta", "thinking_delta"}, e.payload = <<e.payload[1]>>,
         NEW C, BlocksOf(s, C), Len(C) > 0, e.index = Len(C) - 1
  PROVE  BlocksOf(Append(s, e), [C EXCEPT ![Len(C)].text = Written(@, e.payload)])
<1> DEFINE t == Append(s, e)
           n == Len(s) + 1
           m == Len(C)
           D == [C EXCEPT ![m].text = Written(@, e.payload)]
           more == C[m].text \o e.payload
<1>1. /\ t[n] = e /\ Len(t) = n /\ \A i \in 1..Len(s) : t[i] = s[i]
      /\ Len(s) \in Nat /\ 1..Len(t) = 1..Len(s) \cup {n}
  BY AppendSeq
<1>2. IsSequence(C) /\ m \in Nat /\ m \in 1..m /\ IsBlock(C[m]) /\ IsSequence(C[m].text)
  BY SequenceLen DEF BlocksOf, IsBlock
<1>3. Blocks(t, m)
  BY NoStartAdded DEF BlocksOf
<1>6. Starts(s) \subseteq 1..Len(s) /\ Starts(t) = Starts(s)
  BY StartAdded
<1>7. /\ \A x : x # m - 1 => TextDeltas(t, x) = TextDeltas(s, x)
      /\ \A x : TextDeltas(s, x) \subseteq 1..Len(s)
      /\ TextDeltas(t, m - 1) = TextDeltas(s, m - 1) \cup {n}
  BY DeltaAdded
<1>4. /\ D = [p \in 1..m |-> IF p = m THEN [C[m] EXCEPT !.text = more] ELSE C[p]]
  <2>1. DOMAIN C = 1..m /\ C = [p \in 1..m |-> C[p]]
    <3>1. PICK S : C \in Seq(S)
      BY <1>2 DEF IsSequence
    <3> QED
      BY <3>1
  <2> QED
    BY <1>2, <2>1 DEF Written
<1>5. PICK i \in Starts(s) : s[i].index = m - 1
  BY <1>2 DEF BlocksOf, Blocks
<1>8. Carried(C[m].text, s, TextDeltas(s, m - 1))
  BY <1>2, <1>5 DEF BlocksOf
<1>9. IsSequence(more) /\ Carried(more, t, TextDeltas(t, m - 1))
  <2> DEFINE old == C[m].text
             P == TextDeltas(s, m - 1)
  <2>1. IsSequence(old) /\ Carried(old, s, P) /\ P \subseteq 1..Len(s)
    BY <1>2, <1>7, <1>8
  <2> HIDE DEF old, P
  <2>2. IsSequence(old \o e.payload) /\ Carried(old \o e.payload, Append(s, e), P \cup {n})
    BY <2>1, CarriedMore
  <2> QED
    BY <1>7, <2>2 DEF old, P
<1> HIDE DEF D, more
<1>10. /\ IsSequence(D) /\ Len(D) = m
       /\ \A p \in 1..(m - 1) : D[p] = C[p]
       /\ D[m].type = C[m].type /\ D[m].text = more /\ IsBlock(D[m])
  <2>1. DOMAIN D = 1..m /\ D = [p \in DOMAIN D |-> D[p]]
    BY <1>4
  <2>2. D[m] = [C[m] EXCEPT !.text = more] /\ \A p \in 1..(m - 1) : D[p] = C[p]
    BY <1>2, <1>4
  <2>3. /\ D[m].type = C[m].type /\ D[m].text = more /\ IsBlock(D[m])
    BY <1>2, <1>9, <2>2 DEF IsBlock
  <2> QED
    BY <1>2, <2>1, <2>2, <2>3, TableIsSequence
<1>11. ASSUME NEW k \in Starts(t)
       PROVE  /\ D[t[k].index + 1].type = t[k].kind
              /\ Carried(D[t[k].index + 1].text, t, TextDeltas(t, t[k].index))
  <2> DEFINE x == s[k].index
             text == C[x + 1].text
  <2>1. k \in Starts(s) /\ t[k] = s[k]
    BY <1>1, <1>6
  <2>2. x \in 0..(m - 1) /\ C[x + 1].type = s[k].kind /\ Carried(text, s, TextDeltas(s, x))
    BY <2>1 DEF BlocksOf, Blocks
  <2> HIDE DEF x
  <2>3. CASE x = m - 1
    BY <1>2, <1>9, <1>10, <2>1, <2>2, <2>3 DEF x
  <2>4. CASE x # m - 1
    <3>1. x + 1 \in 1..(m - 1) /\ D[x + 1] = C[x + 1]
      BY <1>2, <1>10, <2>2, <2>4
    <3> HIDE DEF text
    <3>2. Carried(text, t, TextDeltas(t, x))
      BY <1>7, <2>2, <2>4, CarriedKept
    <3> QED
      BY <2>1, <2>2, <3>1, <3>2 DEF x, text
  <2> QED
    BY <2>3, <2>4
<1>12. \A k \in 1..Len(t) : IsDelta(t[k]) => t[k].index \in 0..(Len(D) - 1)
  BY <1>1, <1>2, <1>10 DEF BlocksOf
<1>13. \A p \in 1..Len(D) : IsBlock(D[p])
  BY <1>2, <1>10 DEF BlocksOf
<1>14. BlocksOf(t, D)
  BY <1>3, <1>10, <1>11, <1>12, <1>13 DEF BlocksOf
<1> QED
  BY <1>14 DEF D

LEMMA InputsKept ==
  ASSUME NEW s \in Seq(Event), NEW e \in Event, NEW J, InputsOf(s, J),
         IsStart(e) => e.kind # "tool_use",
         IsDelta(e) => e.delta # "input_json_delta"
  PROVE  InputsOf(Append(s, e), J)
<1> DEFINE t == Append(s, e)
           n == Len(s) + 1
<1>1. t[n] = e /\ (\A i \in 1..Len(s) : t[i] = s[i]) /\ Len(s) \in Nat
  BY AppendSeq
<1>2. /\ Starts(s) \subseteq 1..Len(s)
      /\ ~IsStart(e) => Starts(t) = Starts(s)
      /\ IsStart(e) => Starts(t) = Starts(s) \cup {n}
  BY StartAdded
<1>3. \A b : InputDeltas(t, b) = InputDeltas(s, b) /\ InputDeltas(s, b) \subseteq 1..Len(s)
  BY DeltaAdded
<1>4. \A b \in DOMAIN J : Carried(J[b], s, InputDeltas(s, b))
  BY DEF InputsOf
<1>5. ASSUME NEW b \in DOMAIN J PROVE Carried(J[b], t, InputDeltas(t, b))
  <2> DEFINE chunks == J[b]
             P == InputDeltas(s, b)
  <2>1. Carried(chunks, s, P) /\ P \subseteq 1..Len(s)
    BY <1>3, <1>4
  <2> HIDE DEF chunks, P
  <2>2. Carried(chunks, Append(s, e), P)
    BY <2>1, CarriedKept
  <2> QED
    BY <1>3, <2>2 DEF chunks, P
<1>6. {s[i].index : i \in {j \in Starts(s) : s[j].kind = "tool_use"}}
        = {t[i].index : i \in {j \in Starts(t) : t[j].kind = "tool_use"}}
  BY <1>1, <1>2
<1> QED
  BY <1>5, <1>6 DEF InputsOf

LEMMA InputStarted ==
  ASSUME NEW s \in Seq(Event), NEW e \in Event, NEW J, InputsOf(s, J),
         IsStart(e), ~IsDelta(e), e.kind = "tool_use", InputDeltas(s, e.index) = {},
         e.index \notin DOMAIN J
  PROVE  InputsOf(Append(s, e), WithInput(J, e.index, <<>>))
<1> DEFINE t == Append(s, e)
           n == Len(s) + 1
           x == e.index
           K == WithInput(J, x, <<>>)
<1>1. t[n] = e /\ (\A i \in 1..Len(s) : t[i] = s[i]) /\ Len(s) \in Nat
  BY AppendSeq
<1>2. Starts(s) \subseteq 1..Len(s) /\ Starts(t) = Starts(s) \cup {n}
  BY StartAdded
<1>3. \A b : InputDeltas(t, b) = InputDeltas(s, b) /\ InputDeltas(s, b) \subseteq 1..Len(s)
  BY DeltaAdded
<1>4. \A b \in DOMAIN J : Carried(J[b], s, InputDeltas(s, b))
  BY DEF InputsOf
<1>5. /\ DOMAIN K = DOMAIN J \cup {x} /\ K = [b \in DOMAIN K |-> K[b]]
      /\ K[x] = <<>> /\ \A b \in DOMAIN J : K[b] = J[b]
  BY DEF WithInput
<1> HIDE DEF K
<1>6. ASSUME NEW b \in DOMAIN K PROVE IsSequence(K[b]) /\ Carried(K[b], t, InputDeltas(t, b))
  <2>1. CASE b = x
    BY <1>3, <1>5, <2>1, NothingCarried, ShortSequences
  <2>2. CASE b # x
    <3> DEFINE chunks == J[b]
               P == InputDeltas(s, b)
    <3>1. Carried(chunks, s, P) /\ P \subseteq 1..Len(s) /\ IsSequence(chunks) /\ K[b] = chunks
      BY <1>3, <1>4, <1>5, <2>2 DEF InputsOf
    <3> HIDE DEF chunks, P
    <3>2. Carried(chunks, Append(s, e), P)
      BY <3>1, CarriedKept
    <3> QED
      BY <1>3, <3>1, <3>2 DEF P
  <2> QED
    BY <2>1, <2>2
<1>7. DOMAIN J = {s[i].index : i \in {j \in Starts(s) : s[j].kind = "tool_use"}}
  BY DEF InputsOf
<1>8. {j \in Starts(t) : t[j].kind = "tool_use"} = {j \in Starts(s) : s[j].kind = "tool_use"} \cup {n}
  BY <1>1, <1>2
<1>9. DOMAIN K = {t[i].index : i \in {j \in Starts(t) : t[j].kind = "tool_use"}}
  BY <1>1, <1>2, <1>5, <1>7, <1>8
<1>10. InputsOf(t, K)
  BY <1>5, <1>6, <1>9 DEF InputsOf
<1> QED
  BY <1>10 DEF K

LEMMA InputWritten ==
  ASSUME NEW s \in Seq(Event), NEW e \in Event, NEW J, InputsOf(s, J),
         IsDelta(e), ~IsStart(e), e.delta = "input_json_delta", e.index \in DOMAIN J,
         e.payload = <<e.payload[1]>>
  PROVE  InputsOf(Append(s, e), [J EXCEPT ![e.index] = Written(@, e.payload)])
<1> DEFINE t == Append(s, e)
           n == Len(s) + 1
           x == e.index
           old == J[x]
           more == old \o e.payload
           K == [J EXCEPT ![x] = Written(@, e.payload)]
<1>1. t[n] = e /\ (\A i \in 1..Len(s) : t[i] = s[i]) /\ Len(s) \in Nat
  BY AppendSeq
<1>2. Starts(s) \subseteq 1..Len(s) /\ Starts(t) = Starts(s)
  BY StartAdded
<1>3. /\ \A b : b # x => InputDeltas(t, b) = InputDeltas(s, b)
      /\ \A b : InputDeltas(s, b) \subseteq 1..Len(s)
      /\ InputDeltas(t, x) = InputDeltas(s, x) \cup {n}
  BY DeltaAdded
<1>4. \A b \in DOMAIN J : Carried(J[b], s, InputDeltas(s, b)) /\ IsSequence(J[b])
  BY DEF InputsOf
<1>5. /\ DOMAIN K = DOMAIN J /\ K = [b \in DOMAIN K |-> K[b]]
      /\ K[x] = more /\ \A b \in DOMAIN J : b # x => K[b] = J[b]
  BY DEF Written, InputsOf
<1>6. IsSequence(more) /\ Carried(more, t, InputDeltas(t, x))
  <2> DEFINE P == InputDeltas(s, x)
  <2>1. Carried(old, s, P) /\ P \subseteq 1..Len(s) /\ IsSequence(old)
    BY <1>3, <1>4
  <2> HIDE DEF old, P
  <2>2. IsSequence(old \o e.payload) /\ Carried(old \o e.payload, Append(s, e), P \cup {n})
    BY <2>1, CarriedMore
  <2> QED
    BY <1>3, <2>2 DEF P
<1> HIDE DEF K, more, old
<1>7. ASSUME NEW b \in DOMAIN K PROVE IsSequence(K[b]) /\ Carried(K[b], t, InputDeltas(t, b))
  <2>1. CASE b = x
    BY <1>5, <1>6, <2>1
  <2>2. CASE b # x
    <3> DEFINE chunks == J[b]
               P == InputDeltas(s, b)
    <3>1. Carried(chunks, s, P) /\ P \subseteq 1..Len(s) /\ IsSequence(chunks) /\ K[b] = chunks
      BY <1>3, <1>4, <1>5, <2>2
    <3> HIDE DEF chunks, P
    <3>2. Carried(chunks, Append(s, e), P)
      BY <3>1, CarriedKept
    <3> QED
      BY <1>3, <2>2, <3>1, <3>2 DEF P
  <2> QED
    BY <2>1, <2>2
<1>8. DOMAIN K = {t[i].index : i \in {j \in Starts(t) : t[j].kind = "tool_use"}}
  BY <1>1, <1>2, <1>5 DEF InputsOf
<1>9. InputsOf(t, K)
  BY <1>5, <1>7, <1>8 DEF InputsOf
<1> QED
  BY <1>9 DEF K

LEMMA BilledAfter ==
  ASSUME NEW s \in Seq(Event), NEW e \in Event, NEW u, Billed(s, u), NEW v,
         IF e.name = "message_delta" THEN v = e.usage ELSE v = u
  PROVE  Billed(Append(s, e), v)
<1> DEFINE t == Append(s, e)
           n == Len(s) + 1
<1>1. /\ t[n] = e /\ Len(t) = n /\ \A i \in 1..Len(s) : t[i] = s[i]
      /\ Len(s) \in Nat
  BY AppendSeq
<1> HIDE DEF t
<1> SUFFICES ASSUME NEW i \in 1..Len(t), t[i].name = "message_delta",
                    \A k \in (i + 1)..Len(t) : t[k].name # "message_delta"
             PROVE  v = t[i].usage
  BY DEF Billed, t
<1>2. CASE i = n
  BY <1>1, <1>2
<1>3. CASE i # n
  <2>1. i \in 1..Len(s) /\ t[i] = s[i] /\ n \in (i + 1)..Len(t)
    BY <1>1, <1>3
  <2>2. e.name # "message_delta"
    BY <1>1, <2>1
  <2>3. \A k \in (i + 1)..Len(s) : s[k].name # "message_delta"
    BY <1>1
  <2> QED
    BY <2>1, <2>2, <2>3 DEF Billed
<1> QED
  BY <1>2, <1>3

\* Every block has one kind.
LEMMA KindOfBlock ==
  ASSUME NEW s \in Seq(Event), Numbered(s), NEW i \in Starts(s), NEW j \in Starts(s),
         s[i].index = s[j].index
  PROVE  i = j
<1>1. i \in 1..Len(s) /\ j \in 1..Len(s) /\ IsStart(s[i]) /\ IsStart(s[j])
  BY DEF Starts
<1>2. s[i] \in Event /\ s[j] \in Event
  BY <1>1
<1>3. s[i].index \in Nat /\ s[j].index \in Nat
  BY <1>1, <1>2, StartType
<1>4. ~(i < j)
  <2> SUFFICES ASSUME i < j PROVE FALSE
    OBVIOUS
  <2>1. i \in 1..(j - 1)
    BY <1>1
  <2> QED
    BY <1>1, <1>3, <2>1 DEF Numbered, FollowsPrevious
<1>5. ~(j < i)
  <2> SUFFICES ASSUME j < i PROVE FALSE
    OBVIOUS
  <2>1. j \in 1..(i - 1)
    BY <1>1
  <2> QED
    BY <1>1, <1>3, <2>1 DEF Numbered, FollowsPrevious
<1> QED
  BY <1>1, <1>4, <1>5

\* A well-formed stream is aggregated event by event.
LEMMA EventAggregated ==
  ASSUME NEW s \in Seq(Event), NEW e \in Event, NEW a, Aggregated(s, a),
         Disciplined(Append(s, e)), Numbered(Append(s, e)),
         IsDelta(e) /\ e.delta # "signature_delta" => e.payload = <<e.payload[1]>>
  PROVE  Aggregated(Append(s, e), AggregateFeed(a, e))
<1> DEFINE t == Append(s, e)
           C == a.content
           J == a.inputJSON
           m == Len(C)
           d == AggregateFeed(a, e)
<1>1. /\ a = [content |-> C, inputJSON |-> J, stop_reason |-> a.stop_reason, usage |-> a.usage]
      /\ BlocksOf(s, C) /\ InputsOf(s, J) /\ Billed(s, a.usage)
  BY DEF Aggregated
<1>2. m \in Nat /\ IsSequence(C) /\ \A p \in 1..m : IsBlock(C[p])
  BY <1>1, SequenceLen DEF BlocksOf
<1>3. CASE IsStart(e)
  <2>1. d = AggregateStart(a, e) /\ e.name # "message_delta" /\ ~IsDelta(e)
    BY <1>3 DEF AggregateFeed, IsStart, IsDelta
  <2> DEFINE D == Append(C, EmptyBlock(e.kind))
             K == IF e.kind = "tool_use" THEN WithInput(J, e.index, <<>>) ELSE J
  <2>2. d = [content |-> D, inputJSON |-> K, stop_reason |-> a.stop_reason, usage |-> a.usage]
    BY <1>1, <2>1 DEF AggregateStart
  <2>3. BlocksOf(t, D) /\ e.index = m
    BY <1>1, <1>3, BlockStarted
  <2>4. Billed(t, a.usage)
    BY <1>1, <2>1, BilledAfter
  <2>5. InputsOf(t, K)
    <3>1. CASE e.kind # "tool_use"
      BY <1>1, <2>1, <3>1, InputsKept
    <3>2. CASE e.kind = "tool_use"
      <4>1. InputDeltas(s, m) = {}
        BY <1>1, <1>2 DEF BlocksOf, InputDeltas
      <4>2. m \notin DOMAIN J
        BY <1>1, <1>2 DEF BlocksOf, Blocks, InputsOf
      <4>3. InputsOf(Append(s, e), WithInput(J, e.index, <<>>))
        BY <1>1, <1>3, <2>1, <2>3, <3>2, <4>1, <4>2, InputStarted
      <4> QED
        BY <3>2, <4>3
    <3> QED
      BY <3>1, <3>2
  <2> HIDE DEF D, K, d
  <2> QED
    BY <2>2, <2>3, <2>4, <2>5 DEF Aggregated, d
<1>4. CASE IsDelta(e)
  <2>1. d = AggregateDelta(a, e) /\ e.name # "message_delta" /\ ~IsStart(e)
    BY <1>4 DEF AggregateFeed, IsStart, IsDelta
  <2>2. /\ m > 0 /\ e.index = m - 1 /\ m \in 1..m
        /\ \E j \in Starts(s) : s[j].index = m - 1 /\ e.delta \in DeltasOf(s[j].kind)
    BY <1>1, <1>2, <1>4, NumberOfDelta DEF BlocksOf
  <2>3. Billed(t, a.usage)
    BY <1>1, <2>1, BilledAfter
  <2>4. CASE e.delta \in {"text_delta", "thinking_delta"}
    <3> DEFINE D == [C EXCEPT ![m].text = Written(@, e.payload)]
    <3>1. d = [content |-> D, inputJSON |-> J, stop_reason |-> a.stop_reason, usage |-> a.usage]
      <4>1. d = [a EXCEPT !.content[m].text = Written(@, e.payload)]
        BY <2>1, <2>2, <2>4 DEF AggregateDelta
      <4>2. [a EXCEPT !.content[m].text = Written(@, e.payload)] = [a EXCEPT !.content = D]
        OBVIOUS
      <4> HIDE DEF D, d
      <4> QED
        BY <1>1, <4>1, <4>2
    <3>2. BlocksOf(t, D)
      BY <1>1, <1>4, <2>1, <2>2, <2>4, BlockWritten
    <3>3. InputsOf(t, J)
      BY <1>1, <2>1, <2>4, InputsKept
    <3> HIDE DEF D, d
    <3> QED
      BY <2>3, <3>1, <3>2, <3>3 DEF Aggregated, d
  <2>5. CASE e.delta = "signature_delta"
    <3> DEFINE D == [C EXCEPT ![m].signature = e.payload]
    <3>1. d = [content |-> D, inputJSON |-> J, stop_reason |-> a.stop_reason, usage |-> a.usage]
      <4>1. d = [a EXCEPT !.content[m].signature = e.payload]
        BY <2>1, <2>2, <2>5 DEF AggregateDelta
      <4>2. [a EXCEPT !.content[m].signature = e.payload] = [a EXCEPT !.content = D]
        OBVIOUS
      <4> HIDE DEF D, d
      <4> QED
        BY <1>1, <4>1, <4>2
    <3>2. /\ DOMAIN D = 1..m /\ D = [p \in DOMAIN D |-> D[p]]
          /\ \A p \in 1..m : IsBlock(D[p]) /\ D[p].type = C[p].type /\ D[p].text = C[p].text
      <4>1. DOMAIN C = 1..m /\ C = [p \in 1..m |-> C[p]]
        BY <1>2 DEF IsSequence
      <4>2. D = [p \in 1..m |-> IF p = m THEN [C[m] EXCEPT !.signature = e.payload] ELSE C[p]]
        BY <2>2, <4>1
      <4>3. \A p \in 1..m : D[p] = IF p = m THEN [C[m] EXCEPT !.signature = e.payload] ELSE C[p]
        BY <4>2
      <4> HIDE DEF D
      <4>4. \A p \in 1..m : IsBlock(D[p]) /\ D[p].type = C[p].type /\ D[p].text = C[p].text
        BY <1>2, <4>3 DEF IsBlock
      <4>5. DOMAIN D = 1..m /\ D = [p \in DOMAIN D |-> D[p]]
        BY <4>2
      <4> QED
        BY <4>4, <4>5
    <3> HIDE DEF D, d
    <3>3. IsSequence(D) /\ Len(D) = m
      BY <1>2, <3>2, TableIsSequence
    <3>4. BlocksOf(t, D)
      <4>1. e.index \in 0..(Len(C) - 1) /\ e.delta \notin {"text_delta", "thinking_delta"}
        BY <1>2, <2>2, <2>5
      <4>2. BlocksOf(s, C) /\ Len(D) = Len(C) /\ IsSequence(D) /\ ~IsStart(e)
        BY <1>1, <2>1, <3>3
      <4> HIDE DEF C
      <4> QED
        BY <3>2, <4>1, <4>2, BlocksKept
    <3>5. InputsOf(t, J)
      BY <1>1, <2>1, <2>5, InputsKept
    <3> QED
      BY <2>3, <3>1, <3>4, <3>5 DEF Aggregated, d
  <2>6. CASE e.delta = "input_json_delta"
    <3>1. e.index \in DOMAIN J
      <4>1. PICK j \in Starts(s) : s[j].index = m - 1 /\ e.delta \in DeltasOf(s[j].kind)
        BY <2>2
      <4>2. s[j].kind \in Kinds
        <5>1. j \in 1..Len(s) /\ IsStart(s[j])
          BY DEF Starts
        <5>2. s[j] \in Event
          BY <5>1
        <5> QED
          BY <5>1, <5>2, StartType
      <4>3. s[j].kind = "tool_use"
        BY <2>6, <4>1, <4>2 DEF DeltasOf, Kinds
      <4> QED
        BY <1>1, <2>2, <4>1, <4>3 DEF InputsOf
    <3> DEFINE K == [J EXCEPT ![e.index] = Written(@, e.payload)]
    <3>2. d = [content |-> C, inputJSON |-> K, stop_reason |-> a.stop_reason, usage |-> a.usage]
      BY <1>1, <2>1, <2>2, <2>6, <3>1 DEF AggregateDelta
    <3>3. BlocksOf(t, C)
      BY <1>1, <1>2, <2>1, <2>2, <2>6, BlocksKept
    <3>4. InputsOf(t, K)
      BY <1>1, <1>4, <2>1, <2>6, <3>1, InputWritten
    <3> HIDE DEF K, d
    <3> QED
      BY <2>3, <3>2, <3>3, <3>4 DEF Aggregated, d
  <2>7. e.delta \in {"text_delta", "thinking_delta", "signature_delta", "input_json_delta"}
    BY <1>4 DEF Event, IsDelta
  <2> QED
    BY <2>4, <2>5, <2>6, <2>7
<1>5. CASE ~IsStart(e) /\ ~IsDelta(e)
  <2> DEFINE u == IF e.name = "message_delta" THEN e.usage ELSE a.usage
             r == IF e.name = "message_delta" THEN e.stop_reason ELSE a.stop_reason
  <2>1. d = [content |-> C, inputJSON |-> J, stop_reason |-> r, usage |-> u]
    BY <1>1, <1>5 DEF AggregateFeed, IsStart, IsDelta
  <2>2. Billed(t, u)
    BY <1>1, BilledAfter
  <2>3. BlocksOf(t, C)
    BY <1>1, <1>2, <1>5, BlocksKept
  <2>4. InputsOf(t, J)
    BY <1>1, <1>5, InputsKept
  <2> HIDE DEF u, r, d
  <2> QED
    BY <2>1, <2>2, <2>3, <2>4 DEF Aggregated, d
<1> QED
  BY <1>3, <1>4, <1>5

LEMMA NewAggregated ==
  Aggregated(<<MessageStart>>, AggregateFeed(NewAggregator, MessageStart))
<1> DEFINE s == <<MessageStart>>
           a == AggregateFeed(NewAggregator, MessageStart)
<1>1. s \in Seq(Event) /\ Len(s) = 1 /\ s[1] = MessageStart
  BY EventTypes, SingletonSeq
<1>2. a = NewAggregator
  BY DEF AggregateFeed, MessageStart
<1>3. /\ ~IsStart(s[1]) /\ ~IsDelta(s[1]) /\ s[1].name # "message_delta"
  BY <1>1 DEF IsStart, IsDelta, MessageStart
<1> HIDE DEF s
<1>4. Starts(s) = {}
  BY <1>1, <1>3 DEF Starts
<1>5. Cardinality({}) = 0
  BY FS_EmptySet
<1>6. BlocksOf(s, <<>>)
  BY <1>1, <1>3, <1>4, <1>5, ShortSequences DEF BlocksOf, Blocks
<1>7. InputsOf(s, <<>>)
  <2>1. DOMAIN <<>> = {} /\ <<>> = [b \in {} |-> <<>>[b]]
    OBVIOUS
  <2> QED
    BY <1>4, <2>1 DEF InputsOf
<1>8. Billed(s, NoTokens)
  BY <1>1, <1>3 DEF Billed
<1> QED
  BY <1>2, <1>6, <1>7, <1>8 DEF Aggregated, NewAggregator, s

---------------------------------------------------------------------------
(* The fragments put together. *)

Joins(f, fs, i) ==
  /\ f[0] = <<>>
  /\ \A n \in 1..Len(fs) :
       f[n] = IF fs[n].frame = "arguments" /\ fs[n].index = i
              THEN f[n - 1] \o fs[n].fragment ELSE f[n - 1]

LEMMA JoinedIs ==
  ASSUME NEW fs, IsSequence(fs), NEW i
  PROVE  \E f : Joins(f, fs, i) /\ Joined(fs, i) = f[Len(fs)]
<1> DEFINE Step(p, n) == IF fs[n].frame = "arguments" /\ fs[n].index = i
                         THEN p \o fs[n].fragment ELSE p
           F(f, m) == f = [n \in 0..m |-> IF n = 0 THEN <<>> ELSE Step(f[n - 1], n)]
           S == {m \in Nat : \E f : F(f, m)}
<1>1. 0 \in S
  <2> DEFINE f == [n \in 0..0 |-> <<>>]
  <2>1. F(f, 0)
    OBVIOUS
  <2> QED
    BY <2>1
<1>2. ASSUME NEW m \in Nat, m \in S PROVE m + 1 \in S
  <2> HIDE DEF Step
  <2>1. PICK f : F(f, m)
    BY <1>2
  <2> DEFINE g == [n \in 0..(m + 1) |-> IF n = m + 1 THEN Step(f[m], m + 1) ELSE f[n]]
  <2>2. \A n \in 0..m : f[n] = IF n = 0 THEN <<>> ELSE Step(f[n - 1], n)
    BY <2>1
  <2>3. \A n \in 0..(m + 1) : g[n] = IF n = 0 THEN <<>> ELSE Step(g[n - 1], n)
    BY <2>2
  <2>4. g = [n \in 0..(m + 1) |-> g[n]]
    OBVIOUS
  <2> HIDE DEF g
  <2>5. F(g, m + 1)
    BY <2>3, <2>4
  <2> QED
    BY <2>5
<1> HIDE DEF S
<1>3. Len(fs) \in S
  <2>1. Len(fs) \in Nat
    BY SequenceLen
  <2> QED
    BY <1>1, <1>2, <2>1, Induction
<1> DEFINE f == CHOOSE f : F(f, Len(fs))
<1>4. F(f, Len(fs))
  BY <1>3 DEF S
<1>5. Joined(fs, i) = f[Len(fs)]
  <2>1. f = CHOOSE g : g = [n \in 0..Len(fs) |->
              IF n = 0 THEN <<>>
              ELSE IF fs[n].frame = "arguments" /\ fs[n].index = i
              THEN g[n - 1] \o fs[n].fragment ELSE g[n - 1]]
    OBVIOUS
  <2> HIDE DEF f
  <2> QED
    BY <2>1 DEF Joined
<1> HIDE DEF f, Step
<1>6. /\ f[0] = <<>>
      /\ \A n \in 1..Len(fs) : f[n] = Step(f[n - 1], n)
  BY <1>4, <1>3, SequenceLen
<1>7. Joins(f, fs, i)
  BY <1>6 DEF Joins, Step
<1> QED
  BY <1>5, <1>7

LEMMA JoinedNothing == \A i : Joined(<<>>, i) = <<>>
<1> TAKE i
<1>1. IsSequence(<<>>) /\ Len(<<>>) = 0
  BY ShortSequences
<1>2. PICK f : Joins(f, <<>>, i) /\ Joined(<<>>, i) = f[Len(<<>>)]
  BY <1>1, JoinedIs
<1> QED
  BY <1>1, <1>2 DEF Joins

\* What was joined before stays.
LEMMA JoinedBefore ==
  ASSUME NEW fs, NEW g, IsSequence(fs), IsSequence(g), NEW i
  PROVE  \E f : /\ Joins(f, fs \o g, i) /\ Joined(fs \o g, i) = f[Len(fs) + Len(g)]
                /\ f[Len(fs)] = Joined(fs, i)
<1> DEFINE all == fs \o g
<1>1. /\ IsSequence(all) /\ Len(all) = Len(fs) + Len(g)
      /\ \A k \in 1..Len(fs) : all[k] = fs[k]
      /\ Len(fs) \in Nat /\ Len(g) \in Nat
  BY Concatenation, SequenceLen
<1> HIDE DEF all
<1>2. PICK f : Joins(f, all, i) /\ Joined(all, i) = f[Len(all)]
  BY <1>1, JoinedIs
<1>3. PICK h : Joins(h, fs, i) /\ Joined(fs, i) = h[Len(fs)]
  BY JoinedIs
<1> DEFINE S == {n \in Nat : n <= Len(fs) => f[n] = h[n]}
<1>4. 0 \in S
  BY <1>2, <1>3 DEF Joins
<1>5. ASSUME NEW n \in Nat, n \in S PROVE n + 1 \in S
  <2> SUFFICES ASSUME n + 1 <= Len(fs) PROVE f[n + 1] = h[n + 1]
    OBVIOUS
  <2>1. f[n] = h[n] /\ n + 1 \in 1..Len(fs) /\ n + 1 \in 1..Len(all) /\ (n + 1) - 1 = n
    BY <1>1, <1>5
  <2>2. all[n + 1] = fs[n + 1]
    BY <1>1, <2>1
  <2> QED
    BY <1>2, <1>3, <2>1, <2>2 DEF Joins
<1> HIDE DEF S
<1>6. Len(fs) \in S
  BY <1>1, <1>4, <1>5, Induction
<1> QED
  BY <1>1, <1>2, <1>3, <1>6 DEF S, all

\* Frames that are no fragments of tool i add nothing to its input.
LEMMA JoinedApart ==
  ASSUME NEW fs, NEW g, IsSequence(fs), IsSequence(g), NEW i,
         \A k \in 1..Len(g) : ~(g[k].frame = "arguments" /\ g[k].index = i)
  PROVE  Joined(fs \o g, i) = Joined(fs, i)
<1> DEFINE all == fs \o g
           m == Len(fs)
<1>1. /\ IsSequence(all) /\ Len(all) = m + Len(g)
      /\ \A k \in 1..Len(g) : all[m + k] = g[k]
      /\ m \in Nat /\ Len(g) \in Nat
  BY Concatenation, SequenceLen
<1>2. PICK f : Joins(f, all, i) /\ Joined(all, i) = f[m + Len(g)] /\ f[m] = Joined(fs, i)
  BY JoinedBefore
<1> HIDE DEF all, m
<1> DEFINE S == {n \in Nat : n <= Len(g) => f[m + n] = f[m]}
<1>3. 0 \in S
  BY <1>1
<1>4. ASSUME NEW n \in Nat, n \in S PROVE n + 1 \in S
  <2> SUFFICES ASSUME n + 1 <= Len(g) PROVE f[m + (n + 1)] = f[m]
    OBVIOUS
  <2>1. f[m + n] = f[m] /\ n + 1 \in 1..Len(g)
    BY <1>1, <1>4
  <2>2. m + (n + 1) \in 1..Len(all) /\ (m + (n + 1)) - 1 = m + n /\ all[m + (n + 1)] = g[n + 1]
    BY <1>1, <2>1
  <2> QED
    BY <1>2, <2>1, <2>2 DEF Joins
<1> HIDE DEF S
<1>5. Len(g) \in S
  BY <1>1, <1>3, <1>4, Induction
<1> QED
  BY <1>1, <1>2, <1>5 DEF S, all

\* The fragments of a text, put together, are the text.
LEMMA FragmentsJoined ==
  ASSUME NEW fs, IsSequence(fs), NEW r, IsSequence(r), NEW size \in Nat \ {0}, NEW i,
         NEW g, IsSequence(g), Len(g) = Len(ChatSplitRunes(r, size)),
         \A k \in 1..Len(g) : g[k] = ArgsFrame(i, ChatSplitRunes(r, size)[k]),
         IsSequence(Joined(fs, i))
  PROVE  Joined(fs \o g, i) = Joined(fs, i) \o r
<1> DEFINE all == fs \o g
           m == Len(fs)
           len == Len(r)
           n == (len + size - 1) \div size
           J == Joined(fs, i)
           end(k) == IF k * size > len THEN len ELSE k * size
<1>1. /\ IsSequence(all) /\ Len(all) = m + Len(g)
      /\ \A k \in 1..Len(g) : all[m + k] = g[k]
      /\ m \in Nat /\ Len(g) \in Nat /\ len \in Nat
  BY Concatenation, SequenceLen
<1>2. /\ n \in Nat /\ n * size >= len
      /\ \A k \in 1..n : (k - 1) * size < len
  BY <1>1, FragmentCount
<1>3. /\ Len(g) = n
      /\ \A k \in 1..n : g[k] = ArgsFrame(i, SubSeq(r, (k - 1) * size + 1, end(k)))
  <2> DEFINE f == ChatSplitRunes(r, size)
  <2>1. /\ DOMAIN f = 1..n /\ f = [k \in DOMAIN f |-> f[k]]
        /\ \A k \in 1..n : f[k] = SubSeq(r, (k - 1) * size + 1, end(k))
    BY DEF ChatSplitRunes
  <2> HIDE DEF f, n, end
  <2>2. Len(f) = n
    BY <1>2, <2>1, TableIsSequence
  <2> QED
    BY <2>1, <2>2 DEF f
<1>4. PICK f : Joins(f, all, i) /\ Joined(all, i) = f[m + Len(g)] /\ f[m] = J
  BY JoinedBefore
<1> DEFINE S == {k \in Nat : k <= n => f[m + k] = J \o SubSeq(r, 1, end(k))}
<1> HIDE DEF all, m, J, n
<1>5. 0 \in S
  <2>1. end(0) = 0 /\ m + 0 = m
    BY <1>1
  <2>2. SubSeq(r, 1, 0) = <<>>
    OBVIOUS
  <2>3. J \o <<>> = J
    BY EmptyConcatenation DEF J
  <2> HIDE DEF end
  <2> QED
    BY <1>4, <2>1, <2>2, <2>3
<1>6. ASSUME NEW k \in Nat, k \in S PROVE k + 1 \in S
  <2> SUFFICES ASSUME k + 1 <= n PROVE f[m + (k + 1)] = J \o SubSeq(r, 1, end(k + 1))
    OBVIOUS
  <2> DEFINE p == end(k)
             q == end(k + 1)
             before == SubSeq(r, 1, p)
             piece == SubSeq(r, p + 1, q)
  <2>1. k + 1 \in 1..n /\ (k + 1) - 1 = k /\ k <= n
    BY <1>2
  <2>2. k * size < len
    BY <1>2, <2>1
  <2>3. k * size \in Nat /\ (k + 1) * size = k * size + size
    OBVIOUS
  <2>4. p = k * size /\ p \in Nat /\ q \in Nat /\ p <= q /\ q <= len
    BY <1>1, <2>2, <2>3
  <2>5. g[k + 1] = ArgsFrame(i, piece)
    BY <1>3, <2>1, <2>4
  <2>6. f[m + k] = J \o before
    BY <1>6, <2>1
  <2> HIDE DEF p, q
  <2>7. before \o piece = SubSeq(r, 1, q)
    BY <2>4, Pieces
  <2>8. IsSequence(before) /\ IsSequence(piece) /\ IsSequence(J)
    BY <2>4, SubSequence DEF J
  <2> HIDE DEF before, piece, S, end
  <2>9. all[m + (k + 1)] = ArgsFrame(i, piece)
    BY <1>1, <1>3, <2>1, <2>5
  <2>10. m + (k + 1) \in 1..Len(all) /\ (m + (k + 1)) - 1 = m + k
    BY <1>1, <1>3, <2>1
  <2>11. f[m + (k + 1)] = f[m + k] \o piece
    <3> DEFINE x == m + (k + 1)
               y == ArgsFrame(i, piece)
    <3>1. y.frame = "arguments" /\ y.index = i /\ y.fragment = piece
      BY DEF ArgsFrame
    <3>2. x \in 1..Len(all) /\ x - 1 = m + k /\ all[x] = y
      BY <2>9, <2>10
    <3> HIDE DEF x, y
    <3>3. f[x] = f[x - 1] \o piece
      BY <1>4, <3>1, <3>2 DEF Joins
    <3> QED
      BY <3>2, <3>3 DEF x
  <2>12. (J \o before) \o piece = J \o (before \o piece)
    BY ONLY <2>8, ConcatenationAssociates
  <2> QED
    <3> DEFINE w == SubSeq(r, 1, q)
               old == f[m + k]
               after == f[m + (k + 1)]
    <3>1. before \o piece = w /\ old = J \o before /\ after = old \o piece
      BY <2>6, <2>7, <2>11
    <3> HIDE DEF w, old, after
    <3>2. after = J \o w
      BY <2>12, <3>1
    <3> QED
      BY <3>2 DEF w, after, q
<1>7. n \in S
  <2> HIDE DEF S
  <2> QED
    BY <1>2, <1>5, <1>6, Induction
<1>8. f[m + n] = J \o SubSeq(r, 1, end(n))
  BY <1>2, <1>7
<1>9. end(n) = len
  <2>1. n * size \in Int
    BY <1>2
  <2> QED
    BY <1>1, <1>2, <2>1
<1>10. SubSeq(r, 1, len) = r
  BY DEF IsSequence
<1> HIDE DEF end
<1> QED
  BY <1>3, <1>4, <1>8, <1>9, <1>10 DEF all, J

---------------------------------------------------------------------------
(* Frames added to the frames before. *)

LEMMA PositionsApart ==
  ASSUME NEW fs, NEW g, IsSequence(fs), IsSequence(g), NEW kind,
         \A k \in 1..Len(g) : g[k].frame # kind
  PROVE  /\ Positions(fs \o g, kind) = Positions(fs, kind)
         /\ Positions(fs, kind) \subseteq 1..Len(fs)
         /\ \A i \in Positions(fs, kind) : (fs \o g)[i] = fs[i]
<1> DEFINE all == fs \o g
           m == Len(fs)
<1>1. /\ Len(all) = m + Len(g)
      /\ \A i \in 1..m : all[i] = fs[i]
      /\ \A i \in 1..Len(g) : all[m + i] = g[i]
      /\ m \in Nat /\ Len(g) \in Nat
  BY Concatenation, SequenceLen
<1> HIDE DEF all
<1>2. ASSUME NEW i \in 1..Len(all), i > m PROVE all[i].frame # kind
  <2>1. i - m \in 1..Len(g) /\ m + (i - m) = i
    BY <1>1, <1>2
  <2>2. all[m + (i - m)] = g[i - m]
    BY <1>1, <2>1
  <2> QED
    BY <2>1, <2>2
<1>3. Positions(all, kind) = Positions(fs, kind) /\ Positions(fs, kind) \subseteq 1..m
  BY <1>1, <1>2 DEF Positions
<1> QED
  BY <1>1, <1>3 DEF all

LEMMA PositionsOne ==
  ASSUME NEW fs, IsSequence(fs), NEW f
  PROVE  /\ Positions(fs \o <<f>>, f.frame) = Positions(fs, f.frame) \cup {Len(fs) + 1}
         /\ Positions(fs, f.frame) \subseteq 1..Len(fs)
         /\ (fs \o <<f>>)[Len(fs) + 1] = f
         /\ \A i \in Positions(fs, f.frame) : (fs \o <<f>>)[i] = fs[i]
<1> DEFINE all == fs \o <<f>>
           m == Len(fs)
<1>1. /\ Len(all) = m + 1 /\ all[m + 1] = f
      /\ \A i \in 1..m : all[i] = fs[i]
      /\ m \in Nat
  BY OneAdded, SequenceLen
<1> HIDE DEF all
<1>2. 1..Len(all) = 1..m \cup {m + 1}
  BY <1>1
<1>3. /\ Positions(all, f.frame) = Positions(fs, f.frame) \cup {m + 1}
      /\ Positions(fs, f.frame) \subseteq 1..m
  BY <1>1, <1>2 DEF Positions
<1> QED
  BY <1>1, <1>3 DEF all

LEMMA TextsApart ==
  ASSUME NEW fs, NEW g, IsSequence(fs), IsSequence(g), NEW kind,
         \A k \in 1..Len(g) : g[k].frame # kind, NEW texts, SameTexts(fs, kind, texts)
  PROVE  SameTexts(fs \o g, kind, texts)
<1> DEFINE all == fs \o g
<1>1. /\ Positions(all, kind) = Positions(fs, kind)
      /\ \A i \in Positions(fs, kind) : all[i] = fs[i]
  BY PositionsApart
<1> HIDE DEF all
<1>2. SameTexts(all, kind, texts)
  BY <1>1 DEF SameTexts
<1> QED
  BY <1>2 DEF all

LEMMA TextsMore ==
  ASSUME NEW fs, IsSequence(fs), NEW f, NEW texts, IsSequence(texts), SameTexts(fs, f.frame, texts)
  PROVE  SameTexts(fs \o <<f>>, f.frame, texts \o <<f.text>>) /\ IsSequence(texts \o <<f.text>>)
<1> DEFINE all == fs \o <<f>>
           n == Len(fs) + 1
           P == Positions(fs, f.frame)
           Q == P \cup {n}
           x == f.text
           more == texts \o <<x>>
<1>1. /\ Positions(all, f.frame) = Q /\ P \subseteq 1..Len(fs) /\ all[n] = f
      /\ \A i \in P : all[i] = fs[i]
  BY PositionsOne
<1>2. Len(fs) \in Nat
  BY SequenceLen
<1>3. /\ Cardinality(Q) = Cardinality(P) + 1
      /\ Place(Q, n) = Cardinality(P) + 1
      /\ \A i \in P : Place(Q, i) = Place(P, i)
  BY <1>1, <1>2, PositionAdded
<1>4. Len(texts) = Cardinality(P) /\ \A i \in P : fs[i].text = texts[Place(P, i)]
  BY DEF SameTexts
<1>5. \A i \in P : Place(P, i) \in 1..Len(texts)
  <2> TAKE i \in P
  <2> QED
    BY <1>1, <1>2, <1>4, PlaceIn
<1>6. /\ IsSequence(more) /\ Len(more) = Len(texts) + 1
      /\ \A i \in 1..Len(texts) : more[i] = texts[i]
      /\ more[Len(texts) + 1] = x
  BY OneAdded
<1> HIDE DEF all, more, P, Q
<1>7. ASSUME NEW i \in Q PROVE all[i].text = more[Place(Q, i)]
  <2>1. CASE i = n
    BY <1>1, <1>3, <1>4, <1>6, <2>1
  <2>2. CASE i # n
    <3>1. i \in P
      BY <2>2 DEF Q
    <3>2. Place(Q, i) = Place(P, i) /\ more[Place(P, i)] = texts[Place(P, i)] /\ all[i] = fs[i]
      BY <1>1, <1>3, <1>5, <1>6, <3>1
    <3> QED
      BY <1>4, <3>1, <3>2
  <2> QED
    BY <2>1, <2>2
<1>8. SameTexts(all, f.frame, more)
  BY <1>1, <1>3, <1>4, <1>6, <1>7 DEF SameTexts
<1> QED
  BY <1>6, <1>8 DEF all, more

\* Frames among which no tool is announced, and the fragments are the latest
\* tool's.
LEMMA ToolsApart ==
  ASSUME NEW fs, NEW g, IsSequence(fs), IsSequence(g), ToolsAnnounced(fs),
         \A k \in 1..Len(g) :
           /\ g[k].frame # "tool"
           /\ g[k].frame = "arguments" => g[k].index = Cardinality(Positions(fs, "tool")) - 1
  PROVE  ToolsAnnounced(fs \o g) /\ Positions(fs \o g, "tool") = Positions(fs, "tool")
<1> DEFINE all == fs \o g
           m == Len(fs)
           tools == Positions(fs, "tool")
<1>1. /\ Positions(all, "tool") = tools /\ tools \subseteq 1..m
      /\ \A i \in tools : all[i] = fs[i]
  BY PositionsApart
<1>2. /\ Len(all) = m + Len(g)
      /\ \A i \in 1..m : all[i] = fs[i]
      /\ \A i \in 1..Len(g) : all[m + i] = g[i]
      /\ m \in Nat /\ Len(g) \in Nat
  BY Concatenation, SequenceLen
<1>3. Cardinality(tools) \in Nat
  BY <1>1, <1>2, PositionsFinite
<1> HIDE DEF all, tools
<1>4. ASSUME NEW i \in Positions(all, "arguments")
      PROVE  Cardinality({j \in tools : j < i}) = all[i].index + 1
  <2>0. i \in 1..Len(all) /\ all[i].frame = "arguments"
    BY DEF Positions
  <2>1. CASE i <= m
    <3>1. i \in Positions(fs, "arguments") /\ all[i] = fs[i]
      BY <1>2, <2>0, <2>1 DEF Positions
    <3> QED
      BY <3>1 DEF ToolsAnnounced, tools
  <2>2. CASE i > m
    <3>1. i - m \in 1..Len(g) /\ m + (i - m) = i
      BY <1>2, <2>0, <2>2
    <3>2. all[m + (i - m)] = g[i - m]
      BY <1>2, <3>1
    <3>3. all[i].index = Cardinality(tools) - 1
      BY <2>0, <3>1, <3>2 DEF tools
    <3>4. \A j \in tools : j < i
      BY <1>1, <1>2, <2>0, <2>2
    <3> DEFINE before == {j \in tools : j < i}
    <3>5. before = tools
      BY <3>4
    <3> HIDE DEF before
    <3>6. Cardinality(before) = all[i].index + 1
      BY <1>3, <3>3, <3>5
    <3> QED
      BY <3>6 DEF before
  <2> QED
    BY <1>2, <2>0, <2>1, <2>2
<1>5. \A i \in tools : all[i].index = Place(tools, i) - 1
  BY <1>1 DEF ToolsAnnounced, tools
<1>6. ToolsAnnounced(all)
  BY <1>1, <1>4, <1>5 DEF ToolsAnnounced
<1> QED
  BY <1>1, <1>6 DEF all, tools

\* The next tool.
LEMMA ToolsMore ==
  ASSUME NEW fs, IsSequence(fs), ToolsAnnounced(fs)
  PROVE  LET n   == Cardinality(Positions(fs, "tool"))
             all == fs \o <<ToolFrame(n)>>
         IN /\ n \in Nat /\ ToolsAnnounced(all)
            /\ Cardinality(Positions(all, "tool")) = n + 1
<1> DEFINE tools == Positions(fs, "tool")
           n == Cardinality(tools)
           f == ToolFrame(n)
           all == fs \o <<f>>
           m == Len(fs)
           Q == tools \cup {m + 1}
<1>0. f.frame = "tool" /\ f.index = n
  BY DEF ToolFrame
<1> HIDE DEF f
<1>1. /\ Positions(all, "tool") = Q
      /\ tools \subseteq 1..m /\ all[m + 1] = f
      /\ \A i \in tools : all[i] = fs[i]
  BY <1>0, PositionsOne
<1>2. /\ Len(all) = m + 1 /\ all[m + 1] = f
      /\ \A i \in 1..m : all[i] = fs[i]
      /\ m \in Nat
  BY OneAdded, SequenceLen
<1>3. /\ Cardinality(Q) = n + 1
      /\ Place(Q, m + 1) = n + 1
      /\ \A i \in tools : Place(Q, i) = Place(tools, i)
  BY <1>1, <1>2, PositionAdded
<1>4. n \in Nat
  BY <1>1, <1>2, PositionsFinite
<1> HIDE DEF all, tools, n
<1>5. ASSUME NEW i \in Q PROVE all[i].index = Place(Q, i) - 1
  <2>1. CASE i = m + 1
    BY <1>0, <1>1, <1>3, <1>4, <2>1
  <2>2. CASE i # m + 1
    BY <1>1, <1>3, <2>2 DEF ToolsAnnounced, tools
  <2> QED
    BY <2>1, <2>2
<1>6. ASSUME NEW i \in Positions(all, "arguments")
      PROVE  Cardinality({j \in Q : j < i}) = all[i].index + 1
  <2>1. i \in 1..m /\ all[i] = fs[i] /\ i \in Positions(fs, "arguments")
    BY <1>0, <1>2 DEF Positions
  <2>2. {j \in Q : j < i} = {j \in tools : j < i}
    BY <1>2, <2>1
  <2> QED
    BY <2>1, <2>2 DEF ToolsAnnounced, tools
<1>7. ToolsAnnounced(all)
  BY <1>1, <1>5, <1>6 DEF ToolsAnnounced
<1> QED
  BY <1>1, <1>3, <1>4, <1>7 DEF all, tools, n, f

\* Fragments are of tools that were announced.
LEMMA FragmentsAnnounced ==
  ASSUME NEW fs, IsSequence(fs), ToolsAnnounced(fs), NEW i \in Positions(fs, "arguments"),
         fs[i].index \in Int
  PROVE  fs[i].index < Cardinality(Positions(fs, "tool"))
<1> DEFINE tools == Positions(fs, "tool")
           before == {j \in tools : j < i}
<1>1. tools \subseteq 1..Len(fs) /\ Len(fs) \in Nat /\ i \in 1..Len(fs)
  BY SequenceLen DEF Positions
<1>2. before \subseteq tools /\ IsFiniteSet(tools) /\ Cardinality(tools) \in Nat
  BY <1>1, PositionsFinite
<1>3. Cardinality(before) <= Cardinality(tools) /\ Cardinality(before) \in Nat
  BY <1>2, FS_Subset, FS_CardinalityType
<1>4. Cardinality(before) = fs[i].index + 1
  BY DEF ToolsAnnounced
<1> HIDE DEF before, tools
<1> QED
  BY <1>2, <1>3, <1>4 DEF tools

---------------------------------------------------------------------------
(* The encoder and the chat aggregator on one stream. *)

EndKinds == {"finish", "usage", "done", "error"}

\* The first n frames tell nothing of the end.
Unended(fs, n) == \A i \in 1..n : fs[i].frame \notin EndKinds

\* The role is declared in the first frame.
RoleFirst(fs) ==
  /\ fs # <<>> => fs[1].frame = "role"
  /\ \A i \in 2..Len(fs) : fs[i].frame # "role"

StartedIff(c, fs) == c.started <=> fs # <<>>

\* The frames fs are those encoder c has returned: how they end.
Ordered(c, fs) ==
  /\ StartedIff(c, fs)
  /\ RoleFirst(fs)
  /\ ~Silenced(c) => Unended(fs, Len(fs))
  /\ c.hasError => /\ ~c.finished /\ Unended(fs, Len(fs) - 1)
                   /\ fs # <<>> => fs[Len(fs)].frame = "error"
  /\ c.finished => /\ Len(fs) > 3 /\ Unended(fs, Len(fs) - 3)
                   /\ fs[Len(fs) - 2] = FinishFrame(ChatFinishReason(c.stopReason))
                   /\ fs[Len(fs) - 1] = UsageFrame(ChatUsageFrom(c.usage))
                   /\ fs[Len(fs)] = DoneFrame

\* The tools it has announced.
Announced(c, fs) ==
  /\ c.toolIndex = Cardinality(Positions(fs, "tool"))
  /\ c.toolIndex > 0 => c.curTool = c.toolIndex - 1
  /\ ToolsAnnounced(fs)

ToolStarts(s) == {i \in Starts(s) : s[i].kind = "tool_use"}

\* The aggregator h has the same answer.
Alike(c, fs, h) ==
  /\ h = [text |-> h.text, reasoning |-> h.reasoning, tools |-> h.tools,
          toolByBlk |-> h.toolByBlk, stopReason |-> h.stopReason, usage |-> h.usage]
  /\ IsSequence(h.text) /\ SameTexts(fs, "content", h.text)
  /\ IsSequence(h.reasoning) /\ SameTexts(fs, "reasoning", h.reasoning)
  /\ IsSequence(h.tools) /\ Len(h.tools) = c.toolIndex
  /\ \A n \in 1..Len(h.tools) : IsSequence(h.tools[n])
  /\ WholeInputs(fs, h.tools)
  /\ c.stopReason = h.stopReason /\ c.usage = h.usage

\* It knows the latest tool block of stream s as its last tool.
Indexed(s, h) ==
  \A j \in ToolStarts(s) : (\A i \in ToolStarts(s) : i <= j) =>
    /\ s[j].index \in DOMAIN h.toolByBlk
    /\ h.toolByBlk[s[j].index] = Len(h.tools) /\ Len(h.tools) > 0

Clean(s) == \A i \in 1..(Len(s) - 1) : s[i].name # "error"

EndEvents(s) == {i \in 1..Len(s) : s[i].name \in {"message_stop", "error"}}

\* The encoder c has made fs, and the aggregator h its answer, of stream s.
Coded(s, c, fs, h) ==
  /\ IsChatEncoder(c) /\ IsSequence(fs)
  /\ Ordered(c, fs)
  /\ Announced(c, fs)
  /\ c.finished => \E i \in 1..Len(s) : s[i].name = "message_stop"
  /\ c.hasError => \E i \in 1..Len(s) : s[i].name = "error"
  /\ EndEvents(s) # {} => Silenced(c)
  /\ Clean(s) => Alike(c, fs, h) /\ Indexed(s, h) /\ Billed(s, h.usage)

---------------------------------------------------------------------------
(* The role. *)

\* The frames, with the role declared.
Declared(c, fs) == IF c.started THEN fs ELSE <<RoleFrame>>

SameState(c, d) ==
  /\ d.toolIndex = c.toolIndex /\ d.curTool = c.curTool
  /\ d.stopReason = c.stopReason /\ d.usage = c.usage
  /\ d.finished = c.finished /\ d.hasError = c.hasError

LEMMA ReturningAdds ==
  ASSUME NEW c, IsChatEncoder(c), NEW g, IsSequence(g)
  PROVE  LET d == Returning(c, g)
         IN /\ IsChatEncoder(d) /\ d.frames = c.frames \o g
            /\ SameState(c, d) /\ d.started = c.started
<1> DEFINE d == Returning(c, g)
<1>1. /\ IsChatEncoder(d) /\ d.frames = c.frames \o g
      /\ \A f \in ChatFields \ {"frames"} : d[f] = c[f]
  BY ReturningType
<1> HIDE DEF d
<1>2. SameState(c, d) /\ d.started = c.started
  BY <1>1 DEF SameState, ChatFields
<1> QED
  BY <1>1, <1>2 DEF d

\* d is c after the frames fs, when h came after them and the role.
AfterRole(c, fs, h, d) ==
  /\ IsChatEncoder(d) /\ d.started = TRUE /\ SameState(c, d)
  /\ \E g : /\ IsSequence(g) /\ d.frames = c.frames \o g
            /\ fs \o g = Declared(c, fs) \o h

LEMMA WithRoleAdds ==
  ASSUME NEW c, IsChatEncoder(c), NEW fs, IsSequence(fs), StartedIff(c, fs),
         NEW h, IsSequence(h)
  PROVE  AfterRole(c, fs, h, WithRole(c, h))
<1> DEFINE b == [c EXCEPT !.started = TRUE]
           role == <<RoleFrame>>
           g == IF c.started THEN h ELSE role \o h
           d == WithRole(c, h)
<1>1. d = Returning(b, g)
  BY DEF WithRole
<1>2. IsSequence(g) /\ IsSequence(role) /\ IsSequence(role \o h)
  BY ShortSequences, Concatenation
<1>3. IsChatEncoder(b) /\ b.started = TRUE /\ b.frames = c.frames /\ SameState(c, b)
  BY DEF IsChatEncoder, ChatFields, SameState
<1>4. fs \o g = Declared(c, fs) \o h
  <2>1. CASE c.started
    BY <2>1 DEF Declared
  <2>2. CASE ~c.started
    <3> DEFINE rest == role \o h
    <3>1. fs = <<>> /\ g = rest /\ Declared(c, fs) = role
      BY <2>2 DEF Declared, StartedIff
    <3>2. IsSequence(rest)
      BY <1>2
    <3> HIDE DEF role, g
    <3>3. <<>> \o rest = rest
      BY ONLY <3>2, EmptyConcatenation
    <3> QED
      BY <3>1, <3>3
  <2> QED
    BY <2>1, <2>2
<1> HIDE DEF b, g, d, role
<1>5. IsChatEncoder(d) /\ d.frames = b.frames \o g /\ SameState(b, d) /\ d.started = b.started
  BY <1>1, <1>2, <1>3, ReturningAdds
<1>6. SameState(c, d) /\ d.started = TRUE
  BY <1>3, <1>5 DEF SameState
<1>7. d.frames = c.frames \o g
  BY <1>3, <1>5
<1>8. AfterRole(c, fs, h, d)
  BY <1>2, <1>4, <1>5, <1>6, <1>7 DEF AfterRole
<1> QED
  BY <1>8 DEF d

\* Nothing but the role is new.
LEMMA DeclaredIs ==
  ASSUME NEW c, NEW fs, IsSequence(fs), Ordered(c, fs), ~Silenced(c)
  PROVE  LET all == Declared(c, fs)
         IN /\ IsSequence(all) /\ all # <<>> /\ Len(all) > 0 /\ RoleFirst(all)
            /\ Unended(all, Len(all))
            /\ all = fs \/ (fs = <<>> /\ all = <<RoleFrame>>)
<1>1. IsSequence(<<RoleFrame>>) /\ Len(<<RoleFrame>>) = 1 /\ <<RoleFrame>>[1] = RoleFrame
  BY ShortSequences
<1>2. Unended(<<RoleFrame>>, 1) /\ RoleFirst(<<RoleFrame>>)
  BY <1>1 DEF Unended, RoleFrame, EndKinds, RoleFirst
<1>3. <<RoleFrame>> # <<>>
  BY <1>1, ShortSequences
<1>4. Len(fs) \in Nat /\ (fs # <<>> => Len(fs) # 0)
  <2>1. PICK S : fs \in Seq(S)
    BY DEF IsSequence
  <2> QED
    BY <2>1
<1> QED
  BY <1>1, <1>2, <1>3, <1>4 DEF Ordered, Declared, StartedIff

LEMMA DeclaredKeeps ==
  ASSUME NEW c, NEW fs, IsSequence(fs), Ordered(c, fs), ~Silenced(c), Announced(c, fs)
  PROVE  /\ Announced(c, Declared(c, fs))
         /\ \A h : Alike(c, fs, h) => Alike(c, Declared(c, fs), h)
<1> DEFINE role == <<RoleFrame>>
<1>1. CASE Declared(c, fs) = fs
  BY <1>1
<1>2. CASE fs = <<>> /\ Declared(c, fs) = role
  <2>1. IsSequence(role) /\ Len(role) = 1 /\ role[1].frame = "role" /\ <<>> \o role = role
    BY ShortSequences DEF RoleFrame
  <2>2. \A k \in 1..Len(role) : role[k].frame \notin {"content", "reasoning", "tool", "arguments"}
    BY <2>1
  <2> HIDE DEF role
  <2>3. ToolsAnnounced(role) /\ Positions(role, "tool") = Positions(fs, "tool")
    <3>1. ToolsAnnounced(fs \o role) /\ Positions(fs \o role, "tool") = Positions(fs, "tool")
      BY <2>1, <2>2, ToolsApart DEF Announced
    <3> QED
      BY <1>2, <2>1, <3>1
  <2>4. \A texts : /\ SameTexts(fs, "content", texts) => SameTexts(role, "content", texts)
                   /\ SameTexts(fs, "reasoning", texts) => SameTexts(role, "reasoning", texts)
    <3> TAKE texts
    <3>1. /\ SameTexts(fs, "content", texts) => SameTexts(fs \o role, "content", texts)
          /\ SameTexts(fs, "reasoning", texts) => SameTexts(fs \o role, "reasoning", texts)
      BY <2>1, <2>2, TextsApart
    <3> QED
      BY <1>2, <2>1, <3>1
  <2>5. \A i : Joined(role, i) = Joined(fs, i)
    <3> TAKE i
    <3>1. Joined(fs \o role, i) = Joined(fs, i)
      BY <2>1, <2>2, JoinedApart
    <3> QED
      BY <1>2, <2>1, <3>1
  <2>6. \A tools : WholeInputs(fs, tools) => WholeInputs(role, tools)
    BY <2>5 DEF WholeInputs
  <2>7. Announced(c, role)
    BY <2>3 DEF Announced
  <2>8. \A h : Alike(c, fs, h) => Alike(c, role, h)
    BY <2>4, <2>6 DEF Alike
  <2> QED
    BY <1>2, <2>7, <2>8
<1> QED
  BY <1>1, <1>2, DeclaredIs

LEMMA NoFrames == ASSUME NEW fs, IsSequence(fs) PROVE fs = <<>> <=> Len(fs) = 0
<1>1. PICK S : fs \in Seq(S)
  BY DEF IsSequence
<1> QED
  BY <1>1

\* Frames after the role.
LEMMA RoleStays ==
  ASSUME NEW fs, NEW g, IsSequence(fs), IsSequence(g), fs # <<>>, RoleFirst(fs),
         \A k \in 1..Len(g) : g[k].frame # "role"
  PROVE  RoleFirst(fs \o g) /\ fs \o g # <<>>
<1> DEFINE all == fs \o g
           m == Len(fs)
<1>1. /\ IsSequence(all) /\ Len(all) = m + Len(g)
      /\ \A i \in 1..m : all[i] = fs[i]
      /\ \A i \in 1..Len(g) : all[m + i] = g[i]
      /\ m \in Nat /\ Len(g) \in Nat
  BY Concatenation, SequenceLen
<1>2. m > 0
  BY <1>1, NoFrames
<1> HIDE DEF all
<1>3. all # <<>>
  BY <1>1, <1>2, NoFrames
<1>4. all[1].frame = "role"
  <2>1. 1 \in 1..m
    BY <1>1, <1>2
  <2> QED
    BY <1>1, <2>1 DEF RoleFirst
<1>5. ASSUME NEW i \in 2..Len(all) PROVE all[i].frame # "role"
  <2>1. CASE i <= m
    <3>1. i \in 1..m /\ i \in 2..m
      BY <2>1
    <3> QED
      BY <1>1, <3>1 DEF RoleFirst
  <2>2. CASE i > m
    <3>1. i - m \in 1..Len(g) /\ m + (i - m) = i
      BY <1>1, <2>2
    <3>2. all[m + (i - m)] = g[i - m]
      BY <1>1, <3>1
    <3> QED
      BY <3>1, <3>2
  <2> QED
    BY <1>1, <2>1, <2>2
<1>6. RoleFirst(all)
  BY <1>4, <1>5 DEF RoleFirst
<1> QED
  BY <1>3, <1>6 DEF all

\* Content after content.
LEMMA ContentOrdered ==
  ASSUME NEW fs, NEW g, IsSequence(fs), IsSequence(g), fs # <<>>, RoleFirst(fs),
         Unended(fs, Len(fs)), \A k \in 1..Len(g) : g[k].frame \notin EndKinds \cup {"role"},
         NEW d, ~Silenced(d), d.started = TRUE
  PROVE  Ordered(d, fs \o g)
<1> DEFINE all == fs \o g
           m == Len(fs)
<1>1. /\ IsSequence(all) /\ Len(all) = m + Len(g)
      /\ \A i \in 1..m : all[i] = fs[i]
      /\ \A i \in 1..Len(g) : all[m + i] = g[i]
      /\ m \in Nat /\ Len(g) \in Nat
  BY Concatenation, SequenceLen
<1>2. RoleFirst(all) /\ all # <<>>
  BY RoleStays
<1> HIDE DEF all
<1>3. ASSUME NEW i \in 1..Len(all) PROVE all[i].frame \notin EndKinds
  <2>1. CASE i <= m
    <3>1. i \in 1..m
      BY <2>1
    <3> QED
      BY <1>1, <3>1 DEF Unended
  <2>2. CASE i > m
    <3>1. i - m \in 1..Len(g) /\ m + (i - m) = i
      BY <1>1, <2>2
    <3>2. all[m + (i - m)] = g[i - m]
      BY <1>1, <3>1
    <3> QED
      BY <3>1, <3>2
  <2> QED
    BY <1>1, <2>1, <2>2
<1>4. Unended(all, Len(all))
  BY <1>3 DEF Unended
<1>5. ~d.finished /\ ~d.hasError
  BY DEF Silenced
<1>6. Ordered(d, all)
  BY <1>2, <1>4, <1>5 DEF Ordered, StartedIff
<1> QED
  BY <1>6 DEF all

\* Frames that are of no tool.
LEMMA NoToolKeeps ==
  ASSUME NEW fs, NEW g, IsSequence(fs), IsSequence(g),
         \A k \in 1..Len(g) : g[k].frame \notin {"tool", "arguments"}
  PROVE  /\ \A c, d : Announced(c, fs) /\ SameState(c, d) => Announced(d, fs \o g)
         /\ \A tools : WholeInputs(fs, tools) => WholeInputs(fs \o g, tools)
<1> DEFINE all == fs \o g
<1>1. ToolsAnnounced(fs) => ToolsAnnounced(all) /\ Positions(all, "tool") = Positions(fs, "tool")
  BY ToolsApart
<1>2. \A i : Joined(all, i) = Joined(fs, i)
  BY JoinedApart
<1> HIDE DEF all
<1>3. \A c, d : Announced(c, fs) /\ SameState(c, d) => Announced(d, all)
  BY <1>1 DEF Announced, SameState
<1>4. \A tools : WholeInputs(fs, tools) => WholeInputs(all, tools)
  BY <1>2 DEF WholeInputs
<1> QED
  BY <1>3, <1>4 DEF all

---------------------------------------------------------------------------
LEMMA LiveIs ==
  ASSUME NEW s \in Seq(Event), NEW c, NEW fs, NEW h, Coded(s, c, fs, h), ~Silenced(c)
  PROVE  /\ EndEvents(s) = {} /\ IsChatEncoder(c) /\ IsSequence(fs)
         /\ Ordered(c, fs) /\ Announced(c, fs)
         /\ Alike(c, fs, h) /\ Indexed(s, h) /\ Billed(s, h.usage)
<1>1. EndEvents(s) = {}
  BY DEF Coded
<1>2. Clean(s)
  <2>1. Len(s) \in Nat
    OBVIOUS
  <2>2. \A i \in 1..(Len(s) - 1) : i \in 1..Len(s)
    BY <2>1
  <2> QED
    BY <1>1, <2>2 DEF Clean, EndEvents
<1> QED
  BY <1>1, <1>2 DEF Coded

LEMMA StillLive ==
  ASSUME NEW s \in Seq(Event), EndEvents(s) = {},
         NEW e \in Event, e.name \notin {"message_stop", "error"},
         NEW d, IsChatEncoder(d), ~Silenced(d), NEW fs, IsSequence(fs), NEW h,
         Ordered(d, fs), Announced(d, fs), Alike(d, fs, h),
         Indexed(Append(s, e), h), Billed(Append(s, e), h.usage)
  PROVE  Coded(Append(s, e), d, fs, h)
<1> DEFINE t == Append(s, e)
           n == Len(s) + 1
<1>1. /\ t[n] = e /\ Len(t) = n /\ \A i \in 1..Len(s) : t[i] = s[i]
      /\ Len(s) \in Nat /\ 1..Len(t) = 1..Len(s) \cup {n}
  BY AppendSeq
<1> HIDE DEF t
<1>2. EndEvents(t) = {}
  BY <1>1 DEF EndEvents
<1>3. ~d.finished /\ ~d.hasError
  BY DEF Silenced
<1>4. Coded(t, d, fs, h)
  BY <1>2, <1>3 DEF Coded, t
<1> QED
  BY <1>4 DEF t

\* An event that starts no tool.
LEMMA IndexedKept ==
  ASSUME NEW s \in Seq(Event), NEW e \in Event, ~(IsStart(e) /\ e.kind = "tool_use"),
         NEW h, Indexed(s, h), NEW k, k.toolByBlk = h.toolByBlk, Len(k.tools) = Len(h.tools)
  PROVE  Indexed(Append(s, e), k) /\ ToolStarts(Append(s, e)) = ToolStarts(s)
<1> DEFINE t == Append(s, e)
           n == Len(s) + 1
<1>1. t[n] = e /\ (\A i \in 1..Len(s) : t[i] = s[i]) /\ Len(s) \in Nat
  BY AppendSeq
<1>2. /\ Starts(s) \subseteq 1..Len(s)
      /\ ~IsStart(e) => Starts(t) = Starts(s)
      /\ IsStart(e) => Starts(t) = Starts(s) \cup {n}
  BY StartAdded
<1> HIDE DEF t
<1>3. ToolStarts(t) = ToolStarts(s) /\ \A i \in ToolStarts(s) : t[i] = s[i]
  BY <1>1, <1>2 DEF ToolStarts
<1>4. Indexed(t, k)
  BY <1>3 DEF Indexed
<1> QED
  BY <1>3, <1>4 DEF t

Outcome(c, fs, d, t, k) ==
  \E g : IsSequence(g) /\ d.frames = c.frames \o g /\ Coded(t, d, fs \o g, k)

LEMMA ChunkCoded ==
  ASSUME NEW s \in Seq(Event), NEW c, NEW fs, NEW h, Coded(s, c, fs, h), ~Silenced(c),
         NEW e \in Event, IsDelta(e), e.delta \in {"text_delta", "thinking_delta"},
         e.payload = <<e.payload[1]>>
  PROVE  Outcome(c, fs, ChatEncode(c, e), Append(s, e), ChatAggregate(h, e))
<1> DEFINE t == Append(s, e)
           d == ChatEncode(c, e)
           k == ChatAggregate(h, e)
           x == e.payload[1]
           f == IF e.delta = "text_delta" THEN ContentFrame(x) ELSE ReasoningFrame(x)
           one == <<f>>
           fs0 == Declared(c, fs)
           all == fs0 \o one
<1>1. /\ EndEvents(s) = {} /\ IsChatEncoder(c) /\ IsSequence(fs)
      /\ Ordered(c, fs) /\ Announced(c, fs)
      /\ Alike(c, fs, h) /\ Indexed(s, h) /\ Billed(s, h.usage)
  BY LiveIs
<1>2. /\ ~IsStart(e) /\ e.name # "message_delta" /\ e.name \notin {"message_stop", "error"}
  BY DEF IsStart, IsDelta
<1>3. d = WithRole(c, one)
  BY <1>2 DEF ChatEncode, ChatDelta
<1>4. /\ f.text = x /\ f.frame \in {"content", "reasoning"}
      /\ e.delta = "text_delta" => f.frame = "content"
      /\ e.delta = "thinking_delta" => f.frame = "reasoning"
  BY DEF ContentFrame, ReasoningFrame
<1> HIDE DEF f
<1>5. IsSequence(one) /\ Len(one) = 1 /\ one[1] = f
  BY ShortSequences
<1>6. \A i \in 1..Len(one) : /\ one[i].frame \notin EndKinds \cup {"role"}
                             /\ one[i].frame \notin {"tool", "arguments"}
                             /\ one[i].frame = f.frame
  BY <1>4, <1>5 DEF EndKinds
<1>7. StartedIff(c, fs)
  BY <1>1 DEF Ordered
<1>8. /\ IsSequence(fs0) /\ fs0 # <<>> /\ RoleFirst(fs0) /\ Unended(fs0, Len(fs0))
      /\ Announced(c, fs0) /\ Alike(c, fs0, h)
  BY <1>1, DeclaredIs, DeclaredKeeps
<1> HIDE DEF one, fs0, d, t
<1>9. /\ IsChatEncoder(d) /\ d.started = TRUE /\ SameState(c, d)
      /\ \E g : IsSequence(g) /\ d.frames = c.frames \o g /\ fs \o g = all
  <2>1. AfterRole(c, fs, one, WithRole(c, one))
    BY ONLY <1>1, <1>5, <1>7, WithRoleAdds
  <2> QED
    BY <1>3, <2>1 DEF AfterRole, fs0
<1>10. ~Silenced(d) /\ d.started = TRUE
  BY <1>9 DEF Silenced, SameState, IsChatEncoder
<1>11. Ordered(d, all)
  BY <1>5, <1>6, <1>8, <1>9, <1>10, ContentOrdered
<1>12. /\ Announced(d, all)
       /\ \A tools : WholeInputs(fs0, tools) => WholeInputs(all, tools)
  <2>1. \A i \in 1..Len(one) : one[i].frame \notin {"tool", "arguments"}
    BY <1>6
  <2>2. /\ \A x1, y : Announced(x1, fs0) /\ SameState(x1, y) => Announced(y, all)
        /\ \A tools : WholeInputs(fs0, tools) => WholeInputs(all, tools)
    BY ONLY <1>5, <1>8, <2>1, NoToolKeeps DEF all
  <2> QED
    BY <1>8, <1>9, <2>2
<1>13. IsSequence(all)
  BY <1>5, <1>8, Concatenation
<1>14. \A kind, texts : kind # f.frame /\ SameTexts(fs0, kind, texts) => SameTexts(all, kind, texts)
  BY <1>5, <1>6, <1>8, TextsApart
<1>15. \A texts : IsSequence(texts) /\ SameTexts(fs0, f.frame, texts)
                    => SameTexts(all, f.frame, texts \o e.payload) /\ IsSequence(texts \o e.payload)
  <2> TAKE texts
  <2>1. e.payload = <<f.text>>
    BY <1>4
  <2> QED
    BY <1>8, <2>1, TextsMore DEF one
<1> HIDE DEF all
<1>16. Alike(d, all, k) /\ k.usage = h.usage /\ k.toolByBlk = h.toolByBlk /\ k.tools = h.tools
  <2>0. /\ h = [text |-> h.text, reasoning |-> h.reasoning, tools |-> h.tools,
                toolByBlk |-> h.toolByBlk, stopReason |-> h.stopReason, usage |-> h.usage]
        /\ IsSequence(h.text) /\ SameTexts(fs0, "content", h.text)
        /\ IsSequence(h.reasoning) /\ SameTexts(fs0, "reasoning", h.reasoning)
        /\ IsSequence(h.tools) /\ Len(h.tools) = c.toolIndex
        /\ \A n \in 1..Len(h.tools) : IsSequence(h.tools[n])
        /\ WholeInputs(fs0, h.tools)
        /\ c.stopReason = h.stopReason /\ c.usage = h.usage
    BY <1>8 DEF Alike
  <2>1. CASE e.delta = "text_delta"
    <3> DEFINE more == h.text \o e.payload
    <3>1. k = [text |-> more, reasoning |-> h.reasoning, tools |-> h.tools,
               toolByBlk |-> h.toolByBlk, stopReason |-> h.stopReason, usage |-> h.usage]
      <4>1. k = [h EXCEPT !.text = more]
        BY <1>2, <2>1 DEF ChatAggregate, AggDelta, Built
      <4> HIDE DEF more, k
      <4> QED
        BY <2>0, <4>1
    <3>2. IsSequence(more) /\ SameTexts(all, "content", more)
      BY <1>4, <1>15, <2>0, <2>1
    <3>3. SameTexts(all, "reasoning", h.reasoning)
      BY <1>4, <1>14, <2>0, <2>1
    <3> HIDE DEF more, k
    <3> QED
      BY <1>9, <1>12, <2>0, <3>1, <3>2, <3>3 DEF Alike, SameState
  <2>2. CASE e.delta = "thinking_delta"
    <3> DEFINE more == h.reasoning \o e.payload
    <3>1. k = [text |-> h.text, reasoning |-> more, tools |-> h.tools,
               toolByBlk |-> h.toolByBlk, stopReason |-> h.stopReason, usage |-> h.usage]
      <4>1. k = [h EXCEPT !.reasoning = more]
        BY <1>2, <2>2 DEF ChatAggregate, AggDelta, Built
      <4> HIDE DEF more, k
      <4> QED
        BY <2>0, <4>1
    <3>2. IsSequence(more) /\ SameTexts(all, "reasoning", more)
      BY <1>4, <1>15, <2>0, <2>2
    <3>3. SameTexts(all, "content", h.text)
      BY <1>4, <1>14, <2>0, <2>2
    <3> HIDE DEF more, k
    <3> QED
      BY <1>9, <1>12, <2>0, <3>1, <3>2, <3>3 DEF Alike, SameState
  <2> QED
    BY <2>1, <2>2
<1> HIDE DEF k
<1>17. Indexed(t, k)
  BY <1>1, <1>2, <1>16, IndexedKept DEF t
<1>18. Billed(t, k.usage)
  BY <1>1, <1>2, <1>16, BilledAfter DEF t
<1>19. Coded(t, d, all, k)
  BY <1>1, <1>2, <1>9, <1>10, <1>11, <1>12, <1>13, <1>16, <1>17, <1>18, StillLive DEF t
<1> QED
  BY <1>9, <1>19 DEF Outcome, t, d, k

LEMMA NothingJoinedYet ==
  ASSUME NEW fs, IsSequence(fs), ToolsAnnounced(fs),
         NEW n, n = Cardinality(Positions(fs, "tool"))
  PROVE  Joined(fs, n) = <<>> /\ n \in Nat
<1>1. n \in Nat
  <2>1. Positions(fs, "tool") \subseteq 1..Len(fs) /\ Len(fs) \in Nat
    BY SequenceLen DEF Positions
  <2> QED
    BY <2>1, PositionsFinite
<1>2. ASSUME NEW k \in 1..Len(fs), fs[k].frame = "arguments", fs[k].index = n PROVE FALSE
  <2>1. k \in Positions(fs, "arguments")
    BY <1>2 DEF Positions
  <2>2. fs[k].index < n
    BY <1>1, <1>2, <2>1, FragmentsAnnounced
  <2> QED
    BY <1>1, <1>2, <2>2
<1>3. IsSequence(<<>>) /\ <<>> \o fs = fs
  BY ShortSequences, EmptyConcatenation
<1>4. Joined(<<>> \o fs, n) = Joined(<<>>, n)
  BY <1>2, <1>3, JoinedApart
<1> QED
  BY <1>1, <1>3, <1>4, JoinedNothing

\* A new tool.
LEMMA IndexedMore ==
  ASSUME NEW s \in Seq(Event), NEW e \in Event, IsStart(e), e.kind = "tool_use",
         NEW h, Len(h.tools) \in Nat, NEW k, Len(k.tools) = Len(h.tools) + 1,
         e.index \in DOMAIN k.toolByBlk, k.toolByBlk[e.index] = Len(h.tools) + 1
  PROVE  Indexed(Append(s, e), k)
<1> DEFINE t == Append(s, e)
           n == Len(s) + 1
<1>1. t[n] = e /\ (\A i \in 1..Len(s) : t[i] = s[i]) /\ Len(s) \in Nat
  BY AppendSeq
<1>2. Starts(s) \subseteq 1..Len(s) /\ Starts(t) = Starts(s) \cup {n}
  BY StartAdded
<1> HIDE DEF t
<1>3. n \in ToolStarts(t) /\ \A i \in ToolStarts(t) : i \in 1..Len(s) \/ i = n
  BY <1>1, <1>2 DEF ToolStarts
<1>4. ASSUME NEW j \in ToolStarts(t), \A i \in ToolStarts(t) : i <= j PROVE j = n
  BY <1>1, <1>3, <1>4
<1>5. Indexed(t, k)
  BY <1>1, <1>4 DEF Indexed
<1> QED
  BY <1>5 DEF t

LEMMA ToolCoded ==
  ASSUME NEW s \in Seq(Event), NEW c, NEW fs, NEW h, Coded(s, c, fs, h), ~Silenced(c),
         NEW e \in Event, IsStart(e), e.kind = "tool_use"
  PROVE  Outcome(c, fs, ChatEncode(c, e), Append(s, e), ChatAggregate(h, e))
<1> DEFINE t == Append(s, e)
           d == ChatEncode(c, e)
           k == ChatAggregate(h, e)
           n == c.toolIndex
           b == [c EXCEPT !.curTool = c.toolIndex, !.toolIndex = @ + 1]
           f == ToolFrame(n)
           one == <<f>>
           fs0 == Declared(c, fs)
           all == fs0 \o one
<1>1. /\ EndEvents(s) = {} /\ IsChatEncoder(c) /\ IsSequence(fs)
      /\ Ordered(c, fs) /\ Announced(c, fs)
      /\ Alike(c, fs, h) /\ Indexed(s, h) /\ Billed(s, h.usage)
  BY LiveIs
<1>2. /\ ~IsDelta(e) /\ e.name # "message_delta" /\ e.name \notin {"message_stop", "error"}
  BY DEF IsStart, IsDelta
<1>3. d = WithRole(b, one)
  BY <1>2 DEF ChatEncode, ToolStarted
<1>4. f.frame = "tool"
  BY DEF ToolFrame
<1>5. IsSequence(one) /\ Len(one) = 1 /\ one[1] = f
  BY ShortSequences
<1>6. \A i \in 1..Len(one) : /\ one[i].frame \notin EndKinds \cup {"role"}
                             /\ one[i].frame \notin {"content", "reasoning", "arguments"}
  BY <1>4, <1>5 DEF EndKinds
<1>7. /\ IsChatEncoder(b) /\ b.frames = c.frames /\ b.toolIndex = n + 1 /\ b.curTool = n
      /\ b.stopReason = c.stopReason /\ b.usage = c.usage
      /\ b.finished = c.finished /\ b.hasError = c.hasError /\ b.started = c.started
  BY <1>1 DEF IsChatEncoder, ChatFields
<1>8. /\ IsSequence(fs0) /\ fs0 # <<>> /\ RoleFirst(fs0) /\ Unended(fs0, Len(fs0))
      /\ Announced(c, fs0) /\ Alike(c, fs0, h)
  BY <1>1, DeclaredIs, DeclaredKeeps
<1>9. StartedIff(b, fs) /\ Declared(b, fs) = fs0
  BY <1>1, <1>7 DEF Ordered, StartedIff, Declared
<1> HIDE DEF one, fs0, d, t, b
<1>10. /\ IsChatEncoder(d) /\ d.started = TRUE /\ SameState(b, d)
       /\ \E g : IsSequence(g) /\ d.frames = c.frames \o g /\ fs \o g = all
  <2>1. AfterRole(b, fs, one, WithRole(b, one))
    BY ONLY <1>1, <1>5, <1>7, <1>9, WithRoleAdds
  <2> QED
    BY <1>3, <1>7, <1>9, <2>1 DEF AfterRole
<1>11. /\ d.toolIndex = n + 1 /\ d.curTool = n
       /\ d.stopReason = c.stopReason /\ d.usage = c.usage
  BY <1>7, <1>10 DEF SameState
<1>12. ~Silenced(d)
  BY <1>7, <1>10 DEF Silenced, SameState
<1>13. Ordered(d, all)
  BY <1>5, <1>6, <1>8, <1>10, <1>12, ContentOrdered
<1>14. IsSequence(all)
  BY <1>5, <1>8, Concatenation
<1>15. n = Cardinality(Positions(fs0, "tool")) /\ ToolsAnnounced(fs0)
  BY <1>8 DEF Announced
<1>16. /\ n \in Nat /\ ToolsAnnounced(all) /\ Cardinality(Positions(all, "tool")) = n + 1
  BY <1>8, <1>15, ToolsMore DEF one
<1>17. Announced(d, all)
  BY <1>11, <1>16 DEF Announced
<1>18. \A texts : /\ SameTexts(fs0, "content", texts) => SameTexts(all, "content", texts)
                  /\ SameTexts(fs0, "reasoning", texts) => SameTexts(all, "reasoning", texts)
  BY <1>5, <1>6, <1>8, TextsApart
<1>19. \A i : Joined(all, i) = Joined(fs0, i)
  BY <1>5, <1>6, <1>8, JoinedApart
<1>20. Joined(all, n) = <<>>
  BY <1>8, <1>15, <1>19, NothingJoinedYet
<1> HIDE DEF all
<1>21. /\ h = [text |-> h.text, reasoning |-> h.reasoning, tools |-> h.tools,
               toolByBlk |-> h.toolByBlk, stopReason |-> h.stopReason, usage |-> h.usage]
       /\ IsSequence(h.text) /\ SameTexts(fs0, "content", h.text)
       /\ IsSequence(h.reasoning) /\ SameTexts(fs0, "reasoning", h.reasoning)
       /\ IsSequence(h.tools) /\ Len(h.tools) = n
       /\ \A i \in 1..Len(h.tools) : IsSequence(h.tools[i])
       /\ WholeInputs(fs0, h.tools)
       /\ c.stopReason = h.stopReason /\ c.usage = h.usage
  BY <1>8 DEF Alike
<1> DEFINE tools == h.tools
           more == Append(tools, <<>>)
           blocks == DOMAIN h.toolByBlk \cup {e.index}
           table == [x \in blocks |-> IF x = e.index THEN Len(tools) + 1 ELSE h.toolByBlk[x]]
<1>22. k = [text |-> h.text, reasoning |-> h.reasoning, tools |-> more,
            toolByBlk |-> table, stopReason |-> h.stopReason, usage |-> h.usage]
  <2>1. k = [h EXCEPT !.tools = more, !.toolByBlk = table]
    BY <1>2 DEF ChatAggregate, AggTool
  <2> HIDE DEF more, table, k
  <2> QED
    BY <1>21, <2>1
<1>23. e.index \in DOMAIN table /\ table[e.index] = n + 1
  BY <1>21
<1>24. /\ IsSequence(more) /\ Len(more) = n + 1 /\ more[n + 1] = <<>>
       /\ \A i \in 1..n : more[i] = tools[i]
  <2> DEFINE size == n
  <2>1. IsSequence(tools) /\ Len(tools) = size
    BY <1>21
  <2> HIDE DEF tools, size
  <2>2. /\ IsSequence(more) /\ Len(more) = size + 1 /\ more[size + 1] = <<>>
        /\ \A i \in 1..size : more[i] = tools[i]
    BY <2>1, Appended
  <2> QED
    BY <2>2 DEF size
<1> HIDE DEF tools, more, table, k
<1>25. ASSUME NEW i \in 1..Len(more) PROVE IsSequence(more[i]) /\ Joined(all, i - 1) = more[i]
  <2>1. CASE i = n + 1
    BY <1>16, <1>20, <1>24, <2>1, ShortSequences
  <2>2. CASE i # n + 1
    <3>1. i \in 1..n
      BY <1>16, <1>24, <2>2
    <3>2. IsSequence(tools[i]) /\ Joined(fs0, i - 1) = tools[i]
      BY <1>21, <3>1 DEF WholeInputs, tools
    <3> QED
      BY <1>19, <1>24, <3>1, <3>2
  <2> QED
    BY <2>1, <2>2
<1>26. Alike(d, all, k)
  <2>1. WholeInputs(all, more) /\ \A i \in 1..Len(more) : IsSequence(more[i])
    BY <1>25 DEF WholeInputs
  <2> QED
    BY <1>11, <1>18, <1>21, <1>22, <1>24, <2>1 DEF Alike
<1>27. Indexed(t, k)
  <2>1. /\ Len(h.tools) \in Nat /\ Len(k.tools) = Len(h.tools) + 1
        /\ e.index \in DOMAIN k.toolByBlk /\ k.toolByBlk[e.index] = Len(h.tools) + 1
    BY <1>16, <1>21, <1>22, <1>23, <1>24
  <2> QED
    BY <2>1, IndexedMore DEF t
<1>28. k.usage = h.usage
  BY <1>22
<1>29. Billed(t, k.usage)
  BY <1>1, <1>2, <1>28, BilledAfter DEF t
<1>30. Coded(t, d, all, k)
  BY <1>1, <1>2, <1>10, <1>12, <1>13, <1>14, <1>17, <1>26, <1>27, <1>29, StillLive DEF t
<1> QED
  BY <1>10, <1>30 DEF Outcome, t, d, k

LEMMA InputCoded ==
  ASSUME NEW s \in Seq(Event), NEW c, NEW fs, NEW h, Coded(s, c, fs, h), ~Silenced(c),
         NEW e \in Event, IsDelta(e), e.delta = "input_json_delta", e.payload[1] \in JSONTexts,
         Disciplined(Append(s, e)), Numbered(Append(s, e)), NEW m \in Nat, Blocks(s, m)
  PROVE  Outcome(c, fs, ChatEncode(c, e), Append(s, e), ChatAggregate(h, e))
<1> DEFINE t == Append(s, e)
           d == ChatEncode(c, e)
           k == ChatAggregate(h, e)
           r == Runes(e.payload[1])
           pieces == ChatSplitRunes(r, ArgChunkSize)
           g == [i \in DOMAIN pieces |-> ArgsFrame(c.curTool, pieces[i])]
           all == fs \o g
           tools == h.tools
           last == Len(tools)
           more == [tools EXCEPT ![last] = Built(@, r)]
<1>1. /\ EndEvents(s) = {} /\ IsChatEncoder(c) /\ IsSequence(fs)
      /\ Ordered(c, fs) /\ Announced(c, fs)
      /\ Alike(c, fs, h) /\ Indexed(s, h) /\ Billed(s, h.usage)
  BY LiveIs
<1>2. /\ ~IsStart(e) /\ e.name # "message_delta" /\ e.name \notin {"message_stop", "error"}
  BY DEF IsStart, IsDelta
<1>3. d = Returning(c, g)
  BY <1>2 DEF ChatEncode, ChatDelta
<1>4. e.index \in DOMAIN h.toolByBlk /\ h.toolByBlk[e.index] = last /\ last > 0
  <2>1. PICK j \in Starts(s) : /\ s[j].index = e.index /\ e.delta \in DeltasOf(s[j].kind)
                               /\ \A i \in Starts(s) : i <= j
    BY NumberOfDelta
  <2>2. s[j].kind \in Kinds
    <3>1. j \in 1..Len(s) /\ IsStart(s[j])
      BY DEF Starts
    <3>2. s[j] \in Event
      BY <3>1
    <3> QED
      BY <3>1, <3>2, StartType
  <2>3. s[j].kind = "tool_use"
    BY <2>1, <2>2 DEF DeltasOf, Kinds
  <2>4. j \in ToolStarts(s) /\ \A i \in ToolStarts(s) : i <= j
    BY <2>1, <2>3 DEF ToolStarts
  <2> QED
    BY <1>1, <2>1, <2>4 DEF Indexed
<1>5. /\ h = [text |-> h.text, reasoning |-> h.reasoning, tools |-> h.tools,
              toolByBlk |-> h.toolByBlk, stopReason |-> h.stopReason, usage |-> h.usage]
      /\ IsSequence(h.text) /\ SameTexts(fs, "content", h.text)
      /\ IsSequence(h.reasoning) /\ SameTexts(fs, "reasoning", h.reasoning)
      /\ IsSequence(tools) /\ last = c.toolIndex
      /\ \A i \in 1..last : IsSequence(tools[i])
      /\ WholeInputs(fs, tools)
      /\ c.stopReason = h.stopReason /\ c.usage = h.usage
  BY <1>1 DEF Alike
<1>6. last \in Nat
  BY <1>5, SequenceLen
<1>7. IsSequence(r) /\ IsSequence(pieces)
  BY RunesType, SplitIsSequence, ChunkAssumption
<1> HIDE DEF pieces
<1>8. Len(pieces) \in Nat /\ DOMAIN pieces = 1..Len(pieces)
  BY <1>7, SequenceLen DEF IsSequence
<1>9. /\ IsSequence(g) /\ Len(g) = Len(pieces)
      /\ \A i \in 1..Len(g) : g[i] = ArgsFrame(c.curTool, pieces[i])
  <2>1. /\ DOMAIN g = 1..Len(pieces) /\ g = [i \in DOMAIN g |-> g[i]]
        /\ \A i \in 1..Len(pieces) : g[i] = ArgsFrame(c.curTool, pieces[i])
    BY <1>8
  <2> HIDE DEF g
  <2> QED
    BY <1>8, <2>1, TableIsSequence
<1>10. c.curTool = last - 1 /\ c.toolIndex = last /\ last = Cardinality(Positions(fs, "tool"))
  BY <1>1, <1>4, <1>5 DEF Announced
<1> HIDE DEF g, r
<1>11. \A i \in 1..Len(g) : /\ g[i].frame = "arguments" /\ g[i].index = last - 1
                            /\ g[i].frame \notin EndKinds \cup {"role"}
                            /\ g[i].frame \notin {"content", "reasoning", "tool"}
  <2> DEFINE tool == c.curTool
  <2>1. \A i \in 1..Len(g) : g[i] = ArgsFrame(tool, pieces[i])
    BY <1>9
  <2> HIDE DEF tool
  <2>2. \A x : /\ ArgsFrame(tool, x).frame = "arguments" /\ ArgsFrame(tool, x).index = tool
    BY DEF ArgsFrame
  <2>3. \A i \in 1..Len(g) : g[i].frame = "arguments" /\ g[i].index = tool
    BY <2>1, <2>2
  <2>4. tool = last - 1
    BY <1>10 DEF tool
  <2> QED
    BY <2>3, <2>4 DEF EndKinds
<1>12. fs # <<>>
  <2> SUFFICES ASSUME fs = <<>> PROVE FALSE
    OBVIOUS
  <2>1. Len(fs) = 0
    BY ShortSequences
  <2> DEFINE P == Positions(fs, "tool")
             size == last
  <2>2. size = Cardinality(P) /\ size > 0
    BY <1>4, <1>10
  <2>3. P = {}
    BY <2>1 DEF Positions
  <2> HIDE DEF P, size
  <2> QED
    BY <2>2, <2>3, FS_EmptySet
<1> HIDE DEF d, t
<1>13. /\ IsChatEncoder(d) /\ d.frames = c.frames \o g
       /\ SameState(c, d) /\ d.started = c.started
  BY <1>1, <1>3, <1>9, ReturningAdds
<1>14. d.started = TRUE /\ ~Silenced(d)
  BY <1>1, <1>12, <1>13 DEF Ordered, StartedIff, Silenced, SameState, IsChatEncoder
<1>15. Ordered(d, all)
  <2>1. RoleFirst(fs) /\ Unended(fs, Len(fs))
    BY <1>1 DEF Ordered
  <2> QED
    BY <1>1, <1>9, <1>11, <1>12, <1>14, <2>1, ContentOrdered
<1>16. Announced(d, all)
  <2>1. ToolsAnnounced(all) /\ Positions(all, "tool") = Positions(fs, "tool")
    BY <1>1, <1>9, <1>10, <1>11, ToolsApart DEF Announced
  <2> QED
    BY <1>1, <1>13, <2>1 DEF Announced, SameState
<1>17. IsSequence(all)
  BY <1>1, <1>9, Concatenation
<1>18. \A texts : /\ SameTexts(fs, "content", texts) => SameTexts(all, "content", texts)
                  /\ SameTexts(fs, "reasoning", texts) => SameTexts(all, "reasoning", texts)
  BY <1>1, <1>9, <1>11, TextsApart
<1>19. \A i : i # last - 1 => Joined(all, i) = Joined(fs, i)
  BY <1>1, <1>9, <1>11, JoinedApart
<1>20. tools[last] = Joined(fs, last - 1) /\ IsSequence(tools[last]) /\ last \in 1..last
  BY <1>4, <1>5, <1>6 DEF WholeInputs
<1>21. Joined(all, last - 1) = Joined(fs, last - 1) \o r
  <2>1. IsSequence(Joined(fs, last - 1))
    BY <1>20
  <2>2. \A i \in 1..Len(g) : g[i] = ArgsFrame(last - 1, pieces[i])
    BY <1>9, <1>10
  <2> DEFINE i == last - 1
             size == ArgChunkSize
             P == ChatSplitRunes(r, size)
  <2>3. IsSequence(fs) /\ IsSequence(r) /\ size \in Nat \ {0} /\ IsSequence(g)
    BY <1>1, <1>7, <1>9, ChunkAssumption
  <2>4. Len(g) = Len(P) /\ \A j \in 1..Len(g) : g[j] = ArgsFrame(i, P[j])
    BY <1>9, <2>2 DEF pieces
  <2>5. IsSequence(Joined(fs, i))
    BY <2>1
  <2> HIDE DEF i, size
  <2>6. Joined(fs \o g, i) = Joined(fs, i) \o r
    BY ONLY <2>3, <2>4, <2>5, FragmentsJoined
  <2> QED
    BY <2>6 DEF i
<1>22. k = [text |-> h.text, reasoning |-> h.reasoning, tools |-> more,
            toolByBlk |-> h.toolByBlk, stopReason |-> h.stopReason, usage |-> h.usage]
  <2>1. k = [h EXCEPT !.tools[last] = Built(@, r)]
    BY <1>2, <1>4 DEF ChatAggregate, AggDelta, r
  <2>2. [h EXCEPT !.tools[last] = Built(@, r)] = [h EXCEPT !.tools = more]
    OBVIOUS
  <2> HIDE DEF more, k
  <2> QED
    BY <1>5, <2>1, <2>2
<1>23. /\ IsSequence(more) /\ Len(more) = last
       /\ more[last] = tools[last] \o r
       /\ \A i \in 1..last : i # last => more[i] = tools[i]
  <2>1. DOMAIN tools = 1..last /\ tools = [i \in 1..last |-> tools[i]]
    BY <1>5 DEF IsSequence
  <2>2. /\ DOMAIN more = 1..last /\ more = [i \in DOMAIN more |-> more[i]]
        /\ more[last] = tools[last] \o r
        /\ \A i \in 1..last : i # last => more[i] = tools[i]
    BY <1>20, <2>1 DEF Built
  <2> HIDE DEF more
  <2>3. IsSequence(more) /\ Len(more) = last
    BY <1>6, <2>2, TableIsSequence
  <2> QED
    BY <2>2, <2>3
<1> HIDE DEF tools, last, more, k, all
<1>24. ASSUME NEW i \in 1..Len(more) PROVE IsSequence(more[i]) /\ Joined(all, i - 1) = more[i]
  <2>1. CASE i = last
    <3>1. IsSequence(tools[last] \o r)
      BY <1>7, <1>20, Concatenation
    <3> QED
      BY <1>20, <1>21, <1>23, <2>1, <3>1
  <2>2. CASE i # last
    <3>1. i \in 1..last /\ i - 1 # last - 1
      BY <1>6, <1>23, <2>2
    <3>2. IsSequence(tools[i]) /\ Joined(fs, i - 1) = tools[i]
      BY <1>5, <3>1 DEF WholeInputs, last
    <3> QED
      BY <1>19, <1>23, <2>2, <3>1, <3>2
  <2> QED
    BY <2>1, <2>2
<1>25. Alike(d, all, k)
  <2>1. WholeInputs(all, more) /\ \A i \in 1..Len(more) : IsSequence(more[i])
    BY <1>24 DEF WholeInputs
  <2> QED
    BY <1>5, <1>13, <1>18, <1>22, <1>23, <2>1 DEF Alike, SameState
<1>26. Indexed(t, k)
  <2>1. k.toolByBlk = h.toolByBlk /\ Len(k.tools) = Len(h.tools)
    BY <1>22, <1>23 DEF last, tools
  <2> QED
    BY <1>1, <1>2, <2>1, IndexedKept DEF t
<1>27. k.usage = h.usage
  BY <1>22
<1>28. Billed(t, k.usage)
  BY <1>1, <1>2, <1>27, BilledAfter DEF t
<1>29. Coded(t, d, all, k)
  BY <1>1, <1>2, <1>13, <1>14, <1>15, <1>16, <1>17, <1>25, <1>26, <1>28, StillLive DEF t
<1> QED
  BY <1>9, <1>13, <1>29 DEF Outcome, t, d, k, all

\* Events without frames.
LEMMA QuietCoded ==
  ASSUME NEW s \in Seq(Event), NEW c, NEW fs, NEW h, Coded(s, c, fs, h), ~Silenced(c),
         NEW e \in Event, e.name \notin {"message_stop", "error"},
         ~(IsStart(e) /\ e.kind = "tool_use"),
         IsDelta(e) => e.delta = "signature_delta"
  PROVE  Outcome(c, fs, ChatEncode(c, e), Append(s, e), ChatAggregate(h, e))
<1> DEFINE t == Append(s, e)
           d == ChatEncode(c, e)
           k == ChatAggregate(h, e)
           told == e.name = "message_delta"
           r == IF told THEN e.stop_reason ELSE h.stopReason
           u == IF told THEN e.usage ELSE h.usage
<1>1. /\ EndEvents(s) = {} /\ IsChatEncoder(c) /\ IsSequence(fs)
      /\ Ordered(c, fs) /\ Announced(c, fs)
      /\ Alike(c, fs, h) /\ Indexed(s, h) /\ Billed(s, h.usage)
  BY LiveIs
<1>2. /\ h = [text |-> h.text, reasoning |-> h.reasoning, tools |-> h.tools,
              toolByBlk |-> h.toolByBlk, stopReason |-> h.stopReason, usage |-> h.usage]
      /\ c.stopReason = h.stopReason /\ c.usage = h.usage
  BY <1>1 DEF Alike
<1>3. k = [text |-> h.text, reasoning |-> h.reasoning, tools |-> h.tools,
           toolByBlk |-> h.toolByBlk, stopReason |-> r, usage |-> u]
  <2>1. CASE told
    <3>1. k = [h EXCEPT !.stopReason = r, !.usage = u]
      BY <2>1 DEF ChatAggregate, IsStart, IsDelta
    <3> HIDE DEF k, r, u
    <3> QED
      BY <1>2, <3>1
  <2>2. CASE ~told
    <3>1. k = h
      BY <2>2 DEF ChatAggregate, AggDelta
    <3>2. r = h.stopReason /\ u = h.usage
      BY <2>2
    <3> HIDE DEF k, r, u
    <3> QED
      BY <1>2, <3>1, <3>2
  <2> QED
    BY <2>1, <2>2
<1>4. /\ IsChatEncoder(d) /\ d.frames = c.frames
      /\ d.started = c.started /\ d.toolIndex = c.toolIndex /\ d.curTool = c.curTool
      /\ d.finished = c.finished /\ d.hasError = c.hasError
      /\ d.stopReason = r /\ d.usage = u
  <2>1. CASE told
    <3>1. d = [c EXCEPT !.stopReason = r, !.usage = u]
      BY <2>1 DEF ChatEncode, IsStart, IsDelta
    <3> HIDE DEF d, r, u
    <3> QED
      BY <1>1, <3>1 DEF IsChatEncoder, ChatFields
  <2>2. CASE ~told
    <3>1. d = c
      BY <2>2 DEF ChatEncode, ChatDelta
    <3>2. r = h.stopReason /\ u = h.usage
      BY <2>2
    <3> HIDE DEF d, r, u
    <3> QED
      BY <1>1, <1>2, <3>1, <3>2
  <2> QED
    BY <2>1, <2>2
<1>5. IF e.name = "message_delta" THEN u = e.usage ELSE u = h.usage
  OBVIOUS
<1> HIDE DEF d, t, k, r, u
<1>6. ~Silenced(d)
  BY <1>4 DEF Silenced
<1>7. Ordered(d, fs)
  BY <1>1, <1>4, <1>6 DEF Ordered, StartedIff, Silenced
<1>8. Announced(d, fs)
  BY <1>1, <1>4 DEF Announced
<1>9. Alike(d, fs, k)
  BY <1>1, <1>3, <1>4 DEF Alike
<1>10. Indexed(t, k)
  <2>1. k.toolByBlk = h.toolByBlk /\ Len(k.tools) = Len(h.tools)
    BY <1>3
  <2> QED
    BY <1>1, <2>1, IndexedKept DEF t
<1>11. Billed(t, k.usage)
  <2>1. k.usage = u
    BY <1>3
  <2>2. Billed(t, u)
    BY <1>1, <1>5, BilledAfter DEF t
  <2> QED
    BY <2>1, <2>2
<1>12. Coded(t, d, fs, k)
  BY <1>1, <1>4, <1>6, <1>7, <1>8, <1>9, <1>10, <1>11, StillLive DEF t
<1>13. IsSequence(<<>>) /\ d.frames = c.frames \o <<>> /\ fs \o <<>> = fs
  <2>1. IsSequence(c.frames)
    BY <1>1 DEF IsChatEncoder
  <2> QED
    BY <1>1, <1>4, <2>1, ShortSequences, EmptyConcatenation
<1> QED
  BY <1>12, <1>13 DEF Outcome, t, d, k

LEMMA SilentCoded ==
  ASSUME NEW s \in Seq(Event), NEW c, NEW fs, NEW h, Coded(s, c, fs, h), Silenced(c),
         NEW e \in Event, \A i \in 1..Len(s) : s[i].name # "message_stop"
  PROVE  Outcome(c, fs, ChatEncode(c, e), Append(s, e), ChatAggregate(h, e))
<1> DEFINE t == Append(s, e)
           k == ChatAggregate(h, e)
<1>1. /\ Len(t) = Len(s) + 1 /\ \A i \in 1..Len(s) : t[i] = s[i]
      /\ Len(s) \in Nat
  BY AppendSeq
<1>2. ChatEncode(c, e) = c
  BY SilentForGood
<1>3. c.hasError /\ ~c.finished
  BY DEF Coded, Silenced
<1>4. PICK i \in 1..Len(s) : s[i].name = "error"
  BY <1>3 DEF Coded
<1> HIDE DEF t, k
<1>5. i \in 1..Len(t) /\ i \in 1..(Len(t) - 1) /\ t[i].name = "error"
  BY <1>1, <1>4
<1>6. Coded(t, c, fs, k)
  BY <1>3, <1>5 DEF Coded, Clean
<1>7. IsSequence(<<>>) /\ c.frames = c.frames \o <<>> /\ fs \o <<>> = fs
  BY ShortSequences, EmptyConcatenation DEF Coded, IsChatEncoder
<1> QED
  BY <1>2, <1>6, <1>7 DEF Outcome, t, k

LEMMA StopCoded ==
  ASSUME NEW s \in Seq(Event), NEW c, NEW fs, NEW h, Coded(s, c, fs, h), ~Silenced(c),
         NEW e \in Event, e.name = "message_stop"
  PROVE  Outcome(c, fs, ChatEncode(c, e), Append(s, e), ChatAggregate(h, e))
<1> DEFINE t == Append(s, e)
           n == Len(s) + 1
           r == ChatFinishReason(c.stopReason)
           u == ChatUsageFrom(c.usage)
           end == FinalFrames(r, u)
           w == WithRole(c, end)
           d == [w EXCEPT !.finished = TRUE]
           fs0 == Declared(c, fs)
           m == Len(fs0)
           all == fs0 \o end
<1>1. /\ EndEvents(s) = {} /\ IsChatEncoder(c) /\ IsSequence(fs)
      /\ Ordered(c, fs) /\ Announced(c, fs)
      /\ Alike(c, fs, h) /\ Indexed(s, h) /\ Billed(s, h.usage)
  BY LiveIs
<1>2. ChatEncode(c, e) = d /\ ChatAggregate(h, e) = h /\ ~IsStart(e) /\ e.name # "message_delta"
  BY DEF ChatEncode, ChatAggregate, IsStart, IsDelta, FinishFrames, FinalFrames
<1>3. /\ IsSequence(end) /\ Len(end) = 3
      /\ end[1] = FinishFrame(r) /\ end[2] = UsageFrame(u) /\ end[3] = DoneFrame
  <2>1. \A x, y, z : /\ <<x, y, z>> \in Seq({x, y, z}) /\ Len(<<x, y, z>>) = 3
                     /\ <<x, y, z>>[1] = x /\ <<x, y, z>>[2] = y /\ <<x, y, z>>[3] = z
    OBVIOUS
  <2> QED
    BY <2>1 DEF FinalFrames, IsSequence
<1> HIDE DEF end
<1>4. \A i \in 1..Len(end) : /\ end[i].frame # "role"
                             /\ end[i].frame \notin {"content", "reasoning", "tool", "arguments"}
  <2>1. \A i \in 1..Len(end) : i = 1 \/ i = 2 \/ i = 3
    BY <1>3
  <2> QED
    BY <1>3, <2>1 DEF FinishFrame, UsageFrame, DoneFrame
<1>5. /\ IsSequence(fs0) /\ fs0 # <<>> /\ m > 0 /\ RoleFirst(fs0) /\ Unended(fs0, m)
      /\ Announced(c, fs0) /\ Alike(c, fs0, h)
  BY <1>1, DeclaredIs, DeclaredKeeps
<1>6. StartedIff(c, fs)
  BY <1>1 DEF Ordered
<1> HIDE DEF fs0, w
<1>7. /\ IsChatEncoder(w) /\ w.started = TRUE /\ SameState(c, w)
      /\ \E g : IsSequence(g) /\ w.frames = c.frames \o g /\ fs \o g = all
  <2>1. AfterRole(c, fs, end, WithRole(c, end))
    BY ONLY <1>1, <1>3, <1>6, WithRoleAdds
  <2> QED
    BY <2>1 DEF AfterRole, fs0, w
<1>8. /\ IsChatEncoder(d) /\ d.started = TRUE /\ d.frames = w.frames /\ d.finished = TRUE
      /\ d.toolIndex = w.toolIndex /\ d.curTool = w.curTool /\ d.hasError = w.hasError
      /\ d.stopReason = w.stopReason /\ d.usage = w.usage
  BY <1>7 DEF IsChatEncoder, ChatFields
<1>9. ~c.hasError
  BY DEF Silenced
<1> HIDE DEF d
<1>10. /\ d.toolIndex = c.toolIndex /\ d.curTool = c.curTool
       /\ d.stopReason = c.stopReason /\ d.usage = c.usage /\ ~d.hasError
  BY <1>7, <1>8, <1>9 DEF SameState
<1>11. \E g : IsSequence(g) /\ d.frames = c.frames \o g /\ fs \o g = all
  BY <1>7, <1>8
<1>12. /\ IsSequence(all) /\ Len(all) = m + 3 /\ m \in Nat
       /\ \A i \in 1..m : all[i] = fs0[i]
       /\ all[m + 1] = FinishFrame(r) /\ all[m + 2] = UsageFrame(u) /\ all[m + 3] = DoneFrame
  <2>1. 1 \in 1..Len(end) /\ 2 \in 1..Len(end) /\ 3 \in 1..Len(end)
    BY <1>3
  <2>2. /\ IsSequence(all) /\ Len(all) = m + Len(end)
        /\ \A i \in 1..m : all[i] = fs0[i]
        /\ \A i \in 1..Len(end) : all[m + i] = end[i]
    <3>1. IsSequence(fs0) /\ IsSequence(end)
      BY <1>3, <1>5
    <3> QED
      BY ONLY <3>1, Concatenation DEF all, m
  <2>3. m \in Nat
    BY <1>5, SequenceLen
  <2> HIDE DEF all, m
  <2> QED
    BY <1>3, <2>1, <2>2, <2>3
<1>13. RoleFirst(all) /\ all # <<>>
  BY <1>3, <1>4, <1>5, RoleStays
<1>14. Announced(c, fs0) /\ SameTexts(fs0, "content", h.text) /\ SameTexts(fs0, "reasoning", h.reasoning)
  BY <1>5 DEF Alike
<1>15. /\ SameTexts(all, "content", h.text) /\ SameTexts(all, "reasoning", h.reasoning)
  BY <1>3, <1>4, <1>5, <1>14, TextsApart
<1>16. /\ Announced(w, all) /\ \A tools : WholeInputs(fs0, tools) => WholeInputs(all, tools)
  <2>1. \A i \in 1..Len(end) : end[i].frame \notin {"tool", "arguments"}
    BY <1>4
  <2>2. /\ \A x, y : Announced(x, fs0) /\ SameState(x, y) => Announced(y, all)
        /\ \A tools : WholeInputs(fs0, tools) => WholeInputs(all, tools)
    BY ONLY <1>3, <1>5, <2>1, NoToolKeeps DEF all
  <2> QED
    BY <1>5, <1>7, <2>2
<1>17. Announced(d, all)
  BY <1>8, <1>16 DEF Announced
<1> HIDE DEF all, m
<1>18. Alike(d, all, h)
  BY <1>5, <1>10, <1>15, <1>16 DEF Alike
<1>19. Ordered(d, all)
  <2>1. StartedIff(d, all)
    BY <1>8, <1>13 DEF StartedIff
  <2>2. Silenced(d)
    BY <1>8 DEF Silenced
  <2>3. Len(all) > 3 /\ Len(all) - 3 = m /\ Len(all) - 2 = m + 1 /\ Len(all) - 1 = m + 2
    BY <1>5, <1>12
  <2>4. Unended(all, m)
    BY <1>5, <1>12 DEF Unended
  <2> QED
    BY <1>8, <1>10, <1>12, <1>13, <2>1, <2>2, <2>3, <2>4 DEF Ordered
<1>20. /\ t[n] = e /\ Len(t) = n /\ n \in 1..Len(t)
  BY AppendSeq
<1> HIDE DEF t
<1>21. Indexed(t, h)
  BY <1>1, <1>2, IndexedKept DEF t
<1>22. Billed(t, h.usage)
  BY <1>1, <1>2, BilledAfter DEF t
<1>23. Coded(t, d, all, h)
  <2>1. Silenced(d)
    BY <1>8 DEF Silenced
  <2> QED
    BY <1>8, <1>10, <1>12, <1>17, <1>18, <1>19, <1>20, <1>21, <1>22, <2>1 DEF Coded
<1> QED
  BY <1>2, <1>11, <1>23 DEF Outcome, t

LEMMA ErrorCoded ==
  ASSUME NEW s \in Seq(Event), NEW c, NEW fs, NEW h, Coded(s, c, fs, h), ~Silenced(c),
         NEW e \in Event, e.name = "error"
  PROVE  Outcome(c, fs, ChatEncode(c, e), Append(s, e), ChatAggregate(h, e))
<1> DEFINE t == Append(s, e)
           n == Len(s) + 1
           f == ErrorFrame(e.message)
           b == [c EXCEPT !.hasError = TRUE]
           g == IF c.started THEN <<f>> ELSE <<>>
           d == Returning(b, g)
           m == Len(fs)
           all == fs \o g
<1>1. /\ EndEvents(s) = {} /\ IsChatEncoder(c) /\ IsSequence(fs)
      /\ Ordered(c, fs) /\ Announced(c, fs)
      /\ Alike(c, fs, h) /\ Indexed(s, h) /\ Billed(s, h.usage)
  BY LiveIs
<1>2. ChatEncode(c, e) = d /\ ChatAggregate(h, e) = h /\ ~IsStart(e) /\ e.name # "message_delta"
  BY DEF ChatEncode, ChatAggregate, IsStart, IsDelta, ErrorFrames
<1>3. f.frame = "error"
  BY DEF ErrorFrame
<1> HIDE DEF f
<1>4. /\ IsSequence(g) /\ \A i \in 1..Len(g) : g[i].frame = "error"
      /\ c.started => Len(g) = 1 /\ g[1] = f
      /\ ~c.started => g = <<>>
  BY <1>3, ShortSequences
<1>5. /\ IsChatEncoder(b) /\ b.frames = c.frames /\ SameState([c EXCEPT !.hasError = TRUE], b)
      /\ b.toolIndex = c.toolIndex /\ b.curTool = c.curTool /\ b.finished = c.finished
      /\ b.stopReason = c.stopReason /\ b.usage = c.usage /\ b.started = c.started
      /\ b.hasError = TRUE
  BY <1>1 DEF IsChatEncoder, ChatFields, SameState
<1> HIDE DEF b, g, t, d
<1>6. /\ IsChatEncoder(d) /\ d.frames = b.frames \o g /\ SameState(b, d) /\ d.started = b.started
  BY <1>4, <1>5, ReturningAdds DEF d
<1>7. /\ d.toolIndex = c.toolIndex /\ d.curTool = c.curTool
      /\ d.stopReason = c.stopReason /\ d.usage = c.usage /\ d.hasError = TRUE
      /\ d.started = c.started /\ ~d.finished /\ d.frames = c.frames \o g
  BY <1>5, <1>6 DEF SameState, Silenced
<1>8. \A i \in 1..Len(g) : /\ g[i].frame # "role"
                           /\ g[i].frame \notin {"content", "reasoning", "tool", "arguments"}
  BY <1>4
<1>9. SameTexts(all, "content", h.text) /\ SameTexts(all, "reasoning", h.reasoning)
  BY <1>1, <1>4, <1>8, TextsApart DEF Alike
<1>10. Announced(c, all) /\ WholeInputs(all, h.tools)
  <2>1. \A i \in 1..Len(g) : g[i].frame \notin {"tool", "arguments"}
    BY <1>8
  <2>2. /\ \A x, y : Announced(x, fs) /\ SameState(x, y) => Announced(y, all)
        /\ \A tools : WholeInputs(fs, tools) => WholeInputs(all, tools)
    BY ONLY <1>1, <1>4, <2>1, NoToolKeeps DEF all
  <2>3. SameState(c, c)
    BY DEF SameState
  <2> QED
    BY <1>1, <2>2, <2>3 DEF Alike
<1>11. Announced(d, all)
  BY <1>7, <1>10 DEF Announced
<1>12. Alike(d, all, h)
  BY <1>1, <1>7, <1>9, <1>10 DEF Alike
<1>13. IsSequence(all)
  BY <1>1, <1>4, Concatenation
<1>14. Ordered(d, all)
  <2>1. CASE c.started
    <3>1. fs # <<>> /\ RoleFirst(fs) /\ Unended(fs, m)
      BY <1>1, <2>1 DEF Ordered, StartedIff
    <3>2. RoleFirst(all) /\ all # <<>>
      BY <1>1, <1>4, <1>8, <3>1, RoleStays
    <3>3. /\ Len(all) = m + Len(g) /\ m \in Nat
          /\ \A i \in 1..m : all[i] = fs[i]
          /\ \A i \in 1..Len(g) : all[m + i] = g[i]
      BY <1>1, <1>4, Concatenation, SequenceLen
    <3> HIDE DEF all, m
    <3>0. Len(g) = 1 /\ g[1] = f /\ 1 \in 1..Len(g)
      BY <1>4, <2>1
    <3>4. Len(all) = m + 1 /\ all[m + 1] = f /\ Len(all) - 1 = m
      BY <3>0, <3>3
    <3>5. Unended(all, m)
      BY <3>1, <3>3 DEF Unended
    <3>6. StartedIff(d, all) /\ Silenced(d)
      BY <1>7, <2>1, <3>2 DEF StartedIff, Silenced
    <3> QED
      BY <1>3, <1>7, <3>2, <3>4, <3>5, <3>6 DEF Ordered
  <2>2. CASE ~c.started
    <3>1. fs = <<>> /\ all = <<>>
      BY <1>1, <1>4, <2>2, EmptyConcatenation, ShortSequences DEF Ordered, StartedIff
    <3>2. Len(all) = 0
      BY <3>1, ShortSequences
    <3> HIDE DEF all
    <3>3. StartedIff(d, all) /\ Silenced(d)
      BY <1>7, <2>2, <3>1 DEF StartedIff, Silenced
    <3> QED
      BY <1>7, <3>1, <3>2, <3>3 DEF Ordered, RoleFirst, Unended
  <2> QED
    BY <2>1, <2>2
<1>15. /\ t[n] = e /\ Len(t) = n /\ n \in 1..Len(t)
  BY AppendSeq DEF t
<1> HIDE DEF all, m
<1>16. Indexed(t, h)
  BY <1>1, <1>2, IndexedKept DEF t
<1>17. Billed(t, h.usage)
  BY <1>1, <1>2, BilledAfter DEF t
<1>18. Coded(t, d, all, h)
  <2>1. Silenced(d)
    BY <1>7 DEF Silenced
  <2> QED
    BY <1>6, <1>7, <1>11, <1>12, <1>13, <1>14, <1>15, <1>16, <1>17, <2>1 DEF Coded
<1> QED
  BY <1>2, <1>4, <1>7, <1>18 DEF Outcome, t, all

\* A well-formed stream is encoded and aggregated event by event.
LEMMA EventCoded ==
  ASSUME NEW s \in Seq(Event), NEW c, NEW fs, NEW h, Coded(s, c, fs, h),
         NEW e \in Event, Disciplined(Append(s, e)), Numbered(Append(s, e)),
         \A i \in 1..Len(s) : s[i].name # "message_stop",
         IsDelta(e) /\ e.delta # "signature_delta" =>
           /\ e.payload = <<e.payload[1]>>
           /\ e.delta = "input_json_delta" => e.payload[1] \in JSONTexts,
         NEW m \in Nat, Blocks(s, m)
  PROVE  Outcome(c, fs, ChatEncode(c, e), Append(s, e), ChatAggregate(h, e))
<1>1. CASE Silenced(c)
  BY <1>1, SilentCoded
<1>2. CASE ~Silenced(c) /\ e.name = "error"
  BY <1>2, ErrorCoded
<1>3. CASE ~Silenced(c) /\ e.name = "message_stop"
  BY <1>3, StopCoded
<1>4. CASE ~Silenced(c) /\ IsStart(e) /\ e.kind = "tool_use"
  BY <1>4, ToolCoded
<1>5. CASE ~Silenced(c) /\ IsDelta(e) /\ e.delta \in {"text_delta", "thinking_delta"}
  BY <1>5, ChunkCoded
<1>6. CASE ~Silenced(c) /\ IsDelta(e) /\ e.delta = "input_json_delta"
  BY <1>6, InputCoded
<1>7. CASE /\ ~Silenced(c) /\ e.name \notin {"error", "message_stop"}
           /\ ~(IsStart(e) /\ e.kind = "tool_use")
           /\ IsDelta(e) => e.delta = "signature_delta"
  BY <1>7, QuietCoded
<1>8. IsDelta(e) => e.delta \in {"text_delta", "thinking_delta", "signature_delta", "input_json_delta"}
  BY DEF Event, IsDelta
<1> QED
  BY <1>1, <1>2, <1>3, <1>4, <1>5, <1>6, <1>7, <1>8

\* Before the first event.
LEMMA NewCoded ==
  LET c == ChatEncode(NewChatEncoder, MessageStart)
  IN /\ Coded(<<MessageStart>>, c, c.frames, ChatAggregate(NewChatAggregator, MessageStart))
     /\ c.frames = <<>>
<1> DEFINE s == <<MessageStart>>
           c == NewChatEncoder
           h == NewChatAggregator
<1>1. s \in Seq(Event) /\ Len(s) = 1 /\ s[1] = MessageStart
  BY EventTypes, SingletonSeq
<1>2. /\ ~IsStart(s[1]) /\ ~IsDelta(s[1]) /\ s[1].name = "message_start"
  BY <1>1 DEF IsStart, IsDelta, MessageStart
<1>3. ChatEncode(c, MessageStart) = c /\ ChatAggregate(h, MessageStart) = h
  BY DEF ChatEncode, ChatAggregate, IsStart, IsDelta, MessageStart
<1> HIDE DEF s
<1>4. IsChatEncoder(c) /\ c.frames = <<>> /\ ~Silenced(c) /\ IsSequence(<<>>) /\ Len(<<>>) = 0
  BY NewChatEncoderType, ShortSequences DEF NewChatEncoder, Silenced
<1>5. Ordered(c, <<>>)
  BY <1>4 DEF Ordered, StartedIff, RoleFirst, Unended, Silenced, NewChatEncoder
<1>6. \A kind : Positions(<<>>, kind) = {}
  BY <1>4 DEF Positions
<1>7. Cardinality({}) = 0
  BY FS_EmptySet
<1>12. c.toolIndex = 0 /\ c.curTool = 0
  BY DEF NewChatEncoder
<1> HIDE DEF c
<1>8. Announced(c, <<>>)
  <2>1. ToolsAnnounced(<<>>)
    BY <1>6 DEF ToolsAnnounced
  <2>2. Cardinality(Positions(<<>>, "tool")) = 0
    BY <1>6, <1>7
  <2> QED
    BY <1>12, <2>1, <2>2 DEF Announced
<1>9. Alike(c, <<>>, h)
  <2>1. WholeInputs(<<>>, <<>>) /\ \A kind : SameTexts(<<>>, kind, <<>>)
    <3> DEFINE none == <<>>
    <3>1. Len(none) = 0 /\ \A kind : Positions(none, kind) = {}
      BY <1>4, <1>6
    <3> HIDE DEF none
    <3>2. \A kind : Cardinality(Positions(none, kind)) = 0
      BY <1>7, <3>1
    <3>3. WholeInputs(none, none) /\ \A kind : SameTexts(none, kind, none)
      BY <3>1, <3>2 DEF WholeInputs, SameTexts
    <3> QED
      BY <3>3 DEF none
  <2> QED
    BY <1>4, <2>1 DEF Alike, NewChatAggregator, NewChatEncoder, c
<1>10. Indexed(s, h) /\ Billed(s, h.usage) /\ EndEvents(s) = {}
  BY <1>1, <1>2 DEF Indexed, ToolStarts, Starts, Billed, EndEvents
<1>11. Coded(s, c, <<>>, h)
  BY <1>4, <1>5, <1>8, <1>9, <1>10 DEF Coded, Silenced
<1> QED
  BY <1>3, <1>4, <1>11 DEF s, c

---------------------------------------------------------------------------
(* From events to calls. *)

\* What the translator guarantees of its stream, as far as its consumers need it.
Good(s) ==
  /\ Disciplined(s) /\ Numbered(s) /\ Plain(s)
  /\ \A i \in 1..(Len(s) - 1) : s[i].name # "message_stop"

\* The three consumers x have taken in stream s; the encoder returned old before.
Mirror(s, old, x) ==
  Aggregated(s, x.agg) /\ Coded(s, x.enc, old \o x.enc.frames, x.chat)

LEMMA GoodPrefix ==
  ASSUME NEW s \in Seq(Event), NEW a \in Seq(Event), Len(a) <= Len(s),
         \A i \in 1..Len(a) : a[i] = s[i], Good(s)
  PROVE  Good(a)
<1>1. Len(a) \in Nat /\ Len(s) \in Nat
  OBVIOUS
<1>2. \A i \in 1..Len(a) : i \in 1..Len(s) /\ \A j \in 1..(i - 1) : j \in 1..Len(a)
  BY <1>1
<1>3. ASSUME NEW i \in 1..Len(a), NEW j \in 1..(i - 1)
      PROVE  OpenUntil(a, j, i) <=> OpenUntil(s, j, i)
  <2>1. a[j] = s[j] /\ \A k \in (j + 1)..(i - 1) : k \in 1..Len(a)
    BY <1>1, <1>2
  <2>2. \A k \in (j + 1)..(i - 1) : a[k] = s[k]
    BY <2>1
  <2> QED
    BY <2>1, <2>2 DEF OpenUntil
<1>4. ASSUME NEW i \in 1..Len(a)
      PROVE  /\ IsDelta(a[i]) => DeltaIsOfOpenBlock(a, i)
             /\ IsStop(a[i])  => StopIsOfOpenBlock(a, i)
             /\ IsStart(a[i]) => NothingOpenBefore(a, i)
             /\ IsStart(a[i]) => FollowsPrevious(a, i)
  <2>1. i \in 1..Len(s) /\ a[i] = s[i] /\ \A j \in 1..(i - 1) : a[j] = s[j]
    BY <1>2
  <2>2. IsDelta(a[i]) => DeltaIsOfOpenBlock(a, i)
    BY <1>3, <2>1 DEF Good, Disciplined, DeltaIsOfOpenBlock
  <2>3. IsStop(a[i]) => StopIsOfOpenBlock(a, i)
    BY <1>3, <2>1 DEF Good, Disciplined, StopIsOfOpenBlock
  <2>4. IsStart(a[i]) => NothingOpenBefore(a, i)
    BY <1>3, <2>1 DEF Good, Disciplined, NothingOpenBefore
  <2>5. IsStart(a[i]) => FollowsPrevious(a, i)
    BY <2>1 DEF Good, Numbered, FollowsPrevious
  <2> QED
    BY <2>2, <2>3, <2>4, <2>5
<1>5. Disciplined(a) /\ Numbered(a)
  BY <1>4 DEF Disciplined, Numbered
<1>6. Plain(a)
  BY <1>2 DEF Good, Plain
<1>7. \A i \in 1..(Len(a) - 1) : a[i].name # "message_stop"
  <2> TAKE i \in 1..(Len(a) - 1)
  <2>1. i \in 1..Len(a) /\ i \in 1..(Len(s) - 1)
    BY <1>1
  <2> QED
    BY <2>1 DEF Good
<1> QED
  BY <1>5, <1>6, <1>7 DEF Good

LEMMA EventMirrored ==
  ASSUME NEW s \in Seq(Event), NEW e \in Event, Good(Append(s, e)),
         NEW old, IsSequence(old), NEW x, Mirror(s, old, x)
  PROVE  Mirror(Append(s, e), old, Deliver(x, e))
<1> DEFINE t == Append(s, e)
           n == Len(s) + 1
           a == x.agg
           c == x.enc
           h == x.chat
           fs == old \o c.frames
           d == ChatEncode(c, e)
           b == AggregateFeed(a, e)
           k == ChatAggregate(h, e)
           y == Deliver(x, e)
           m == Len(a.content)
<1>1. /\ Len(t) = n /\ t[n] = e /\ \A i \in 1..Len(s) : t[i] = s[i]
      /\ Len(s) \in Nat /\ n \in 1..Len(t)
  BY AppendSeq
<1>2. /\ Disciplined(t) /\ Numbered(t) /\ Plain(t)
      /\ \A i \in 1..(Len(t) - 1) : t[i].name # "message_stop"
  BY DEF Good
<1>3. y.agg = b /\ y.enc = d /\ y.chat = k
  BY DEF Deliver
<1>4. Aggregated(s, a) /\ Coded(s, c, fs, h)
  BY DEF Mirror
<1> HIDE DEF y, b, d, k
<1>5. IsDelta(e) /\ e.delta # "signature_delta" =>
        /\ e.payload = <<e.payload[1]>>
        /\ e.delta = "input_json_delta" => e.payload[1] \in JSONTexts
  BY <1>1, <1>2 DEF Plain
<1>6. \A i \in 1..Len(s) : s[i].name # "message_stop"
  BY <1>1, <1>2
<1> HIDE DEF a, c, h, fs, m
<1>7. m \in Nat /\ Blocks(s, m)
  BY <1>4, SequenceLen DEF Aggregated, BlocksOf, m
<1>8. Aggregated(t, b)
  BY <1>2, <1>4, <1>5, EventAggregated DEF b
<1>9. Outcome(c, fs, d, t, k)
  BY <1>2, <1>4, <1>5, <1>6, <1>7, EventCoded DEF d, k
<1> HIDE DEF t
<1>10. Coded(t, d, old \o d.frames, k)
  <2>1. PICK g : IsSequence(g) /\ d.frames = c.frames \o g /\ Coded(t, d, fs \o g, k)
    BY <1>9 DEF Outcome
  <2> DEFINE r == c.frames
  <2>2. IsSequence(r)
    BY <1>4 DEF Coded, IsChatEncoder
  <2>3. fs = old \o r
    BY DEF fs
  <2> HIDE DEF r
  <2>4. (old \o r) \o g = old \o (r \o g)
    BY ONLY <2>1, <2>2, IsSequence(old), IsSequence(g), ConcatenationAssociates
  <2>5. fs \o g = old \o d.frames
    BY <2>1, <2>3, <2>4 DEF r
  <2> QED
    BY <2>1, <2>5
<1>11. Mirror(t, old, y)
  BY <1>3, <1>8, <1>10 DEF Mirror
<1> QED
  BY <1>11 DEF t, y

\* The first n events of t after stream s.
LEMMA OneMore ==
  ASSUME NEW s \in Seq(Event), NEW t \in Seq(Event), NEW n \in Nat, n < Len(t)
  PROVE  /\ s \o SubSeq(t, 1, n) \in Seq(Event)
         /\ s \o SubSeq(t, 1, n + 1) = Append(s \o SubSeq(t, 1, n), t[n + 1])
         /\ s \o SubSeq(t, 1, n + 1) \in Seq(Event)
         /\ Len(s \o SubSeq(t, 1, n + 1)) <= Len(s \o t)
         /\ \A i \in 1..Len(s \o SubSeq(t, 1, n + 1)) : (s \o SubSeq(t, 1, n + 1))[i] = (s \o t)[i]
<1> DEFINE p == SubSeq(t, 1, n)
           q == SubSeq(t, 1, n + 1)
           e == t[n + 1]
<1>1. /\ p \in Seq(Event) /\ q \in Seq(Event) /\ e \in Event
      /\ Len(p) = n /\ Len(q) = n + 1 /\ \A i \in 1..n : p[i] = t[i]
      /\ \A i \in 1..(n + 1) : q[i] = t[i]
  OBVIOUS
<1> HIDE DEF p, q, e
<1>2. q = Append(p, e)
  <2> DEFINE r == Append(p, e)
  <2>1. r \in Seq(Event) /\ Len(r) = n + 1 /\ r[n + 1] = e /\ \A i \in 1..n : r[i] = p[i]
    BY <1>1, AppendSeq
  <2> HIDE DEF r
  <2>2. \A i \in 1..(n + 1) : r[i] = q[i]
    <3> SUFFICES ASSUME NEW i \in 1..(n + 1) PROVE r[i] = q[i]
      OBVIOUS
    <3>1. q[i] = t[i]
      BY <1>1
    <3>2. CASE i = n + 1
      BY <2>1, <3>1, <3>2 DEF e
    <3>3. CASE i \in 1..n
      BY <1>1, <2>1, <3>1, <3>3
    <3> QED
      BY <3>2, <3>3
  <2>3. r \in Seq(Event) /\ q \in Seq(Event) /\ Len(r) = Len(q) /\ Len(r) = n + 1
    BY <1>1, <2>1
  <2>4. \A i \in 1..Len(r) : r[i] = q[i]
    BY <2>2, <2>3
  <2>5. r = q
    BY ONLY <2>3, <2>4, SeqEqual
  <2> QED
    BY <2>5 DEF r
<1>3. s \o Append(p, e) = Append(s \o p, e)
  BY <1>1
<1>4. s \o p \in Seq(Event) /\ s \o q \in Seq(Event) /\ s \o t \in Seq(Event)
  BY <1>1
<1>5. /\ Len(s \o q) = Len(s) + n + 1 /\ Len(s \o t) = Len(s) + Len(t)
  BY <1>1
<1>6. ASSUME NEW i \in 1..Len(s \o q) PROVE (s \o q)[i] = (s \o t)[i]
  BY <1>1, <1>5
<1>7. Len(s \o q) <= Len(s \o t)
  BY <1>5
<1>8. s \o q = Append(s \o p, e)
  BY <1>2, <1>3
<1> QED
  BY <1>4, <1>6, <1>7, <1>8 DEF p, q, e

\* What holds of the consumers before a call holds after it.
LEMMA CallMirrored ==
  ASSUME NEW s \in Seq(Event), NEW t \in Seq(Event), Good(s \o t),
         NEW old, IsSequence(old), NEW x, Mirror(s, old, x)
  PROVE  Mirror(s \o t, old, Delivered(x, t))
<1>1. IsSequence(t) /\ Len(t) \in Nat
  BY DEF IsSequence
<1>2. PICK f : IsDelivery(f, x, t) /\ Delivered(x, t) = f[Len(t)]
  BY <1>1, DeliveredIs
<1> DEFINE p(n) == s \o SubSeq(t, 1, n)
           S == {n \in Nat : n <= Len(t) => Mirror(p(n), old, f[n])}
<1>3. 0 \in S
  <2>1. SubSeq(t, 1, 0) = <<>> /\ s \o <<>> = s
    OBVIOUS
  <2>2. p(0) = s
    BY <2>1
  <2>3. f[0] = x
    BY <1>2 DEF IsDelivery
  <2> HIDE DEF p
  <2> QED
    BY <2>2, <2>3
<1>4. ASSUME NEW n \in Nat, n \in S PROVE n + 1 \in S
  <2> SUFFICES ASSUME n + 1 <= Len(t) PROVE Mirror(p(n + 1), old, f[n + 1])
    OBVIOUS
  <2> DEFINE a == p(n)
             b == p(n + 1)
             e == t[n + 1]
             y == f[n]
             u == s \o t
  <2>1. n < Len(t) /\ n + 1 \in 1..Len(t)
    BY <1>1
  <2>2. /\ a \in Seq(Event) /\ b = Append(a, e) /\ b \in Seq(Event)
        /\ Len(b) <= Len(u) /\ \A i \in 1..Len(b) : b[i] = u[i]
    BY <2>1, OneMore
  <2>3. e \in Event /\ u \in Seq(Event)
    BY <2>1
  <2>4. f[n + 1] = Deliver(y, e)
    <3>1. f[n + 1] = Deliver(f[(n + 1) - 1], t[n + 1])
      BY <1>2, <2>1 DEF IsDelivery
    <3> QED
      BY <3>1
  <2>5. Mirror(a, old, y)
    BY <1>1, <1>4
  <2> HIDE DEF a, b, e, y, u
  <2>6. Good(b)
    BY <2>2, <2>3, GoodPrefix DEF u
  <2>7. Mirror(b, old, Deliver(y, e))
    BY <2>2, <2>3, <2>5, <2>6, EventMirrored
  <2> QED
    BY <2>4, <2>7 DEF b
<1> HIDE DEF S
<1>5. Len(t) \in S
  BY <1>1, <1>3, <1>4, Induction
<1>6. SubSeq(t, 1, Len(t)) = t
  BY SubSeqFull
<1>7. p(Len(t)) = s \o t
  BY <1>6
<1>8. Mirror(p(Len(t)), old, f[Len(t)])
  BY <1>1, <1>5 DEF S
<1> HIDE DEF p
<1> QED
  BY <1>2, <1>7, <1>8

---------------------------------------------------------------------------
(* What the translator tells of errors and tokens. *)

LEMMA PlainMore ==
  ASSUME NEW s \in Seq(Event), Plain(s), NEW e \in Event,
         IsDelta(e) /\ e.delta # "signature_delta" =>
           /\ e.payload = <<e.payload[1]>>
           /\ e.delta = "input_json_delta" => e.payload[1] \in JSONTexts
  PROVE  Plain(Append(s, e)) /\ Append(s, e) \in Seq(Event)
<1> DEFINE t == Append(s, e)
<1>1. /\ t \in Seq(Event) /\ Len(t) = Len(s) + 1 /\ t[Len(s) + 1] = e
      /\ \A i \in 1..Len(s) : t[i] = s[i]
  BY AppendSeq
<1>2. Len(s) \in Nat
  OBVIOUS
<1> HIDE DEF t
<1>3. Plain(t)
  BY <1>1, <1>2 DEF Plain
<1> QED
  BY <1>1, <1>3 DEF t

LEMMA CloseBlockPlain == ASSUME TypeOK, Plain(out) PROVE Plain(CloseBlock(out))
<1> DEFINE signature == BlockDelta(openIndex, "signature_delta", thinkingText)
           stop == BlockStop(openIndex)
<1>1. /\ out \in Seq(Event) /\ openIndex \in Nat /\ openType \in {None, "text", "thinking"}
      /\ thinkingText \in Seq(Texts \cup JSONTexts)
  BY SeqOfSubset DEF TypeOK
<1>2. signature \in Event /\ stop \in Event
  BY <1>1, EventTypes
<1>3. ~IsDelta(stop) /\ signature.delta = "signature_delta"
  BY DEF IsDelta, BlockStop, BlockDelta
<1>4. CloseBlock(out) \in {out, Append(out, stop), Append(Append(out, signature), stop)}
  BY <1>1 DEF CloseBlock
<1> HIDE DEF signature, stop
<1>5. Plain(Append(out, stop))
  BY <1>1, <1>2, <1>3, PlainMore
<1>6. Plain(Append(out, signature)) /\ Append(out, signature) \in Seq(Event)
  BY <1>1, <1>2, <1>3, PlainMore
<1>7. Plain(Append(Append(out, signature), stop))
  BY <1>2, <1>3, <1>6, PlainMore
<1> QED
  BY <1>4, <1>5, <1>7

LEMMA InitPlain == Init => Plain(out)
<1> SUFFICES ASSUME Init PROVE Plain(out)
  OBVIOUS
<1>1. Len(out) = 1 /\ out[1] = MessageStart
  BY DEF Init
<1> QED
  BY <1>1 DEF Plain, IsDelta, MessageStart

LEMMA NextPlain == TypeOK /\ Plain(out) /\ Next => Plain(out')
<1> SUFFICES ASSUME TypeOK, Plain(out), Next PROVE Plain(out')
  OBVIOUS
<1>1. /\ out \in Seq(Event) /\ CloseBlock(out) \in Seq(Event)
      /\ nextIndex \in Nat /\ openIndex \in Nat /\ Plain(CloseBlock(out))
  BY CloseBlockType, CloseBlockPlain DEF TypeOK
<1>2. CASE \/ FeedIgnored \/ FeedErrorWithoutDetail
           \/ \E r \in Reasons \cup {None}, u \in OptionalUsage :
                FeedFinishStep(r, u) \/ FeedFinish(r, u)
  <2>1. out' = out
    BY <1>2, Zenon DEF FeedIgnored, FeedFinishStep, FeedFinish, FeedErrorWithoutDetail
  <2> QED
    BY <2>1
<1>3. ASSUME NEW kind \in {"text", "thinking"}, NEW text \in Texts, FeedDelta(kind, text)
      PROVE  Plain(out')
  <2> DEFINE a == BlockStart(nextIndex, kind)
             b == BlockDelta(nextIndex, DeltaOf(kind), <<text>>)
             c == BlockDelta(openIndex, DeltaOf(kind), <<text>>)
  <2>1. <<text>> \in Seq(Texts \cup JSONTexts) /\ <<text>>[1] = text
    BY SingletonSeq
  <2>2. a \in Event /\ b \in Event /\ c \in Event
    BY <1>1, <2>1, EventTypes DEF DeltaOf, Kinds
  <2>3. /\ ~IsDelta(a)
        /\ b.payload = <<b.payload[1]>> /\ b.delta # "input_json_delta"
        /\ c.payload = <<c.payload[1]>> /\ c.delta # "input_json_delta"
    BY DEF IsDelta, BlockStart, BlockDelta, DeltaOf
  <2>4. out' = Append(out, c) \/ out' = Append(Append(CloseBlock(out), a), b)
    BY <1>3, Zenon DEF FeedDelta
  <2> HIDE DEF a, b, c
  <2>5. Plain(Append(out, c))
    BY <1>1, <2>2, <2>3, PlainMore
  <2>6. Plain(Append(CloseBlock(out), a)) /\ Append(CloseBlock(out), a) \in Seq(Event)
    BY <1>1, <2>2, <2>3, PlainMore
  <2>7. Plain(Append(Append(CloseBlock(out), a), b))
    BY <2>2, <2>3, <2>6, PlainMore
  <2> QED
    BY <2>4, <2>5, <2>7
<1>4. ASSUME NEW input \in ToolInputs, FeedToolCall(input) PROVE Plain(out')
  <2> DEFINE j == PartialJSON(input)
             a == BlockStart(nextIndex, "tool_use")
             b == BlockDelta(nextIndex, "input_json_delta", <<j>>)
             c == BlockStop(nextIndex)
  <2>1. j \in JSONTexts
    BY PartialJSONType
  <2>8. a \in Event /\ c \in Event /\ ~IsDelta(a) /\ ~IsDelta(c)
    BY <1>1, EventTypes DEF Kinds, IsDelta, BlockStart, BlockStop
  <2>2. out' = Append(Append(Append(CloseBlock(out), a), b), c)
    BY <1>4 DEF FeedToolCall
  <2> HIDE DEF a, c, j
  <2>3. b \in Event /\ b.payload = <<b.payload[1]>> /\ b.payload[1] \in JSONTexts
    <3>1. <<j>> \in Seq(Texts \cup JSONTexts) /\ <<j>>[1] = j
      BY <2>1, SingletonSeq
    <3>2. b \in Event
      BY <1>1, <3>1, EventTypes
    <3>3. b.payload = <<j>>
      BY DEF BlockDelta
    <3> QED
      BY <2>1, <3>1, <3>2, <3>3
  <2> HIDE DEF b
  <2>4. Plain(Append(CloseBlock(out), a)) /\ Append(CloseBlock(out), a) \in Seq(Event)
    BY <1>1, <2>8, PlainMore
  <2> DEFINE u == Append(CloseBlock(out), a)
  <2> HIDE DEF u
  <2>5. u \in Seq(Event) /\ Plain(u)
    BY <2>4 DEF u
  <2>6. Plain(Append(u, b)) /\ Append(u, b) \in Seq(Event)
    BY <2>3, <2>5, PlainMore
  <2> DEFINE v == Append(u, b)
  <2> HIDE DEF v
  <2>7. v \in Seq(Event) /\ Plain(v)
    BY <2>6 DEF v
  <2>9. Plain(Append(v, c))
    BY <2>7, <2>8, PlainMore
  <2> QED
    BY <2>2, <2>9 DEF u, v
<1>5. ASSUME NEW m \in Messages, FeedError(m) PROVE Plain(out')
  <2>1. ErrorEvent(m) \in Event /\ ~IsDelta(ErrorEvent(m))
    BY EventTypes DEF IsDelta, ErrorEvent
  <2>2. out' = Append(out, ErrorEvent(m))
    BY <1>5 DEF FeedError
  <2> QED
    BY <1>1, <2>1, <2>2, PlainMore
<1>6. CASE Finish
  <2>1. CASE hasError
    BY <1>6, <2>1 DEF Finish
  <2>2. CASE ~hasError
    <3> DEFINE d == MessageDelta(stopReason', DeltaUsage(usage, OutputTokens))
               z == ErrorEvent(ZeroOutput)
    <3>1. out' \in {Append(CloseBlock(out), z), Append(Append(CloseBlock(out), d), MessageStop)}
      BY <1>6, <2>2 DEF Finish
    <3>2. d \in Event /\ z \in Event /\ MessageStop \in Event
      BY <1>6, <2>2, EndType, EventTypes
    <3>3. ~IsDelta(d) /\ ~IsDelta(z) /\ ~IsDelta(MessageStop)
      BY DEF IsDelta, MessageDelta, ErrorEvent, MessageStop
    <3> HIDE DEF d, z
    <3>4. /\ Plain(Append(CloseBlock(out), z)) /\ Plain(Append(CloseBlock(out), d))
          /\ Append(CloseBlock(out), d) \in Seq(Event)
      BY <1>1, <3>2, <3>3, PlainMore
    <3>5. Plain(Append(Append(CloseBlock(out), d), MessageStop))
      BY <3>2, <3>3, <3>4, PlainMore
    <3> QED
      BY <3>1, <3>4, <3>5
  <2> QED
    BY <2>1, <2>2
<1> QED
  BY <1>2, <1>3, <1>4, <1>5, <1>6 DEF Next, Feed

\* An upstream error is on record when the stream tells it.
ErrorsTold ==
  /\ panicked => hasError
  /\ hasError /\ ~panicked => \E i \in 1..Len(out) : out[i].name = "error"
  /\ \A i \in 1..Len(out) : out[i].name = "error" => hasError \/ (finished /\ i = Len(out))

\* The tokens of the message_delta are those of the latest usage object.
TokensTold ==
  /\ hasUsage \/ usage = NoUsage
  /\ \A i \in 1..Len(out) : out[i].name = "message_delta" =>
       OutputTokens # 0 /\ out[i].usage = DeltaUsage(usage, OutputTokens)

\* The sequence t after s.
LEMMA EventsAdded ==
  ASSUME NEW s \in Seq(Event), NEW t \in Seq(Event)
  PROVE  /\ s \o t \in Seq(Event) /\ Len(s \o t) = Len(s) + Len(t)
         /\ Len(s) \in Nat /\ Len(t) \in Nat
         /\ \A i \in 1..Len(s) : (s \o t)[i] = s[i]
         /\ \A i \in 1..Len(s \o t) : i \notin 1..Len(s) =>
              i - Len(s) \in 1..Len(t) /\ (s \o t)[i] = t[i - Len(s)]
OBVIOUS

LEMMA InitTold == Init => ErrorsTold /\ TokensTold
<1> SUFFICES ASSUME Init PROVE ErrorsTold /\ TokensTold
  OBVIOUS
<1>1. /\ Len(out) = 1 /\ out[1].name = "message_start"
      /\ ~panicked /\ ~hasError /\ usage = NoUsage
  BY DEF Init, MessageStart
<1> QED
  BY <1>1 DEF ErrorsTold, TokensTold

LEMMA NextErrorsTold == TypeOK /\ ErrorsTold /\ Next => ErrorsTold'
<1> SUFFICES ASSUME TypeOK, ErrorsTold, Next PROVE ErrorsTold'
  OBVIOUS
<1>1. out \in Seq(Event) /\ \A t \in Seq(MiddleEvents) : t \in Seq(Event)
  <2>1. MiddleEvents \subseteq Event
    BY DEF MiddleEvents
  <2> QED
    BY <2>1 DEF TypeOK
<1>0. ~finished /\ ~panicked
  <2>1. CASE Finish
    BY <2>1 DEF Finish
  <2>2. CASE Feed
    BY <2>2, Zenon DEF Feed, FeedIgnored, FeedDelta, FeedToolCall, FeedFinishStep, FeedFinish,
                       FeedError, FeedErrorWithoutDetail, Take
  <2> QED
    BY <2>1, <2>2 DEF Next
<1>2. \A i \in 1..Len(out) : out[i].name = "error" => hasError
  BY <1>0 DEF ErrorsTold
<1>3. CASE Feed /\ panicked'
  <2>1. FeedErrorWithoutDetail
    <3>1. ~FeedErrorWithoutDetail => panicked' = panicked
      BY <1>3, Zenon DEF Feed, FeedIgnored, FeedDelta, FeedToolCall, FeedFinishStep, FeedFinish,
                         FeedError, errorVars
    <3> QED
      BY <1>0, <1>3, <3>1
  <2>2. out' = out /\ hasError'
    BY <2>1 DEF FeedErrorWithoutDetail
  <2> QED
    BY <1>3, <2>2 DEF ErrorsTold
<1>4. CASE Feed /\ ~panicked'
  <2>1. PICK t : /\ out' = out \o t
                 /\ \/ t \in Seq(MiddleEvents) /\ hasError' = hasError
                    \/ hasError' /\ \E m : t = <<ErrorEvent(m)>>
    BY <1>4, FeedAdds
  <2>2. CASE t \in Seq(MiddleEvents) /\ hasError' = hasError
    <3>1. t \in Seq(Event) /\ \A i \in 1..Len(t) : t[i].name # "error"
      <4>1. \A i \in 1..Len(t) : t[i] \in MiddleEvents
        BY <2>2
      <4> QED
        BY <1>1, <2>2, <4>1 DEF MiddleEvents
    <3>2. \A i \in 1..Len(out') : out'[i].name = "error" => hasError'
      BY <1>1, <1>2, <2>1, <2>2, <3>1, EventsAdded
    <3>3. hasError' => \E i \in 1..Len(out') : out'[i].name = "error"
      <4> SUFFICES ASSUME hasError' PROVE \E i \in 1..Len(out') : out'[i].name = "error"
        OBVIOUS
      <4>1. PICK i \in 1..Len(out) : out[i].name = "error"
        BY <1>0, <2>2 DEF ErrorsTold
      <4>2. i \in 1..Len(out') /\ out'[i] = out[i]
        BY <1>1, <2>1, <3>1, EventsAdded
      <4> QED
        BY <4>1, <4>2
    <3> QED
      BY <1>4, <3>2, <3>3 DEF ErrorsTold
  <2>3. CASE hasError' /\ \E m : t = <<ErrorEvent(m)>>
    <3>1. PICK m : t = <<ErrorEvent(m)>>
      BY <2>3
    <3> DEFINE e == ErrorEvent(m)
    <3>5. e.name = "error"
      BY DEF ErrorEvent
    <3> HIDE DEF e
    <3>6. IsSequence(t) /\ Len(t) = 1 /\ t[1] = e
      BY <3>1, ShortSequences DEF e
    <3>7. IsSequence(out) /\ Len(out) \in Nat
      BY <1>1 DEF IsSequence
    <3>2. IsSequence(t) /\ Len(t) = 1 /\ t[1].name = "error" /\ Len(out) \in Nat
      BY <3>5, <3>6, <3>7
    <3>3. /\ Len(out') = Len(out) + Len(t)
          /\ \A k \in 1..Len(t) : out'[Len(out) + k] = t[k]
      <4>1. /\ Len(out \o t) = Len(out) + Len(t)
            /\ \A k \in 1..Len(t) : (out \o t)[Len(out) + k] = t[k]
        BY ONLY <3>6, <3>7, Concatenation
      <4> QED
        BY <2>1, <4>1
    <3>4. Len(out) + 1 \in 1..Len(out') /\ out'[Len(out) + 1].name = "error"
      BY <3>2, <3>3
    <3> QED
      BY <1>4, <2>3, <3>4 DEF ErrorsTold
  <2> QED
    BY <2>1, <2>2, <2>3
<1>5. CASE Finish
  <2>1. /\ finished' /\ ~panicked' /\ hasError' = hasError
        /\ \E t, e : /\ t \in Seq(MiddleEvents)
                     /\ \/ hasError /\ out' = out
                        \/ /\ ~hasError /\ out' = out \o Append(t, e)
                           /\ \/ e = ErrorEvent(ZeroOutput)
                              \/ e = MessageStop
    BY <1>5, FinishAdds
  <2>2. CASE hasError
    <3>1. out' = out
      BY <2>1, <2>2
    <3> QED
      BY <1>0, <2>1, <2>2, <3>1 DEF ErrorsTold
  <2>3. CASE ~hasError
    <3>1. PICK t \in Seq(MiddleEvents), e \in {ErrorEvent(ZeroOutput), MessageStop} :
            out' = out \o Append(t, e)
      BY <2>1, <2>3
    <3> DEFINE u == Append(t, e)
    <3>2. /\ u \in Seq(Event) /\ Len(u) = Len(t) + 1
          /\ \A i \in 1..Len(t) : u[i] = t[i] /\ t[i].name # "error"
      <4>1. t \in Seq(Event) /\ e \in Event
        BY <1>1, <3>1, EventTypes
      <4>2. \A i \in 1..Len(t) : t[i] \in MiddleEvents
        BY <3>1
      <4>3. \A i \in 1..Len(t) : t[i].name # "error"
        BY <4>2 DEF MiddleEvents
      <4> QED
        BY <4>1, <4>3, AppendSeq
    <3>3. Len(t) \in Nat
      BY <3>1
    <3>4. out' = out \o u
      BY <3>1
    <3> HIDE DEF u
    <3>5. /\ Len(out') = Len(out) + Len(u) /\ Len(out) \in Nat
          /\ \A i \in 1..Len(out) : out'[i] = out[i]
          /\ \A i \in 1..Len(out') : i \notin 1..Len(out) =>
               i - Len(out) \in 1..Len(u) /\ out'[i] = u[i - Len(out)]
      BY <1>1, <3>2, <3>4, EventsAdded
    <3>6. ASSUME NEW i \in 1..Len(out'), out'[i].name = "error" PROVE i = Len(out')
      <4>1. i \notin 1..Len(out)
        BY <1>2, <2>3, <3>5, <3>6
      <4>2. i - Len(out) \in 1..Len(u) /\ u[i - Len(out)].name = "error"
        BY <3>5, <3>6, <4>1
      <4>3. i - Len(out) \notin 1..Len(t)
        BY <3>2, <4>2
      <4> QED
        BY <3>2, <3>3, <3>5, <4>2, <4>3
    <3> QED
      BY <2>1, <2>3, <3>6 DEF ErrorsTold
  <2> QED
    BY <2>2, <2>3
<1> QED
  BY <1>3, <1>4, <1>5 DEF Next

LEMMA NextTokensTold ==
  TypeOK /\ EndsInv /\ EndsInv' /\ TokensTold /\ Next => TokensTold'
<1> SUFFICES ASSUME TypeOK, EndsInv, EndsInv', TokensTold, Next PROVE TokensTold'
  OBVIOUS
<1>1. \A i \in 1..Len(out') : out'[i].name = "message_delta" =>
        finished' /\ ~hasError' /\ i = Len(out') - 1
  BY DEF EndsInv, EndsProperly
<1>2. CASE Feed
  <2>1. ~finished'
    BY <1>2, Zenon DEF Feed, FeedIgnored, FeedDelta, FeedToolCall, FeedFinishStep, FeedFinish,
                       FeedError, FeedErrorWithoutDetail, Take
  <2>2. hasUsage' \/ usage' = NoUsage
    <3>1. \/ UNCHANGED <<usage, hasUsage>>
          \/ hasUsage' = TRUE
      BY <1>2, Zenon DEF Feed, FeedIgnored, FeedDelta, FeedToolCall, FeedFinishStep, FeedFinish,
                         FeedError, FeedErrorWithoutDetail, finishVars
    <3> QED
      BY <3>1 DEF TokensTold
  <2> QED
    BY <1>1, <2>1, <2>2 DEF TokensTold
<1>3. CASE Finish
  <2>1. /\ UNCHANGED <<usage, hasUsage, outEstimate>> /\ hasError' = hasError /\ ~finished
    BY <1>3 DEF Finish, errorVars
  <2>2. OutputTokens' = OutputTokens /\ (hasUsage' \/ usage' = NoUsage)
    BY <2>1 DEF OutputTokens, TokensTold
  <2>3. ASSUME NEW i \in 1..Len(out'), out'[i].name = "message_delta"
        PROVE  OutputTokens # 0 /\ out'[i].usage = DeltaUsage(usage, OutputTokens)
    <3> DEFINE d == MessageDelta(stopReason', DeltaUsage(usage, OutputTokens))
               z == ErrorEvent(ZeroOutput)
               c == CloseBlock(out)
    <3>1. ~hasError /\ i = Len(out') - 1
      BY <1>1, <2>1, <2>3
    <3>2. out' = IF OutputTokens = 0 THEN Append(c, z) ELSE Append(Append(c, d), MessageStop)
      BY <1>3, <3>1 DEF Finish
    <3>3. NoEnd(c) /\ c \in Seq(Event)
      BY <2>1, CloseBlockCloses, CloseBlockType DEF EndsInv
    <3>4. d \in Event /\ z \in Event /\ MessageStop \in Event
      BY <1>3, <3>1, EndType, EventTypes
    <3>5. d.usage = DeltaUsage(usage, OutputTokens)
      BY DEF MessageDelta
    <3> HIDE DEF c, d, z
    <3>6. CASE OutputTokens = 0
      <4>1. Len(out') = Len(c) + 1 /\ \A k \in 1..Len(c) : out'[k] = c[k]
        BY <3>2, <3>3, <3>4, <3>6, AppendSeq
      <4>2. i \in 1..Len(c)
        BY <3>1, <3>3, <4>1
      <4> QED
        BY <2>3, <3>3, <4>1, <4>2 DEF NoEnd
    <3>7. CASE OutputTokens # 0
      <4>1. /\ Append(c, d) \in Seq(Event) /\ Len(Append(c, d)) = Len(c) + 1
            /\ Append(c, d)[Len(c) + 1] = d
        BY <3>3, <3>4, AppendSeq
      <4>2. /\ Len(out') = Len(c) + 2
            /\ \A k \in 1..(Len(c) + 1) : out'[k] = Append(c, d)[k]
        <5> DEFINE w == Append(c, d)
        <5>1. w \in Seq(Event) /\ Len(w) = Len(c) + 1 /\ Len(c) \in Nat
          BY <3>3, <4>1
        <5>2. out' = Append(w, MessageStop)
          BY <3>2, <3>7
        <5> HIDE DEF w
        <5>3. Len(out') = Len(w) + 1 /\ \A k \in 1..Len(w) : out'[k] = w[k]
          BY <3>4, <5>1, <5>2, AppendSeq
        <5> QED
          BY <5>1, <5>3 DEF w
      <4>3. i = Len(c) + 1 /\ Len(c) \in Nat
        BY <3>1, <3>3, <4>2
      <4>4. out'[i] = d
        BY <4>1, <4>2, <4>3
      <4> QED
        BY <3>5, <3>7, <4>4
    <3> QED
      BY <3>6, <3>7
  <2> QED
    BY <2>1, <2>2, <2>3 DEF TokensTold
<1> QED
  BY <1>2, <1>3 DEF Next

---------------------------------------------------------------------------
(* The invariant. *)

\* The stream, the message, the frames and the completion agree.
Mirrored ==
  /\ Aggregated(out, agg)
  /\ Coded(out, enc, frames, chatAgg)
  /\ enc.frames = <<>> /\ IsSequence(frames)

AnswersInv ==
  /\ IInv /\ Accounts /\ EndsInv
  /\ Plain(out) /\ ErrorsTold /\ TokensTold
  /\ Mirrored

\* The encoder without the frames it returned.
LEMMA FramesTaken ==
  ASSUME NEW s, NEW c, NEW fs, NEW h, Coded(s, c, fs, h)
  PROVE  Coded(s, [c EXCEPT !.frames = <<>>], fs, h)
<1> DEFINE d == [c EXCEPT !.frames = <<>>]
<1>1. IsChatEncoder(c)
  BY DEF Coded
<1>2. /\ IsChatEncoder(d) /\ d.started = c.started /\ d.finished = c.finished
      /\ d.hasError = c.hasError /\ d.toolIndex = c.toolIndex /\ d.curTool = c.curTool
      /\ d.stopReason = c.stopReason /\ d.usage = c.usage
  BY <1>1, ShortSequences DEF IsChatEncoder, ChatFields
<1> HIDE DEF d
<1>3. (Silenced(d) <=> Silenced(c)) /\ (StartedIff(d, fs) <=> StartedIff(c, fs))
  BY <1>2 DEF Silenced, StartedIff
<1>4. Ordered(c, fs) => Ordered(d, fs)
  BY <1>2, <1>3 DEF Ordered
<1>5. Announced(c, fs) => Announced(d, fs)
  BY <1>2 DEF Announced
<1>6. Alike(c, fs, h) => Alike(d, fs, h)
  BY <1>2 DEF Alike
<1>7. Coded(s, d, fs, h)
  BY <1>2, <1>3, <1>4, <1>5, <1>6 DEF Coded
<1> QED
  BY <1>7 DEF d

LEMMA InitAnswers == AnswersInit => AnswersInv
<1> SUFFICES ASSUME AnswersInit PROVE AnswersInv
  OBVIOUS
<1> DEFINE x == Deliver(NewConsumers, MessageStart)
           c == ChatEncode(NewChatEncoder, MessageStart)
           h == ChatAggregate(NewChatAggregator, MessageStart)
           a == AggregateFeed(NewAggregator, MessageStart)
           none == <<>>
           fs == c.frames
<1>1. Init
  BY DEF AnswersInit
<1>2. IInv /\ Accounts /\ EndsInv /\ Plain(out) /\ ErrorsTold /\ TokensTold
  BY <1>1, InitBlocks, InitAccounts, InitEnds, InitPlain, InitTold
<1>3. x.agg = a /\ x.enc = c /\ x.chat = h
  BY DEF Deliver, NewConsumers
<1>4. agg = a /\ chatAgg = h /\ frames = fs /\ enc = [c EXCEPT !.frames = <<>>]
  BY <1>3 DEF AnswersInit
<1>5. out = <<MessageStart>>
  BY <1>1 DEF Init
<1>6. Aggregated(out, agg)
  BY <1>4, <1>5, NewAggregated
<1>7. Coded(<<MessageStart>>, c, c.frames, h) /\ c.frames = <<>>
  BY NewCoded
<1> HIDE DEF c, h, x, a
<1>8. IsChatEncoder(c) /\ Coded(out, c, fs, h)
  BY <1>5, <1>7 DEF Coded
<1>9. Coded(out, [c EXCEPT !.frames = <<>>], fs, h)
  BY <1>8, FramesTaken
<1>10. Coded(out, enc, frames, chatAgg)
  BY <1>4, <1>9
<1>11. enc.frames = <<>>
  BY <1>4, <1>8 DEF IsChatEncoder, ChatFields
<1>12. IsSequence(frames)
  BY <1>4, <1>7, ShortSequences
<1> QED
  BY <1>2, <1>6, <1>10, <1>11, <1>12 DEF AnswersInv, Mirrored

LEMMA AddedEvents ==
  ASSUME NEW s \in Seq(Event), NEW t, IsSequence(t), s \o t \in Seq(Event)
  PROVE  t \in Seq(Event)
<1> DEFINE u == s \o t
<1>1. IsSequence(s)
  BY DEF IsSequence
<1>2. /\ Len(u) = Len(s) + Len(t) /\ \A i \in 1..Len(t) : u[Len(s) + i] = t[i]
  BY <1>1, Concatenation
<1>3. u \in Seq(Event) /\ Len(s) \in Nat
  OBVIOUS
<1>4. PICK S : t \in Seq(S)
  BY DEF IsSequence
<1> HIDE DEF u
<1>5. \A i \in 1..Len(t) : t[i] \in Event
  <2> TAKE i \in 1..Len(t)
  <2>1. Len(s) + i \in 1..Len(u)
    BY <1>2, <1>3, <1>4
  <2>2. u[Len(s) + i] \in Event
    BY <1>3, <2>1
  <2> QED
    BY <1>2, <2>2
<1> QED
  BY <1>4, <1>5

\* Every call adds events; the last call adds an end.
LEMMA CallAdds ==
  ASSUME TypeOK, TypeOK', ErrorsTold, Next
  PROVE  /\ \E t \in Seq(Event) : out' = out \o t
         /\ Finish => EndEvents(out') # {}
<1>1. out \in Seq(Event) /\ out' \in Seq(Event)
  BY DEF TypeOK
<1>2. SUFFICES ASSUME TRUE
               PROVE  /\ \E t : IsSequence(t) /\ out' = out \o t
                      /\ Finish => EndEvents(out') # {}
  <2>1. ASSUME NEW t, IsSequence(t), out' = out \o t PROVE t \in Seq(Event)
    BY <1>1, <2>1, AddedEvents
  <2> QED
    BY <1>2, <2>1
<1>3. \A t \in Seq(MiddleEvents) : IsSequence(t)
  BY DEF IsSequence
<1>4. CASE Finish
  <2>1. \E t, e : /\ t \in Seq(MiddleEvents)
                  /\ \/ hasError /\ out' = out
                     \/ /\ ~hasError /\ out' = out \o Append(t, e)
                        /\ \/ e = ErrorEvent(ZeroOutput)
                           \/ e = MessageStop
    BY <1>4, FinishAdds
  <2>2. CASE hasError
    <3>1. out' = out /\ ~panicked
      BY <1>4, <2>1, <2>2 DEF Finish
    <3>2. EndEvents(out') # {}
      BY <2>2, <3>1 DEF ErrorsTold, EndEvents
    <3>3. out' = out \o <<>> /\ IsSequence(<<>>)
      BY <1>1, <3>1, ShortSequences
    <3> QED
      BY <3>2, <3>3
  <2>3. CASE ~hasError
    <3>1. PICK t \in Seq(MiddleEvents), e \in {ErrorEvent(ZeroOutput), MessageStop} :
            out' = out \o Append(t, e)
      BY <2>1, <2>3
    <3> DEFINE u == Append(t, e)
    <3>2. IsSequence(t) /\ e.name \in {"error", "message_stop"}
      BY <1>3, <3>1 DEF ErrorEvent, MessageStop
    <3>3. IsSequence(u) /\ Len(u) = Len(t) + 1 /\ u[Len(t) + 1] = e
      BY <3>2, Appended
    <3>4. IsSequence(out) /\ Len(out) \in Nat /\ Len(t) \in Nat
      BY <1>1, <3>2, SequenceLen DEF IsSequence
    <3>5. out' = out \o u
      BY <3>1
    <3> HIDE DEF u
    <3>6. /\ Len(out \o u) = Len(out) + Len(u)
          /\ \A i \in 1..Len(u) : (out \o u)[Len(out) + i] = u[i]
      BY ONLY <3>3, <3>4, Concatenation
    <3>7. /\ Len(out) + (Len(t) + 1) \in 1..Len(out')
          /\ out'[Len(out) + (Len(t) + 1)] = e
      BY <3>3, <3>4, <3>5, <3>6
    <3>8. EndEvents(out') # {}
      BY <3>2, <3>7 DEF EndEvents
    <3> QED
      BY <3>3, <3>5, <3>8
  <2> QED
    BY <2>2, <2>3
<1>5. CASE Feed
  <2>1. ~Finish
    <3>1. ~finished'
      BY <1>5, Zenon DEF Feed, FeedIgnored, FeedDelta, FeedToolCall, FeedFinishStep, FeedFinish,
                         FeedError, FeedErrorWithoutDetail, Take
    <3>2. Finish => finished'
      BY DEF Finish
    <3> QED
      BY <3>1, <3>2
  <2>2. CASE panicked'
    <3>1. FeedErrorWithoutDetail
      <4>1. ~panicked
        BY <1>5, Zenon DEF Feed, FeedIgnored, FeedDelta, FeedToolCall, FeedFinishStep, FeedFinish,
                           FeedError, FeedErrorWithoutDetail, Take
      <4>2. ~FeedErrorWithoutDetail => panicked' = panicked
        BY <1>5, Zenon DEF Feed, FeedIgnored, FeedDelta, FeedToolCall, FeedFinishStep, FeedFinish,
                           FeedError, errorVars
      <4> QED
        BY <2>2, <4>1, <4>2
    <3>2. out' = out
      BY <3>1 DEF FeedErrorWithoutDetail
    <3>3. out' = out \o <<>> /\ IsSequence(<<>>)
      BY <1>1, <3>2, ShortSequences
    <3> QED
      BY <2>1, <3>3
  <2>3. CASE ~panicked'
    <3>1. PICK t : /\ out' = out \o t
                   /\ t \in Seq(MiddleEvents) \/ \E m : t = <<ErrorEvent(m)>>
      BY <1>5, <2>3, FeedAdds
    <3>2. IsSequence(t)
      BY <1>3, <3>1, ShortSequences
    <3> QED
      BY <2>1, <3>1, <3>2
  <2> QED
    BY <2>2, <2>3
<1> QED
  BY <1>4, <1>5 DEF Next

LEMMA StreamGood == IInv /\ EndsInv /\ Plain(out) => Good(out)
<1>1. IInv => Disciplined(out) /\ Numbered(out)
  BY DEF IInv, Bookkept, WellFormed
<1>2. ASSUME EndsInv, TypeOK, NEW i \in 1..(Len(out) - 1) PROVE out[i].name # "message_stop"
  <2>1. Len(out) \in Nat
    BY <1>2 DEF TypeOK
  <2>2. i \in 1..Len(out) /\ i # Len(out)
    BY <2>1
  <2> QED
    BY <1>2, <2>2 DEF EndsInv, EndsProperly
<1> QED
  BY <1>1, <1>2 DEF Good, IInv

LEMMA NextStreamGood == (IInv /\ EndsInv /\ Plain(out))' => Good(out')
<1>1. IInv' => Disciplined(out') /\ Numbered(out')
  BY DEF IInv, Bookkept, WellFormed
<1>2. ASSUME EndsInv', TypeOK', NEW i \in 1..(Len(out') - 1) PROVE out'[i].name # "message_stop"
  <2>1. Len(out') \in Nat
    BY <1>2 DEF TypeOK
  <2>2. i \in 1..Len(out') /\ i # Len(out')
    BY <2>1
  <2> QED
    BY <1>2, <2>2 DEF EndsInv, EndsProperly
<1> QED
  BY <1>1, <1>2 DEF Good, IInv

LEMMA NextMirrored ==
  ASSUME TypeOK, TypeOK', ErrorsTold, Mirrored, Good(out'), AnswersNext
  PROVE  Mirrored'
<1> DEFINE x == Delivered(Consumers, NewEvents)
           c == x.enc
           g == c.frames
<1>1. Next
  BY DEF AnswersNext, AnswersFeed, AnswersFinish, Next
<1>2. PICK t \in Seq(Event) : out' = out \o t
  BY <1>1, CallAdds
<1>3. NewEvents = t
  <2>1. IsSequence(t)
    BY DEF IsSequence
  <2> QED
    BY <1>2, <2>1, NewEventsAdded
<1>4. Mirror(out, frames, Consumers)
  <2>1. Consumers.agg = agg /\ Consumers.enc = enc /\ Consumers.chat = chatAgg
    BY DEF Consumers
  <2>2. frames \o <<>> = frames
    BY EmptyConcatenation DEF Mirrored
  <2>3. frames \o enc.frames = frames
    BY <2>2 DEF Mirrored
  <2> QED
    BY <2>1, <2>3 DEF Mirror, Mirrored
<1>5. Mirror(out', frames, x)
  <2> DEFINE y == Consumers
             old == frames
             s == out
  <2>1. s \in Seq(Event) /\ Good(s \o t) /\ IsSequence(old) /\ Mirror(s, old, y)
    BY <1>2, <1>4 DEF TypeOK, Mirrored
  <2> HIDE DEF y, old, s
  <2>2. Mirror(s \o t, old, Delivered(y, t))
    BY <2>1, CallMirrored
  <2> QED
    BY <1>2, <1>3, <2>2 DEF y, old, s
<1> HIDE DEF x
<1>6. Aggregated(out', x.agg) /\ Coded(out', c, frames \o g, x.chat)
  BY <1>5 DEF Mirror
<1>7. Becomes(x, c)
  <2>1. CASE AnswersFeed
    BY <2>1 DEF AnswersFeed, x
  <2>2. CASE AnswersFinish
    <3>1. EndEvents(out') # {}
      BY <1>1, <2>2, CallAdds DEF AnswersFinish
    <3>2. Silenced(c)
      BY <1>6, <3>1 DEF Coded
    <3>3. ChatEncoderFinish(c) = c
      BY <3>2 DEF ChatEncoderFinish
    <3> QED
      BY <2>2, <3>3 DEF AnswersFinish, x
  <2> QED
    BY <2>1, <2>2 DEF AnswersNext
<1> HIDE DEF c
<1>8. agg' = x.agg /\ chatAgg' = x.chat /\ enc' = [c EXCEPT !.frames = <<>>] /\ frames' = frames \o g
  BY <1>7 DEF Becomes
<1>9. IsChatEncoder(c) /\ IsSequence(frames \o g)
  BY <1>6 DEF Coded
<1> DEFINE fs == frames \o g
           h == x.chat
           u == out'
<1> HIDE DEF fs, h, g, u
<1>10. Coded(u, [c EXCEPT !.frames = <<>>], fs, h)
  <2>1. Coded(u, c, fs, h)
    BY <1>6 DEF fs, h, u
  <2> QED
    BY <2>1, FramesTaken
<1>11. Coded(out', enc', frames', chatAgg')
  BY <1>8, <1>10 DEF fs, h, u
<1>12. enc'.frames = <<>>
  BY <1>8, <1>9 DEF IsChatEncoder, ChatFields
<1>13. IsSequence(frames')
  BY <1>8, <1>9
<1> QED
  BY <1>6, <1>8, <1>11, <1>12, <1>13 DEF Mirrored

LEMMA NextAnswers == AnswersInv /\ [AnswersNext]_answerVars => AnswersInv'
<1> SUFFICES ASSUME AnswersInv, [AnswersNext]_answerVars PROVE AnswersInv'
  OBVIOUS
<1>1. TypeOK /\ IInv /\ Accounts /\ EndsInv /\ Plain(out) /\ ErrorsTold /\ TokensTold /\ Mirrored
  BY DEF AnswersInv, IInv
<1>2. CASE UNCHANGED answerVars
  <2>1. UNCHANGED vars /\ UNCHANGED <<agg, enc, frames, chatAgg>>
    BY <1>2 DEF answerVars
  <2>2. TypeOK' /\ IInv' /\ Accounts' /\ EndsInv'
    BY <1>1, <2>1, NextType, NextBlocks, NextAccounts, NextEnds
  <2>3. /\ UNCHANGED <<out, panicked, hasError, finished, usage, hasUsage, outEstimate>>
    BY <2>1 DEF vars, blockVars, finishVars, errorVars
  <2>4. Plain(out)' /\ ErrorsTold' /\ TokensTold'
    BY <1>1, <2>3 DEF ErrorsTold, TokensTold, OutputTokens
  <2>5. Mirrored'
    BY <1>1, <2>1, <2>3 DEF Mirrored
  <2> QED
    BY <2>2, <2>4, <2>5 DEF AnswersInv
<1>3. CASE AnswersNext
  <2>1. Next
    BY <1>3 DEF AnswersNext, AnswersFeed, AnswersFinish, Next
  <2>2. TypeOK' /\ IInv' /\ Accounts' /\ EndsInv'
    BY <1>1, <2>1, NextType, NextBlocks, NextAccounts, NextEnds
  <2>3. Plain(out') /\ ErrorsTold' /\ TokensTold'
    BY <1>1, <2>1, <2>2, NextPlain, NextErrorsTold, NextTokensTold
  <2>4. Good(out')
    BY <2>2, <2>3, NextStreamGood
  <2>5. Mirrored'
    BY <1>1, <1>3, <2>2, <2>4, NextMirrored
  <2> QED
    BY <2>2, <2>3, <2>5 DEF AnswersInv
<1> QED
  BY <1>2, <1>3

---------------------------------------------------------------------------
(* The message is what the stream says. *)

LEMMA BlocksOfMessage ==
  ASSUME NEW a, NEW s, Aggregated(s, a)
  PROVE  LET blocks == Message(a).content
         IN /\ Len(blocks) = Len(a.content)
            /\ \A p \in 1..Len(a.content) :
                 /\ blocks[p].type = a.content[p].type /\ blocks[p].text = a.content[p].text
                 /\ blocks[p].signature = a.content[p].signature
                 /\ blocks[p].input = IF p - 1 \in DOMAIN a.inputJSON
                                      THEN MessageInput(a.inputJSON[p - 1])
                                      ELSE a.content[p].input
<1> DEFINE C == a.content
           J == a.inputJSON
           B == Message(a).content
           n == Len(C)
<1>1. IsSequence(C) /\ \A p \in 1..Len(C) : IsBlock(C[p])
  BY DEF Aggregated, BlocksOf
<1>2. n \in Nat /\ DOMAIN C = 1..n
  <2>1. PICK S : C \in Seq(S)
    BY <1>1 DEF IsSequence
  <2> QED
    BY <2>1
<1>3. B = [p \in DOMAIN C |-> IF p - 1 \in DOMAIN J THEN [C[p] EXCEPT !.input = MessageInput(J[p - 1])]
                              ELSE C[p]]
  BY DEF Message
<1> HIDE DEF C, J, B, n
<1>4. DOMAIN B = 1..n /\ B = [p \in DOMAIN B |-> B[p]]
  BY <1>2, <1>3
<1>5. Len(B) = n
  BY <1>2, <1>4, TableIsSequence
<1>6. ASSUME NEW p \in 1..n
      PROVE  /\ B[p].type = C[p].type /\ B[p].text = C[p].text /\ B[p].signature = C[p].signature
             /\ B[p].input = IF p - 1 \in DOMAIN J THEN MessageInput(J[p - 1]) ELSE C[p].input
  <2>1. IsBlock(C[p])
    BY <1>1, <1>6 DEF n
  <2> DEFINE b == C[p]
             v == MessageInput(J[p - 1])
  <2>2. B[p] = IF p - 1 \in DOMAIN J THEN [b EXCEPT !.input = v] ELSE b
    BY <1>2, <1>3, <1>6
  <2>3. b = [type |-> b.type, text |-> b.text, signature |-> b.signature, input |-> b.input]
    BY <2>1 DEF IsBlock
  <2> HIDE DEF b, v
  <2>4. [b EXCEPT !.input = v] =
          [type |-> b.type, text |-> b.text, signature |-> b.signature, input |-> v]
    BY <2>3
  <2>5. B[p].type = b.type /\ B[p].text = b.text /\ B[p].signature = b.signature
    BY <2>2, <2>4
  <2>6. B[p].input = IF p - 1 \in DOMAIN J THEN v ELSE b.input
    BY <2>2, <2>4
  <2> QED
    BY <2>5, <2>6 DEF b, v
<1> QED
  BY <1>5, <1>6 DEF C, J, B, n

\* A tool input in one piece.
LEMMA WholeInput ==
  ASSUME NEW J, IsSequence(J), NEW s, NEW k \in Nat, Carried(J, s, {k})
  PROVE  J = s[k].payload
<1>1. Cardinality({k}) = 1 /\ {j \in {k} : j <= k} = {k}
  BY FS_Singleton
<1>2. Place({k}, k) = 1
  BY <1>1 DEF Place
<1>3. Len(J) = 1 /\ s[k].payload = <<J[1]>>
  BY <1>1, <1>2 DEF Carried
<1>4. PICK S : J \in Seq(S)
  BY DEF IsSequence
<1>5. J = <<J[1]>>
  BY <1>3, <1>4
<1> QED
  BY <1>3, <1>5

LEMMA MessageIsStream == AnswersInv => MessageMatchesStream
<1> SUFFICES ASSUME AnswersInv PROVE MessageMatchesStream
  OBVIOUS
<1> DEFINE C == agg.content
           J == agg.inputJSON
           B == Message(agg).content
<1>1. Aggregated(out, agg) /\ BlocksOf(out, C) /\ InputsOf(out, J) /\ Blocks(out, Len(C))
  BY DEF AnswersInv, Mirrored, Aggregated, BlocksOf
<1>2. /\ Len(B) = Len(C)
      /\ \A p \in 1..Len(C) :
           /\ B[p].type = C[p].type /\ B[p].text = C[p].text
           /\ p - 1 \in DOMAIN J => B[p].input = MessageInput(J[p - 1])
  BY <1>1, BlocksOfMessage
<1>3. Disciplined(out) /\ out \in Seq(Event)
  BY DEF AnswersInv, IInv, TypeOK, Bookkept, WellFormed
<1>7. Len(C) \in Nat
  BY <1>1, SequenceLen DEF BlocksOf
<1> HIDE DEF C, J, B
<1>4. Len(B) = Cardinality(Starts(out))
  BY <1>1, <1>2 DEF Blocks
<1>5. ASSUME NEW i \in Starts(out)
      PROVE  out[i].index < Len(B) /\ Assembled(B[out[i].index + 1], out, i)
  <2> DEFINE b == out[i].index
             p == b + 1
  <2>1. b \in 0..(Len(C) - 1) /\ p \in 1..Len(C) /\ p - 1 = b
    BY <1>1, <1>7, <1>5 DEF Blocks
  <2>2. C[p].type = out[i].kind /\ Carried(C[p].text, out, TextDeltas(out, b))
    BY <1>1, <1>5 DEF BlocksOf
  <2>3. ASSUME NEW k \in InputDeltas(out, b), InputDeltas(out, b) = {k}, ValidJSON(out[k].payload)
        PROVE  B[p].input = out[k].payload[1]
    <3>1. /\ k \in 1..Len(out) /\ IsDelta(out[k]) /\ out[k].index = b
          /\ out[k].delta = "input_json_delta"
      BY <2>3 DEF InputDeltas
    <3>2. PICK j \in 1..(k - 1) : /\ OpenUntil(out, j, k) /\ out[j].index = b
                                  /\ "input_json_delta" \in DeltasOf(out[j].kind)
      BY <1>3, <3>1 DEF Disciplined, DeltaIsOfOpenBlock
    <3>3. j \in Starts(out) /\ out[j].kind \in Kinds
      <4>1. j \in 1..Len(out) /\ IsStart(out[j])
        BY <1>3, <3>1, <3>2 DEF OpenUntil
      <4>2. out[j] \in Event
        BY <1>3, <4>1
      <4> QED
        BY <4>1, <4>2, StartType DEF Starts
    <3>4. out[j].kind = "tool_use"
      BY <3>2, <3>3 DEF DeltasOf, Kinds
    <3>5. b \in DOMAIN J
      BY <1>1, <3>2, <3>3, <3>4 DEF InputsOf
    <3> DEFINE v == J[b]
    <3>6. IsSequence(v) /\ Carried(v, out, {k}) /\ k \in Nat
      <4>1. IsSequence(v) /\ Carried(v, out, InputDeltas(out, b))
        BY <1>1, <3>5 DEF InputsOf
      <4>2. k \in Nat
        BY <3>1
      <4> QED
        BY <2>3, <4>1, <4>2, Zenon
    <3> HIDE DEF v
    <3>7. v = out[k].payload
      BY <3>6, WholeInput
    <3>8. MessageInput(v) = out[k].payload[1]
      <4>1. ValidJSON(v)
        BY <2>3, <3>7, Zenon
      <4>2. MessageInput(v) = v[1]
        BY <4>1 DEF MessageInput
      <4> QED
        BY <3>7, <4>2
    <3> QED
      BY <1>2, <2>1, <3>5, <3>8 DEF v
  <2>4. B[p].type = out[i].kind /\ B[p].text = C[p].text
    BY <1>2, <2>1, <2>2
  <2> DEFINE x == B[p]
  <2>5. /\ x.type = out[i].kind /\ Carried(x.text, out, TextDeltas(out, b))
        /\ \A k \in InputDeltas(out, b) :
             InputDeltas(out, b) = {k} /\ ValidJSON(out[k].payload) => x.input = out[k].payload[1]
    BY <2>2, <2>3, <2>4
  <2> HIDE DEF x
  <2>6. Assembled(x, out, i)
    BY <2>5 DEF Assembled
  <2> QED
    BY <1>2, <1>7, <2>1, <2>6 DEF x
<1>6. MessageMatchesStream
  BY <1>4, <1>5 DEF MessageMatchesStream, B
<1> QED
  BY <1>6

---------------------------------------------------------------------------
(* The frames are in order. *)

LEMMA EndPositions ==
  ASSUME NEW c, NEW fs, IsSequence(fs), Ordered(c, fs)
  PROVE  LET n == Len(fs)
         IN /\ ~c.finished => /\ Positions(fs, "finish") = {} /\ Positions(fs, "usage") = {}
                              /\ Positions(fs, "done") = {} /\ Positions(fs, "error") \subseteq {n}
            /\ c.finished => /\ Positions(fs, "finish") = {n - 2} /\ Positions(fs, "usage") = {n - 1}
                             /\ Positions(fs, "done") = {n} /\ Positions(fs, "error") = {}
<1> DEFINE n == Len(fs)
<1>1. n \in Nat
  BY SequenceLen
<1>2. CASE ~c.finished /\ ~c.hasError
  <2>1. Unended(fs, n)
    BY <1>2 DEF Ordered, Silenced
  <2> QED
    BY <1>2, <2>1 DEF Unended, Positions, EndKinds
<1>3. CASE ~c.finished /\ c.hasError
  <2>1. Unended(fs, n - 1) /\ (n > 0 => fs[n].frame = "error")
    <3>1. n > 0 => fs # <<>>
      BY ShortSequences
    <3> QED
      BY <1>3, <3>1 DEF Ordered
  <2>2. \A i \in 1..n : i \in 1..(n - 1) \/ i = n
    BY <1>1
  <2>3. \A i \in 1..n : fs[i].frame \in EndKinds => i = n /\ fs[i].frame = "error"
    BY <1>1, <2>1, <2>2 DEF Unended
  <2> HIDE DEF n
  <2>4. /\ Positions(fs, "finish") = {} /\ Positions(fs, "usage") = {}
        /\ Positions(fs, "done") = {} /\ Positions(fs, "error") \subseteq {n}
    BY <2>3 DEF Positions, EndKinds, n
  <2> QED
    BY <1>3, <2>4 DEF n
<1>4. CASE c.finished
  <2>1. /\ n > 3 /\ Unended(fs, n - 3)
        /\ fs[n - 2].frame = "finish" /\ fs[n - 1].frame = "usage" /\ fs[n].frame = "done"
    BY <1>4 DEF Ordered, FinishFrame, UsageFrame, DoneFrame
  <2>2. \A i \in 1..n : i \in 1..(n - 3) \/ i = n - 2 \/ i = n - 1 \/ i = n
    BY <1>1
  <2>3. n - 2 \in 1..n /\ n - 1 \in 1..n /\ n \in 1..n
    BY <1>1, <2>1
  <2>4. \A i \in 1..(n - 3) : fs[i].frame \notin EndKinds
    BY <2>1 DEF Unended
  <2>5. Positions(fs, "finish") = {n - 2}
    BY <2>1, <2>2, <2>3, <2>4 DEF Positions, EndKinds
  <2>6. Positions(fs, "usage") = {n - 1}
    BY <2>1, <2>2, <2>3, <2>4 DEF Positions, EndKinds
  <2>7. Positions(fs, "done") = {n}
    BY <2>1, <2>2, <2>3, <2>4 DEF Positions, EndKinds
  <2>8. Positions(fs, "error") = {}
    BY <2>1, <2>2, <2>3, <2>4 DEF Positions, EndKinds
  <2> QED
    BY <1>4, <2>5, <2>6, <2>7, <2>8
<1> QED
  BY <1>2, <1>3, <1>4

LEMMA InOrder ==
  ASSUME NEW c, NEW fs, IsSequence(fs), Ordered(c, fs)
  PROVE  FrameOrder(fs)
<1> DEFINE n == Len(fs)
<1>1. n \in Nat
  BY SequenceLen
<1>2. fs # <<>> => Positions(fs, "role") = {1}
  <2> SUFFICES ASSUME fs # <<>> PROVE Positions(fs, "role") = {1}
    OBVIOUS
  <2>1. n > 0 /\ fs[1].frame = "role" /\ \A i \in 2..n : fs[i].frame # "role"
    BY <1>1, NoFrames DEF Ordered, RoleFirst
  <2>2. 1 \in 1..n /\ \A i \in 1..n : i = 1 \/ i \in 2..n
    BY <1>1, <2>1
  <2> QED
    BY <2>1, <2>2 DEF Positions
<1>3. CASE ~c.finished
  <2>1. /\ Positions(fs, "finish") = {} /\ Positions(fs, "usage") = {}
        /\ Positions(fs, "done") = {} /\ Positions(fs, "error") \subseteq {n}
    BY <1>3, EndPositions
  <2> QED
    BY <1>2, <2>1 DEF FrameOrder
<1>4. CASE c.finished
  <2>1. /\ Positions(fs, "finish") = {n - 2} /\ Positions(fs, "usage") = {n - 1}
        /\ Positions(fs, "done") = {n} /\ Positions(fs, "error") = {}
    BY <1>4, EndPositions
  <2>2. fs[n - 1].frame = "usage" /\ fs[n] = DoneFrame
    BY <1>4 DEF Ordered, UsageFrame
  <2>3. /\ Cardinality({n - 2}) = 1 /\ Cardinality({n - 1}) = 1 /\ Cardinality({n}) = 1
    BY FS_Singleton
  <2>4. (n - 2) + 1 = n - 1 /\ (n - 2) + 2 = n
    BY <1>1
  <2> QED
    BY <1>2, <2>1, <2>2, <2>3, <2>4 DEF FrameOrder
<1> QED
  BY <1>3, <1>4

---------------------------------------------------------------------------
(* The properties. *)

LEMMA CleanStream == AnswersInv /\ ~hasError => Clean(out)
<1> SUFFICES ASSUME AnswersInv, ~hasError, NEW i \in 1..(Len(out) - 1) PROVE out[i].name # "error"
  BY DEF Clean
<1>1. out \in Seq(Event)
  BY DEF AnswersInv, IInv, TypeOK
<1>2. i \in 1..Len(out) /\ i # Len(out)
  BY <1>1
<1> QED
  BY <1>2 DEF AnswersInv, ErrorsTold

LEMMA StreamIsReadable == AnswersInv => ChatStreamReadable
<1> SUFFICES ASSUME AnswersInv PROVE ChatStreamReadable
  OBVIOUS
<1>1. Coded(out, enc, frames, chatAgg)
  BY DEF AnswersInv, Mirrored
<1>2. FrameOrder(frames)
  BY <1>1, InOrder DEF Coded
<1>3. ToolsAnnounced(frames)
  BY <1>1 DEF Coded, Announced
<1>4. ~hasError => WholeInputs(frames, chatAgg.tools)
  BY <1>1, CleanStream DEF Coded, Alike
<1> QED
  BY <1>2, <1>3, <1>4 DEF ChatStreamReadable

\* The frames say that the message ended only when it did.
LEMMA FinishedWell == AnswersInv /\ enc.finished => ~hasError /\ ~panicked
<1> SUFFICES ASSUME AnswersInv, enc.finished PROVE ~hasError /\ ~panicked
  OBVIOUS
<1>1. PICK i \in 1..Len(out) : out[i].name = "message_stop"
  BY DEF AnswersInv, Mirrored, Coded
<1>2. ~hasError
  BY <1>1 DEF AnswersInv, EndsInv, EndsProperly
<1> QED
  BY <1>2 DEF AnswersInv, ErrorsTold

LEMMA StreamIsCompletion == AnswersInv => StreamMatchesCompletion
<1> SUFFICES ASSUME AnswersInv PROVE StreamMatchesCompletion
  OBVIOUS
<1> DEFINE result == Completion(chatAgg)
<1>1. Coded(out, enc, frames, chatAgg) /\ Ordered(enc, frames) /\ IsSequence(frames)
  BY DEF AnswersInv, Mirrored, Coded
<1>2. /\ result.content = chatAgg.text /\ result.reasoning = chatAgg.reasoning
      /\ result.reason = ChatFinishReason(chatAgg.stopReason)
      /\ result.usage = ChatUsageFrom(chatAgg.usage)
      /\ result.tools = [k \in DOMAIN chatAgg.tools |->
           IF ValidArguments(chatAgg.tools[k]) THEN chatAgg.tools[k] ELSE Runes("emptyObject")]
  BY DEF Completion
<1> HIDE DEF result
<1>3. ASSUME ~hasError
      PROVE  /\ SameTexts(frames, "content", result.content)
             /\ SameTexts(frames, "reasoning", result.reasoning)
             /\ Cardinality(Positions(frames, "tool")) = Len(result.tools)
  <2>1. Alike(enc, frames, chatAgg) /\ Announced(enc, frames)
    BY <1>1, <1>3, CleanStream DEF Coded
  <2> DEFINE given == chatAgg.tools
             told == result.tools
  <2>2. IsSequence(given) /\ Len(given) = Cardinality(Positions(frames, "tool"))
    BY <2>1 DEF Alike, Announced
  <2>3. told = [k \in DOMAIN given |-> IF ValidArguments(given[k]) THEN given[k] ELSE Runes("emptyObject")]
    BY <1>2
  <2> HIDE DEF given, told
  <2>4. DOMAIN given = 1..Len(given) /\ Len(given) \in Nat
    <3>1. PICK S : given \in Seq(S)
      BY <2>2 DEF IsSequence
    <3> QED
      BY <3>1
  <2>5. DOMAIN told = 1..Len(given) /\ told = [k \in DOMAIN told |-> told[k]]
    BY <2>3, <2>4
  <2>6. Len(told) = Len(given)
    BY <2>4, <2>5, TableIsSequence
  <2>7. SameTexts(frames, "content", result.content) /\ SameTexts(frames, "reasoning", result.reasoning)
    BY <1>2, <2>1 DEF Alike
  <2> QED
    BY <2>2, <2>6, <2>7 DEF told
<1>4. ASSUME enc.finished
      PROVE  /\ \A i \in Positions(frames, "finish") : frames[i].reason = result.reason
             /\ \A i \in Positions(frames, "usage")  : frames[i].usage = result.usage
  <2>1. Alike(enc, frames, chatAgg)
    BY <1>1, <1>4, FinishedWell, CleanStream DEF Coded
  <2>2. enc.stopReason = chatAgg.stopReason /\ enc.usage = chatAgg.usage
    BY <2>1 DEF Alike
  <2>3. /\ Positions(frames, "finish") = {Len(frames) - 2}
        /\ Positions(frames, "usage") = {Len(frames) - 1}
    BY <1>1, <1>4, EndPositions
  <2>4. /\ frames[Len(frames) - 2].reason = ChatFinishReason(enc.stopReason)
        /\ frames[Len(frames) - 1].usage = ChatUsageFrom(enc.usage)
    BY <1>1, <1>4 DEF Ordered, FinishFrame, UsageFrame
  <2> QED
    BY <1>2, <2>2, <2>3, <2>4
<1>5. ~enc.finished => Positions(frames, "finish") = {} /\ Positions(frames, "usage") = {}
  BY <1>1, EndPositions
<1> QED
  BY <1>3, <1>4, <1>5 DEF StreamMatchesCompletion, result

LEMMA FailureIsTold == AnswersInv => FailureNeverLooksLikeSuccess
<1> SUFFICES ASSUME AnswersInv, hasError \/ panicked
             PROVE  /\ Positions(frames, "done") = {} /\ Positions(frames, "finish") = {}
                    /\ frames # <<>> /\ ~panicked => frames[Len(frames)].frame = "error"
  BY DEF FailureNeverLooksLikeSuccess
<1>1. hasError
  BY DEF AnswersInv, ErrorsTold
<1>2. ~enc.finished
  BY <1>1, FinishedWell
<1>3. Coded(out, enc, frames, chatAgg) /\ Ordered(enc, frames) /\ IsSequence(frames)
  BY DEF AnswersInv, Mirrored, Coded
<1>4. Positions(frames, "done") = {} /\ Positions(frames, "finish") = {}
  BY <1>2, <1>3, EndPositions
<1>5. ASSUME frames # <<>>, ~panicked PROVE frames[Len(frames)].frame = "error"
  <2>1. EndEvents(out) # {}
    BY <1>1, <1>5 DEF AnswersInv, ErrorsTold, EndEvents
  <2>2. enc.hasError
    BY <1>2, <1>3, <2>1 DEF Coded, Silenced
  <2> QED
    BY <1>3, <1>5, <2>2 DEF Ordered
<1> QED
  BY <1>4, <1>5

\* What each endpoint makes of a usage object.
LEMMA TokensOf ==
  ASSUME NEW u \in UsageObject, NEW n \in Nat, u = NoUsage \/ u.outputTokens # 0
  PROVE  LET d == DeltaUsage(u, n)
             chat == ChatUsageFrom(d)
             responses == ResponsesUsageFromDelta(d)
             cached == IF u.cachedInputTokens > 0 THEN u.cachedInputTokens ELSE u.details.cacheRead
         IN /\ chat.prompt_tokens = u.details.cacheWrite +
                 (IF u.details.noCache >= 0 THEN u.details.noCache + cached
                  ELSE IF u.inputTokens > cached THEN u.inputTokens ELSE cached)
            /\ chat.cached_tokens = cached
            /\ chat.total_tokens = chat.prompt_tokens + n
            /\ chat.prompt_tokens = responses.input_tokens
            /\ chat.cached_tokens = responses.cached_tokens
            /\ chat.total_tokens = responses.total_tokens
<1>1. Normalize(u) = u
  BY DEF Normalize
<1> DEFINE d == DeltaUsage(u, n)
           chat == ChatUsageFrom(d)
           responses == ResponsesUsageFromDelta(d)
           read == CacheRead(u)
           fresh == Uncached(u)
           cached == IF u.cachedInputTokens > 0 THEN u.cachedInputTokens ELSE u.details.cacheRead
<1>2. /\ u.details.cacheWrite \in Nat /\ u.details.cacheRead \in Nat
      /\ u.details.noCache \in Int /\ u.inputTokens \in Nat /\ u.cachedInputTokens \in Nat
  BY DEF UsageObject, Details
<1>3. d.input = fresh /\ d.output = n /\ d.cacheRead = read /\ d.cacheCreation = u.details.cacheWrite
  BY <1>1 DEF DeltaUsage
<1>4. read = cached /\ read \in Nat
  BY <1>2 DEF CacheRead
<1>5. /\ fresh = IF u.details.noCache >= 0 THEN u.details.noCache
                 ELSE IF u.inputTokens >= read THEN u.inputTokens - read ELSE 0
      /\ fresh \in Nat
  BY <1>2, <1>4 DEF Uncached
<1> HIDE DEF d, read, fresh, cached
<1>6. /\ chat.prompt_tokens = d.input + d.cacheRead + d.cacheCreation
      /\ chat.total_tokens = (d.input + d.cacheRead + d.cacheCreation) + d.output
      /\ chat.cached_tokens = d.cacheRead
  BY DEF ChatUsageFrom
<1>7. /\ responses.input_tokens = d.cacheCreation + d.cacheRead + d.input
      /\ responses.total_tokens = (d.cacheCreation + d.cacheRead + d.input) + d.output
      /\ responses.cached_tokens = d.cacheRead
  BY DEF ResponsesUsageFromDelta
<1> HIDE DEF chat, responses
<1>8. chat.prompt_tokens = u.details.cacheWrite +
        (IF u.details.noCache >= 0 THEN u.details.noCache + cached
         ELSE IF u.inputTokens > cached THEN u.inputTokens ELSE cached)
  BY <1>2, <1>3, <1>4, <1>5, <1>6
<1>9. /\ chat.total_tokens = chat.prompt_tokens + n /\ chat.cached_tokens = cached
      /\ chat.prompt_tokens = responses.input_tokens
      /\ chat.cached_tokens = responses.cached_tokens
      /\ chat.total_tokens = responses.total_tokens
  BY <1>2, <1>3, <1>4, <1>5, <1>6, <1>7
<1> QED
  BY <1>8, <1>9 DEF d, chat, responses, cached

LEMMA TokensAreToldOnce == AnswersInv => TokensAddUp
<1> SUFFICES ASSUME AnswersInv, NEW i \in 1..Len(out), out[i].name = "message_delta"
             PROVE  LET u         == LatestUsage
                        chat      == Completion(chatAgg).usage
                        responses == ResponsesUsageFromDelta(out[i].usage)
                        cached    == IF u.cachedInputTokens > 0 THEN u.cachedInputTokens
                                     ELSE u.details.cacheRead
                    IN /\ Message(agg).usage = out[i].usage
                       /\ chat.prompt_tokens = u.details.cacheWrite +
                            (IF u.details.noCache >= 0 THEN u.details.noCache + cached
                             ELSE IF u.inputTokens > cached THEN u.inputTokens ELSE cached)
                       /\ chat.cached_tokens = cached
                       /\ chat.total_tokens = chat.prompt_tokens + TokensReported
                       /\ chat.prompt_tokens = responses.input_tokens
                       /\ chat.cached_tokens = responses.cached_tokens
                       /\ chat.total_tokens = responses.total_tokens
  BY DEF TokensAddUp
<1>1. TypeOK /\ Accounts /\ EndsProperly /\ TokensTold /\ Mirrored
  BY DEF AnswersInv, IInv, EndsInv
<1>2. ~hasError /\ i = Len(out) - 1
  BY <1>1 DEF EndsProperly
<1>3. \A k \in (i + 1)..Len(out) : out[k].name # "message_delta"
  <2>1. out \in Seq(Event)
    BY <1>1 DEF TypeOK
  <2>2. \A k \in (i + 1)..Len(out) : k \in 1..Len(out) /\ k # Len(out) - 1
    BY <1>2, <2>1
  <2> QED
    BY <1>1, <2>2 DEF EndsProperly
<1> DEFINE d == out[i].usage
           u == LatestUsage
           n == OutputTokens
<1>4. agg.usage = d
  BY <1>1, <1>3 DEF Mirrored, Aggregated, Billed
<1>5. chatAgg.usage = d
  BY <1>1, <1>2, <1>3, CleanStream DEF Mirrored, Coded, Billed
<1>6. d = DeltaUsage(usage, n) /\ n # 0
  BY <1>1 DEF TokensTold
<1>7. usage = u
  BY <1>1 DEF Accounts, TokensTold, LatestUsage
<1>8. usage \in UsageObject /\ n \in Nat /\ (usage = NoUsage \/ usage.outputTokens # 0)
  BY <1>1, <1>6 DEF TypeOK, OutputTokens, UsageObject, TokensTold
<1>9. n = TokensReported
  BY <1>1, Reported
<1>10. Message(agg).usage = d /\ Completion(chatAgg).usage = ChatUsageFrom(d)
  BY <1>4, <1>5 DEF Message, Completion
<1> HIDE DEF d, u, n
<1>11. u \in UsageObject /\ n \in Nat /\ (u = NoUsage \/ u.outputTokens # 0) /\ d = DeltaUsage(u, n)
  BY <1>6, <1>7, <1>8
<1> QED
  BY <1>9, <1>10, <1>11, TokensOf DEF d, u

---------------------------------------------------------------------------
(* The inputs of the tools. *)

\* In stream s each tool block is started for a call among the lines f and has
\* one delta, the next event, with the input of that call.
ToolsKept(f, s) ==
  LET calls == ToolLines(f)  tools == ToolStarts(s)
  IN /\ Cardinality(calls) = Cardinality(tools)
     /\ \A j \in tools : InputDeltas(s, s[j].index) = {j + 1}
     /\ \A i \in calls, j \in tools : Place(calls, i) = Place(tools, j) =>
          s[j + 1].payload = <<PartialJSON(f[i].input)>>

LEMMA ToolStartAdded ==
  ASSUME NEW s \in Seq(Event), NEW e \in Event
  PROVE  /\ ToolStarts(s) \subseteq 1..Len(s)
         /\ (IsStart(e) /\ e.kind = "tool_use") =>
              ToolStarts(Append(s, e)) = ToolStarts(s) \cup {Len(s) + 1}
         /\ ~(IsStart(e) /\ e.kind = "tool_use") => ToolStarts(Append(s, e)) = ToolStarts(s)
<1> DEFINE t == Append(s, e)
           n == Len(s) + 1
<1>1. /\ t[n] = e /\ \A i \in 1..Len(s) : t[i] = s[i]
      /\ Len(s) \in Nat /\ n \notin 1..Len(s)
  BY AppendSeq
<1>2. /\ Starts(s) \subseteq 1..Len(s)
      /\ IsStart(e)  => Starts(t) = Starts(s) \cup {n}
      /\ ~IsStart(e) => Starts(t) = Starts(s)
  BY StartAdded
<1> HIDE DEF t, n
<1>3. /\ (IsStart(e) /\ e.kind = "tool_use") => ToolStarts(t) = ToolStarts(s) \cup {n}
      /\ ~(IsStart(e) /\ e.kind = "tool_use") => ToolStarts(t) = ToolStarts(s)
  BY <1>1, <1>2 DEF ToolStarts
<1> QED
  BY <1>2, <1>3 DEF t, n, ToolStarts
\* Events that are not about tools.
LEMMA NoToolAdded ==
  ASSUME NEW f, NEW s \in Seq(Event), ToolsKept(f, s), NEW e \in Event,
         ~(IsStart(e) /\ e.kind = "tool_use"), ~(IsDelta(e) /\ e.delta = "input_json_delta")
  PROVE  ToolsKept(f, Append(s, e)) /\ Append(s, e) \in Seq(Event)
<1> DEFINE t == Append(s, e)
           tools == ToolStarts(s)
<1>1. t \in Seq(Event) /\ \A i \in 1..Len(s) : t[i] = s[i]
  BY AppendSeq
<1>2. tools \subseteq 1..Len(s) /\ ToolStarts(t) = tools
  BY ToolStartAdded
<1>3. \A b : InputDeltas(t, b) = InputDeltas(s, b) /\ InputDeltas(s, b) \subseteq 1..Len(s)
  BY DeltaAdded
<1> HIDE DEF t
<1>4. \A j \in tools : InputDeltas(s, s[j].index) = {j + 1}
  BY DEF ToolsKept
<1>5. \A j \in tools : t[j] = s[j] /\ t[j + 1] = s[j + 1] /\ InputDeltas(t, t[j].index) = {j + 1}
  <2> TAKE j \in tools
  <2>1. j + 1 \in 1..Len(s) /\ j \in 1..Len(s)
    BY <1>2, <1>3, <1>4
  <2> QED
    BY <1>1, <1>3, <1>4, <2>1
<1>6. ToolsKept(f, t)
  BY <1>2, <1>5 DEF ToolsKept
<1> QED
  BY <1>1, <1>6 DEF t

\* Lines that are not about tools.
LEMMA NoToolTaken ==
  ASSUME NEW f \in Seq(Line), NEW s, ToolsKept(f, s), NEW l \in Line, l.type # "tool-call"
  PROVE  ToolsKept(Append(f, l), s)
<1> DEFINE g == Append(f, l)
<1>1. ToolLines(g) = ToolLines(f) /\ ToolLines(f) \subseteq 1..Len(f)
  BY LineAppended, LinePositions
<1>2. \A i \in 1..Len(f) : g[i] = f[i]
  BY AppendSeq
<1> HIDE DEF g
<1>3. ToolsKept(g, s)
  BY <1>1, <1>2 DEF ToolsKept
<1> QED
  BY <1>3 DEF g

\* A tool call and the events it becomes.
LEMMA ToolTaken ==
  ASSUME NEW f \in Seq(Line), NEW s \in Seq(Event), ToolsKept(f, s),
         NEW l \in Line, l.type = "tool-call",
         NEW a \in Event, IsStart(a), a.kind = "tool_use",
         NEW b \in Event, IsDelta(b), b.delta = "input_json_delta", b.index = a.index,
         b.payload = <<PartialJSON(l.input)>>,
         InputDeltas(s, a.index) = {}, \A j \in ToolStarts(s) : s[j].index # a.index
  PROVE  ToolsKept(Append(f, l), Append(Append(s, a), b))
<1> DEFINE g == Append(f, l)
           m == Len(f) + 1
           r == Append(s, a)
           t == Append(r, b)
           n == Len(s) + 1
           P == ToolLines(f)
           Q == ToolStarts(s)
<1>1. /\ Len(f) \in Nat /\ Len(s) \in Nat /\ g[m] = l
      /\ \A i \in 1..Len(f) : g[i] = f[i]
  BY AppendSeq
<1>2. ToolLines(g) = P \cup {m} /\ P \subseteq 1..Len(f)
  BY LineAppended, LinePositions
<1>3. /\ r \in Seq(Event) /\ Len(r) = n /\ r[n] = a
      /\ \A i \in 1..Len(s) : r[i] = s[i]
  BY AppendSeq
<1>4. ToolStarts(r) = Q \cup {n} /\ Q \subseteq 1..Len(s)
  BY ToolStartAdded
<1>5. ~IsDelta(a) /\ ~IsStart(b)
  BY DEF IsStart, IsDelta
<1>6. \A x : InputDeltas(r, x) = InputDeltas(s, x) /\ InputDeltas(s, x) \subseteq 1..Len(s)
  BY <1>5, DeltaAdded
<1> HIDE DEF r
<1>7. /\ Len(t) = n + 1 /\ t[n + 1] = b
      /\ \A i \in 1..n : t[i] = r[i]
  BY <1>1, <1>3, AppendSeq
<1>8. ToolStarts(t) = Q \cup {n}
  BY <1>3, <1>4, <1>5, ToolStartAdded
<1>9. /\ InputDeltas(t, a.index) = InputDeltas(r, a.index) \cup {n + 1}
      /\ \A x : x # a.index => InputDeltas(t, x) = InputDeltas(r, x)
  <2> DEFINE k == a.index
  <2>1. /\ r \in Seq(Event) /\ b \in Event
        /\ IsDelta(b) /\ b.delta = "input_json_delta" /\ b.index = k
    BY <1>3
  <2> HIDE DEF k
  <2>2. InputDeltas(Append(r, b), k) = InputDeltas(r, k) \cup {Len(r) + 1}
    BY ONLY <2>1, DeltaAdded
  <2>3. ASSUME NEW x, x # k PROVE InputDeltas(Append(r, b), x) = InputDeltas(r, x)
    BY ONLY <2>1, <2>3, DeltaAdded
  <2> QED
    BY <1>3, <2>2, <2>3 DEF k
<1> HIDE DEF g, m, t, n, P, Q
<1>10. /\ Cardinality(P) = Cardinality(Q)
       /\ \A j \in Q : InputDeltas(s, s[j].index) = {j + 1}
       /\ \A i \in P, j \in Q : Place(P, i) = Place(Q, j) =>
            s[j + 1].payload = <<PartialJSON(f[i].input)>>
  BY DEF ToolsKept, P, Q
<1>11. /\ Cardinality(P \cup {m}) = Cardinality(P) + 1
       /\ Place(P \cup {m}, m) = Cardinality(P) + 1
       /\ \A i \in P : Place(P \cup {m}, i) = Place(P, i)
  BY <1>1, <1>2, PositionAdded DEF m
<1>12. /\ Cardinality(Q \cup {n}) = Cardinality(Q) + 1
       /\ Place(Q \cup {n}, n) = Cardinality(Q) + 1
       /\ \A j \in Q : Place(Q \cup {n}, j) = Place(Q, j)
  BY <1>1, <1>4, PositionAdded DEF n
<1>13. /\ Cardinality(P) \in Nat
       /\ \A i \in P : Place(P, i) \in Nat /\ Place(P, i) <= Cardinality(P)
       /\ \A j \in Q : Place(Q, j) \in Nat /\ Place(Q, j) <= Cardinality(Q)
  BY <1>1, <1>2, <1>4, PositionsFinite, PlaceType
<1>14. \A i \in P : g[i] = f[i]
  BY <1>1, <1>2
<1>15. \A j \in Q : t[j] = s[j] /\ t[j + 1] = s[j + 1]
  <2> TAKE j \in Q
  <2>1. j \in 1..Len(s) /\ j + 1 \in 1..Len(s)
    BY <1>4, <1>6, <1>10
  <2>2. j \in 1..n /\ j + 1 \in 1..n
    BY <1>1, <2>1 DEF n
  <2> QED
    BY <1>3, <1>7, <2>1, <2>2
<1>16. t[n] = a
  <2>1. n \in 1..n
    BY <1>1 DEF n
  <2> QED
    BY <1>3, <1>7, <2>1
<1>17. ASSUME NEW j \in Q \cup {n} PROVE InputDeltas(t, t[j].index) = {j + 1}
  <2>1. CASE j = n
    BY <1>6, <1>9, <1>16, <2>1
  <2>2. CASE j # n
    <3>1. j \in Q /\ s[j].index # a.index
      BY <2>2 DEF Q
    <3> QED
      BY <1>6, <1>9, <1>10, <1>15, <3>1
  <2> QED
    BY <2>1, <2>2
<1>18. ASSUME NEW i \in P \cup {m}, NEW j \in Q \cup {n},
              Place(P \cup {m}, i) = Place(Q \cup {n}, j)
       PROVE  t[j + 1].payload = <<PartialJSON(g[i].input)>>
  <2>1. CASE i \in P /\ j \in Q
    <3>1. Place(P, i) = Place(Q, j)
      BY <1>11, <1>12, <1>18, <2>1
    <3> QED
      BY <1>10, <1>14, <1>15, <2>1, <3>1
  <2>2. CASE i \in P /\ j \notin Q
    <3>1. Place(P, i) = Cardinality(P) + 1
      BY <1>10, <1>11, <1>12, <1>18, <2>2
    <3> QED
      BY <1>13, <2>2, <3>1
  <2>3. CASE i \notin P /\ j \in Q
    <3>1. Place(Q, j) = Cardinality(Q) + 1
      BY <1>10, <1>11, <1>12, <1>18, <2>3
    <3> QED
      BY <1>10, <1>13, <2>3, <3>1
  <2>4. CASE i \notin P /\ j \notin Q
    BY <1>1, <1>7, <2>4
  <2> QED
    BY <2>1, <2>2, <2>3, <2>4
<1>19. Cardinality(P \cup {m}) = Cardinality(Q \cup {n})
  BY <1>10, <1>11, <1>12
<1>20. ToolLines(g) = P \cup {m}
  BY <1>2
<1>21. ToolsKept(g, t)
  BY <1>8, <1>17, <1>18, <1>19, <1>20 DEF ToolsKept
<1> QED
  BY <1>21 DEF g, t, r

\* Nothing in a stream has the number of the next block.
LEMMA NumberIsFree ==
  ASSUME NEW s \in Seq(Event), NEW kind, NEW index, NEW next \in Nat, NEW last,
         WellFormed(s, kind, index, next, last)
  PROVE  InputDeltas(s, next) = {} /\ \A j \in ToolStarts(s) : s[j].index # next
<1>1. \A i \in 1..Len(s) : IsStart(s[i]) => s[i].index # next
  <2> TAKE i \in 1..Len(s)
  <2>1. s[i] \in Event
    OBVIOUS
  <2>2. IsStart(s[i]) => s[i].index \in Nat /\ s[i].index < next
    BY <2>1, StartType DEF WellFormed
  <2> QED
    BY <2>2
<1>2. ASSUME NEW k \in InputDeltas(s, next) PROVE FALSE
  <2>1. k \in 1..Len(s) /\ IsDelta(s[k]) /\ s[k].index = next
    BY DEF InputDeltas
  <2>2. PICK j \in 1..(k - 1) : IsStart(s[j]) /\ s[j].index = next
    BY <2>1 DEF WellFormed, Disciplined, DeltaIsOfOpenBlock, OpenUntil
  <2>3. j \in 1..Len(s)
    BY <2>1
  <2> QED
    BY <1>1, <2>2, <2>3
<1> QED
  BY <1>1, <1>2 DEF ToolStarts, Starts

LEMMA CloseBlockTools ==
  ASSUME TypeOK, ToolsKept(fed, out) PROVE ToolsKept(fed, CloseBlock(out))
<1> DEFINE signature == BlockDelta(openIndex, "signature_delta", thinkingText)
           stop == BlockStop(openIndex)
<1>1. /\ out \in Seq(Event) /\ openIndex \in Nat /\ openType \in {None, "text", "thinking"}
      /\ thinkingText \in Seq(Texts \cup JSONTexts)
  BY SeqOfSubset DEF TypeOK
<1>2. signature \in Event /\ stop \in Event
  BY <1>1, EventTypes
<1>3. ~IsDelta(stop) /\ ~IsStart(stop) /\ signature.delta = "signature_delta" /\ ~IsStart(signature)
  BY DEF IsDelta, IsStart, BlockStop, BlockDelta
<1>4. CloseBlock(out) \in {out, Append(out, stop), Append(Append(out, signature), stop)}
  BY <1>1 DEF CloseBlock
<1> HIDE DEF signature, stop
<1>5. ToolsKept(fed, Append(out, stop))
  BY <1>1, <1>2, <1>3, NoToolAdded
<1>6. ToolsKept(fed, Append(out, signature)) /\ Append(out, signature) \in Seq(Event)
  BY <1>1, <1>2, <1>3, NoToolAdded
<1>7. ToolsKept(fed, Append(Append(out, signature), stop))
  BY <1>2, <1>3, <1>6, NoToolAdded
<1> QED
  BY <1>4, <1>5, <1>6, <1>7

LEMMA InitTools == Init => ToolsKept(fed, out)
<1> SUFFICES ASSUME Init PROVE ToolsKept(fed, out)
  OBVIOUS
<1>1. Len(fed) = 0 /\ Len(out) = 1 /\ out[1] = MessageStart
  BY NothingIsSeq DEF Init
<1>2. ToolLines(fed) = {} /\ ToolStarts(out) = {}
  BY <1>1 DEF ToolLines, ToolStarts, Starts, IsStart, MessageStart
<1> QED
  BY <1>2 DEF ToolsKept

LEMMA NextTools == IInv /\ ToolsKept(fed, out) /\ [Next]_vars => ToolsKept(fed, out)'
<1> SUFFICES ASSUME IInv, ToolsKept(fed, out), [Next]_vars PROVE ToolsKept(fed', out')
  OBVIOUS
<1>0. PICK last \in Kinds : TypeOK /\ Bookkept(last)
  BY DEF IInv
<1> DEFINE s == CloseBlock(out)
<1>1. /\ fed \in Seq(Line) /\ out \in Seq(Event) /\ nextIndex \in Nat /\ openIndex \in Nat
  BY <1>0 DEF TypeOK
<1>2. s \in Seq(Event) /\ ToolsKept(fed, s)
  BY <1>0, CloseBlockType, CloseBlockTools
<1>3. WellFormed(s, None, openIndex, nextIndex, last)
  BY <1>0, CloseBlockFits
<1> HIDE DEF s
<1>4. ASSUME NEW l \in Line, l.type # "tool-call", fed' = Append(fed, l), ToolsKept(fed, out')
      PROVE  ToolsKept(fed', out')
  BY <1>1, <1>4, NoToolTaken
<1>5. CASE FeedIgnored
  <2>1. [type |-> "ignored"] \in Line
    BY DEF Line
  <2>2. fed' = Append(fed, [type |-> "ignored"]) /\ out' = out
    BY <1>5 DEF FeedIgnored, Take
  <2> QED
    BY <1>4, <2>1, <2>2
<1>6. ASSUME NEW kind \in {"text", "thinking"}, NEW text \in Texts, FeedDelta(kind, text)
      PROVE  ToolsKept(fed', out')
  <2> DEFINE l == [type |-> kind, text |-> text]
             a == BlockStart(nextIndex, kind)
             b == BlockDelta(nextIndex, DeltaOf(kind), <<text>>)
             c == BlockDelta(openIndex, DeltaOf(kind), <<text>>)
  <2>1. l \in Line /\ l.type # "tool-call" /\ fed' = Append(fed, l)
    BY <1>6 DEF Line, FeedDelta, Take
  <2>2. <<text>> \in Seq(Texts \cup JSONTexts)
    BY SingletonSeq
  <2>3. a \in Event /\ b \in Event /\ c \in Event
    BY <1>1, <2>2, EventTypes DEF DeltaOf, Kinds
  <2>4. /\ ~IsDelta(a) /\ a.kind # "tool_use" /\ ~IsStart(b) /\ b.delta # "input_json_delta"
        /\ ~IsStart(c) /\ c.delta # "input_json_delta"
    BY DEF IsDelta, IsStart, BlockStart, BlockDelta, DeltaOf
  <2>5. out' = Append(out, c) \/ out' = Append(Append(s, a), b)
    BY <1>6, Zenon DEF FeedDelta, s
  <2> HIDE DEF l, a, b, c
  <2>6. ToolsKept(fed, Append(out, c))
    BY <1>1, <2>3, <2>4, NoToolAdded
  <2>7. ToolsKept(fed, Append(s, a)) /\ Append(s, a) \in Seq(Event)
    BY <1>2, <2>3, <2>4, NoToolAdded
  <2>8. ToolsKept(fed, Append(Append(s, a), b))
    BY <2>3, <2>4, <2>7, NoToolAdded
  <2> QED
    BY <1>4, <2>1, <2>5, <2>6, <2>8
<1>7. ASSUME NEW input \in ToolInputs, FeedToolCall(input) PROVE ToolsKept(fed', out')
  <2> DEFINE l == [type |-> "tool-call", input |-> input]
             j == PartialJSON(input)
             a == BlockStart(nextIndex, "tool_use")
             b == BlockDelta(nextIndex, "input_json_delta", <<j>>)
             c == BlockStop(nextIndex)
  <2>1. l \in Line /\ l.type = "tool-call" /\ l.input = input /\ fed' = Append(fed, l)
    BY <1>7 DEF Line, FeedToolCall, Take
  <2>2. /\ a \in Event /\ IsStart(a) /\ a.kind = "tool_use" /\ a.index = nextIndex
        /\ c \in Event /\ ~IsStart(c) /\ ~IsDelta(c)
    BY <1>1, EventTypes DEF Kinds, IsStart, IsDelta, BlockStart, BlockStop
  <2>3. out' = Append(Append(Append(s, a), b), c)
    BY <1>7 DEF FeedToolCall, s
  <2>4. b \in Event
    <3>1. <<j>> \in Seq(Texts \cup JSONTexts)
      BY PartialJSONType, SingletonSeq
    <3> HIDE DEF j
    <3> QED
      BY <1>1, <3>1, EventTypes
  <2>5. IsDelta(b) /\ b.delta = "input_json_delta" /\ b.index = nextIndex /\ b.payload = <<j>>
    BY DEF IsDelta, BlockDelta
  <2>6. b.index = a.index /\ b.payload = <<PartialJSON(l.input)>>
    BY <2>1, <2>2, <2>5
  <2>7. InputDeltas(s, nextIndex) = {} /\ \A k \in ToolStarts(s) : s[k].index # nextIndex
    BY <1>1, <1>2, <1>3, NumberIsFree
  <2> HIDE DEF l, a, b, c, j
  <2>8. ToolsKept(fed', Append(Append(s, a), b))
    BY <1>1, <1>2, <2>1, <2>2, <2>4, <2>5, <2>6, <2>7, ToolTaken
  <2> DEFINE u == Append(Append(s, a), b)
  <2>9. u \in Seq(Event) /\ ToolsKept(fed', u)
    <3>1. Append(s, a) \in Seq(Event)
      BY <1>2, <2>2, AppendSeq
    <3> QED
      BY <2>4, <2>8, <3>1, AppendSeq
  <2>11. out' = Append(u, c)
    BY <2>3
  <2> HIDE DEF u
  <2>10. ToolsKept(fed', Append(u, c))
    BY <2>2, <2>9, NoToolAdded
  <2> QED
    BY <2>10, <2>11
<1>8. ASSUME NEW reason \in Reasons \cup {None}, NEW u \in OptionalUsage,
             FeedFinishStep(reason, u) \/ FeedFinish(reason, u)
      PROVE  ToolsKept(fed', out')
  <2> DEFINE l(type) == [type |-> type, reason |-> reason, usage |-> u]
  <2>1. /\ l("finish-step") \in Line /\ l("finish") \in Line
        /\ l("finish-step").type # "tool-call" /\ l("finish").type # "tool-call"
    BY DEF Line
  <2>2. /\ out' = out
        /\ fed' = Append(fed, l("finish-step")) \/ fed' = Append(fed, l("finish"))
    BY <1>8 DEF FeedFinishStep, FeedFinish, Take
  <2> HIDE DEF l
  <2> QED
    BY <1>4, <2>1, <2>2
<1>9. ASSUME NEW m \in Messages, FeedError(m) PROVE ToolsKept(fed', out')
  <2> DEFINE l == [type |-> "error", message |-> m]
             e == ErrorEvent(m)
  <2>1. l \in Line /\ l.type # "tool-call" /\ fed' = Append(fed, l) /\ out' = Append(out, e)
    BY <1>9 DEF Line, FeedError, Take
  <2>2. e \in Event /\ ~IsDelta(e) /\ ~IsStart(e)
    BY EventTypes DEF ErrorEvent, IsDelta, IsStart
  <2> HIDE DEF l, e
  <2>3. ToolsKept(fed, Append(out, e))
    BY <1>1, <2>2, NoToolAdded
  <2> QED
    BY <1>4, <2>1, <2>3
<1>10. CASE FeedErrorWithoutDetail
  <2>1. [type |-> "error", message |-> None] \in Line
    BY DEF Line
  <2>2. fed' = Append(fed, [type |-> "error", message |-> None]) /\ out' = out
    BY <1>10 DEF FeedErrorWithoutDetail, Take
  <2> QED
    BY <1>4, <2>1, <2>2
<1>11. CASE Finish
  <2>1. fed' = fed
    BY <1>11 DEF Finish
  <2>2. CASE hasError
    <3>1. out' = out
      BY <1>11, <2>2 DEF Finish
    <3> QED
      BY <2>1, <3>1
  <2>3. CASE ~hasError
    <3> DEFINE d == MessageDelta(stopReason', DeltaUsage(usage, OutputTokens))
               z == ErrorEvent(ZeroOutput)
    <3>1. out' \in {Append(s, z), Append(Append(s, d), MessageStop)}
      BY <1>11, <2>3 DEF Finish, s
    <3>2. d \in Event /\ z \in Event /\ MessageStop \in Event
      BY <1>0, <1>11, <2>3, EndType, EventTypes
    <3>3. /\ ~IsDelta(d) /\ ~IsDelta(z) /\ ~IsDelta(MessageStop)
          /\ ~IsStart(d) /\ ~IsStart(z) /\ ~IsStart(MessageStop)
      BY DEF IsDelta, IsStart, MessageDelta, ErrorEvent, MessageStop
    <3> HIDE DEF d, z
    <3>4. /\ ToolsKept(fed, Append(s, z)) /\ ToolsKept(fed, Append(s, d))
          /\ Append(s, d) \in Seq(Event)
      BY <1>2, <3>2, <3>3, NoToolAdded
    <3>5. ToolsKept(fed, Append(Append(s, d), MessageStop))
      BY <3>2, <3>3, <3>4, NoToolAdded
    <3> QED
      BY <2>1, <3>1, <3>4, <3>5
  <2> QED
    BY <2>2, <2>3
<1>12. CASE UNCHANGED vars
  BY <1>12 DEF vars
<1> QED
  BY <1>5, <1>6, <1>7, <1>8, <1>9, <1>10, <1>11, <1>12 DEF Next, Feed

\* Two sets whose members correspond have the same number of them.
LEMMA SameNumber ==
  ASSUME NEW Q, IsFiniteSet(Q), NEW T, NEW g \in [Q -> T],
         \A i, j \in Q : g[i] = g[j] => i = j, \A p \in T : \E i \in Q : g[i] = p
  PROVE  Cardinality(T) = Cardinality(Q)
<1>1. g \in Bijection(Q, T)
  BY DEF Bijection, Injection, Surjection, IsInjective
<1>2. ExistsBijection(Q, T)
  BY <1>1 DEF ExistsBijection
<1> QED
  BY <1>2, FS_Bijection

\* g takes the positions Q to the numbers T, all of them and in their order.
InStep(n, Q, T, g) ==
  /\ n \in Nat /\ Q \subseteq 1..n /\ T \subseteq Int /\ g \in [Q -> T]
  /\ \A i, j \in Q : i < j => g[i] < g[j]
  /\ \A p \in T : \E i \in Q : g[i] = p

\* Such positions have the same places.
LEMMA SamePlaces ==
  ASSUME NEW n, NEW Q, NEW T, NEW g, InStep(n, Q, T, g)
  PROVE  Cardinality(T) = Cardinality(Q) /\ \A j \in Q : Place(T, g[j]) = Place(Q, j)
<1> USE DEF InStep
<1>0. IsFiniteSet(Q)
  BY PositionsFinite
<1>1. \A i \in Q : i \in Int /\ g[i] \in Int /\ g[i] \in T
  <2> TAKE i \in Q
  <2>1. i \in 1..n
    OBVIOUS
  <2>2. g[i] \in T
    OBVIOUS
  <2>3. i \in Int
    BY ONLY <2>1
  <2>4. g[i] \in Int
    BY <2>2
  <2> QED
    BY ONLY <2>2, <2>3, <2>4
<1>2. ASSUME NEW i \in Q, NEW j \in Q PROVE (g[i] = g[j] => i = j) /\ (g[i] <= g[j] <=> i <= j)
  <2>1. i < j \/ i = j \/ j < i
    BY <1>1
  <2>2. (i < j => g[i] < g[j]) /\ (j < i => g[j] < g[i])
    OBVIOUS
  <2> QED
    BY <1>1, <2>1, <2>2
<1>2a. \A i, j \in Q : g[i] = g[j] => i = j
  BY <1>2
<1>3. Cardinality(T) = Cardinality(Q)
  BY <1>0, <1>2a, SameNumber
<1>4. ASSUME NEW j \in Q PROVE Place(T, g[j]) = Place(Q, j)
  <2> DEFINE R == {i \in Q : i <= j}
             U == {p \in T : p <= g[j]}
             h == [i \in R |-> g[i]]
  <2>1. IsFiniteSet(R)
    <3>1. R \in SUBSET Q
      OBVIOUS
    <3> QED
      BY <1>0, <3>1, FS_Subset
  <2>2. h \in [R -> U] /\ \A i \in R : h[i] = g[i] /\ i \in Q
    BY <1>1, <1>2
  <2>3. ASSUME NEW p \in U PROVE \E i \in R : h[i] = p
    <3>1. PICK i \in Q : g[i] = p
      OBVIOUS
    <3>2. i \in R
      BY <1>2, <3>1
    <3> QED
      BY <2>2, <3>1, <3>2
  <2> HIDE DEF h
  <2>4. \A i, k \in R : h[i] = h[k] => i = k
    BY <1>2, <2>2
  <2> HIDE DEF R, U
  <2>5. Cardinality(U) = Cardinality(R)
    BY <2>1, <2>2, <2>3, <2>4, SameNumber
  <2> QED
    BY <2>5 DEF Place, R, U
<1> QED
  BY <1>3, <1>4

\* What becomes of an input on its way into the message.
LEMMA InputOfMessage ==
  ASSUME NEW input \in ToolInputs
  PROVE  MessageInput(<<PartialJSON(input)>>) =
           IF input \in {"object", "jsonString"} THEN "json" ELSE "emptyObject"
<1> DEFINE x == PartialJSON(input)
<1>1. \/ input \in {"object", "jsonString"} /\ x = "json"
      \/ input \notin {"object", "jsonString"} /\ x \in {"emptyObject", "bad", "empty"}
  BY InputsAssumption DEF PartialJSON, AllToolInputs
<1> HIDE DEF x
<1>2. <<x>> # <<"json">> <=> x # "json"
  OBVIOUS
<1>3. <<x>> # <<"emptyObject">> <=> x # "emptyObject"
  OBVIOUS
<1>4. ValidJSON(<<x>>) <=> x \in {"json", "emptyObject"}
  BY <1>2, <1>3 DEF ValidJSON
<1>5. MessageInput(<<x>>) = IF x \in {"json", "emptyObject"} THEN x ELSE "emptyObject"
  BY <1>4 DEF MessageInput
<1> QED
  BY <1>1, <1>5 DEF x

LEMMA ToolsApartInMessage == AnswersInv /\ ToolsKept(fed, out) => ToolInputsKeptApart
<1> SUFFICES ASSUME AnswersInv, ToolsKept(fed, out) PROVE ToolInputsKeptApart
  OBVIOUS
<1> DEFINE C == agg.content
           J == agg.inputJSON
           B == Message(agg).content
           P == ToolLines(fed)
           Q == ToolStarts(out)
           T == {p \in 1..Len(B) : B[p].type = "tool_use"}
           g == [j \in Q |-> out[j].index + 1]
<1>1. Aggregated(out, agg) /\ BlocksOf(out, C) /\ InputsOf(out, J) /\ Blocks(out, Len(C))
  BY DEF AnswersInv, Mirrored, Aggregated, BlocksOf
<1>2. /\ Len(B) = Len(C)
      /\ \A p \in 1..Len(C) :
           /\ B[p].type = C[p].type
           /\ p - 1 \in DOMAIN J => B[p].input = MessageInput(J[p - 1])
  BY <1>1, BlocksOfMessage
<1>3. Numbered(out) /\ out \in Seq(Event) /\ fed \in Seq(Line)
  BY DEF AnswersInv, IInv, TypeOK, Bookkept, WellFormed
<1>4. Len(C) \in Nat /\ Len(out) \in Nat
  BY <1>1, <1>3, SequenceLen DEF BlocksOf
<1>5. /\ Q \subseteq Starts(out) /\ Starts(out) \subseteq 1..Len(out)
      /\ \A j \in Starts(out) : IsStart(out[j]) /\ (j \in Q <=> out[j].kind = "tool_use")
  BY DEF ToolStarts, Starts
<1> HIDE DEF C, J, B, P, Q
<1>6. ASSUME NEW j \in Starts(out)
      PROVE  /\ out[j].index \in 0..(Len(C) - 1) /\ out[j].index + 1 \in 1..Len(B)
             /\ B[out[j].index + 1].type = out[j].kind
  <2>1. out[j].index \in 0..(Len(C) - 1)
    BY <1>1 DEF Blocks
  <2>2. C[out[j].index + 1].type = out[j].kind
    BY <1>1 DEF BlocksOf
  <2> QED
    BY <1>2, <1>4, <2>1, <2>2
<1>7. \A j \in Q : g[j] = out[j].index + 1 /\ g[j] \in T /\ g[j] - 1 = out[j].index
  BY <1>4, <1>5, <1>6
<1>8. ASSUME NEW i \in Q, NEW j \in Q, i < j PROVE g[i] < g[j]
  <2>1. i \in 1..(j - 1) /\ j \in 1..Len(out) /\ IsStart(out[i]) /\ IsStart(out[j])
    BY <1>4, <1>5, <1>8
  <2>2. out[i].index < out[j].index
    BY <1>3, <2>1 DEF Numbered, FollowsPrevious
  <2>3. out[i].index \in Int /\ out[j].index \in Int
    BY <1>4, <1>5, <1>6
  <2> QED
    BY <1>7, <2>2, <2>3
<1>9. ASSUME NEW p \in T PROVE \E j \in Q : g[j] = p
  <2>1. p \in 1..Len(C) /\ p - 1 \in 0..(Len(C) - 1)
    BY <1>2, <1>4
  <2>2. PICK j \in Starts(out) : out[j].index = p - 1
    BY <1>1, <2>1 DEF Blocks
  <2>3. out[j].index + 1 = p
    BY <2>1, <2>2
  <2>4. j \in Q
    BY <1>5, <1>6, <2>3
  <2> QED
    BY <1>7, <2>3, <2>4
<1>10. g \in [Q -> T] /\ T \subseteq Int /\ Q \subseteq 1..Len(out)
  BY <1>5, <1>7
<1> HIDE DEF g, T
<1>11. Cardinality(T) = Cardinality(Q) /\ \A j \in Q : Place(T, g[j]) = Place(Q, j)
  <2>1. (\A i, j \in Q : i < j => g[i] < g[j]) /\ (\A p \in T : \E i \in Q : g[i] = p)
    BY <1>8, <1>9
  <2> DEFINE n == Len(out)
  <2>2. InStep(n, Q, T, g)
    BY <1>4, <1>10, <2>1, Zenon DEF InStep
  <2> HIDE DEF n
  <2> QED
    BY <2>2, SamePlaces
<1>12. /\ Cardinality(P) = Cardinality(Q)
       /\ \A j \in Q : InputDeltas(out, out[j].index) = {j + 1}
       /\ \A i \in P, j \in Q : Place(P, i) = Place(Q, j) =>
            out[j + 1].payload = <<PartialJSON(fed[i].input)>>
  BY DEF ToolsKept, P, Q
<1>13. ASSUME NEW i \in P, NEW p \in T, Place(P, i) = Place(T, p)
       PROVE  B[p].input = IF fed[i].input \in {"object", "jsonString"} THEN "json" ELSE "emptyObject"
  <2>1. PICK j \in Q : g[j] = p
    BY <1>9
  <2>2. out[j + 1].payload = <<PartialJSON(fed[i].input)>>
    BY <1>11, <1>12, <1>13, <2>1
  <2>3. fed[i].input \in ToolInputs
    <3>1. i \in 1..Len(fed) /\ fed[i].type = "tool-call"
      BY DEF P, ToolLines
    <3>2. fed[i] \in Line
      BY <1>3, <3>1
    <3> QED
      BY <3>1, <3>2 DEF Line
  <2> DEFINE b == p - 1
             v == J[b]
             k == j + 1
  <2>4. b = out[j].index /\ p \in 1..Len(C)
    BY <1>2, <1>7, <2>1 DEF T
  <2>5. b \in DOMAIN J
    BY <1>1, <1>5, <2>4 DEF InputsOf
  <2>6. IsSequence(v) /\ Carried(v, out, InputDeltas(out, b))
    BY <1>1, <2>5 DEF InputsOf
  <2>7. k \in Nat /\ InputDeltas(out, b) = {k}
    <3>1. j \in 1..Len(out)
      BY <1>10
    <3>2. InputDeltas(out, b) = {k}
      BY <1>12, <2>4
    <3> QED
      BY <1>4, <3>1, <3>2
  <2>8. B[p].input = MessageInput(v)
    BY <1>2, <2>4, <2>5
  <2> HIDE DEF b, v, k
  <2>9. Carried(v, out, {k})
    BY <2>6, <2>7, Zenon
  <2>10. v = out[k].payload
    BY <2>6, <2>7, <2>9, WholeInput
  <2>11. v = <<PartialJSON(fed[i].input)>>
    BY <2>2, <2>10 DEF k
  <2>12. B[p].input = MessageInput(<<PartialJSON(fed[i].input)>>)
    BY <2>8, <2>11
  <2> QED
    BY <2>3, <2>12, InputOfMessage
<1> QED
  BY <1>11, <1>12, <1>13 DEF ToolInputsKeptApart, P, T, B

---------------------------------------------------------------------------
(* The theorems. *)

\* aggregate.go's Aggregator appends a delta to the latest block and never
\* looks at its index; still, whatever the stream, the message it builds is
\* what a client assembles from the same events by index.
THEOREM MessageIsTheStream == AnswersSpec => []MessageMatchesStream
BY InitAnswers, NextAnswers, MessageIsStream, PTL DEF AnswersSpec

\* The n-th tool call of the upstream is the n-th tool_use block of the message
\* and has its own input, or the empty object for an input that is not JSON
\* (Message() in aggregate.go), for any number of calls among other lines.
THEOREM ToolsHaveTheirInputs == AnswersSpec => []ToolInputsKeptApart
<1>1. AnswersInit => AnswersInv /\ ToolsKept(fed, out)
  BY InitAnswers, InitTools DEF AnswersInit
<1>2. AnswersInv /\ ToolsKept(fed, out) /\ [AnswersNext]_answerVars
        => AnswersInv' /\ ToolsKept(fed, out)'
  <2>1. [AnswersNext]_answerVars => [Next]_vars
    BY DEF AnswersNext, AnswersFeed, AnswersFinish, Next, answerVars
  <2>2. AnswersInv => IInv
    BY DEF AnswersInv
  <2> QED
    BY <2>1, <2>2, NextAnswers, NextTools
<1> QED
  BY <1>1, <1>2, ToolsApartInMessage, PTL DEF AnswersSpec

\* chatout.go's ChatEncoder sends a stream an OpenAI client can read: role
\* first, one end and nothing after it, tools numbered 0, 1, 2, ... each before
\* its arguments, and the fragments of an argument, cut at any size, put
\* together are the whole input.
THEOREM ChatStreamIsReadable == AnswersSpec => []ChatStreamReadable
BY InitAnswers, NextAnswers, StreamIsReadable, PTL DEF AnswersSpec

\* The streamed and the buffered chat completion are the same answer: texts,
\* reasoning, number of tools, finish reason and tokens (ChatEncoder against
\* ChatAggregator).
THEOREM StreamIsTheCompletion == AnswersSpec => []StreamMatchesCompletion
BY InitAnswers, NextAnswers, StreamIsCompletion, PTL DEF AnswersSpec

\* Once the upstream reported an error or the translator panicked, no finish
\* and no [DONE] is ever among the frames, and after an error the last frame,
\* if any was sent, tells it.
THEOREM FailureStaysAFailure == AnswersSpec => []FailureNeverLooksLikeSuccess
BY InitAnswers, NextAnswers, FailureIsTold, PTL DEF AnswersSpec

\* What Messages, Chat Completions and Responses each say of the tokens adds up
\* to the upstream's latest usage object, whatever the numbers in it: the
\* cached tokens DeltaUsage takes out are added back exactly once.
THEOREM EveryTokenBilledOnce == AnswersSpec => []TokensAddUp
BY InitAnswers, NextAnswers, TokensAreToldOnce, PTL DEF AnswersSpec
=============================================================================
