------------------------- MODULE ConfigCodec_proofs -------------------------
(***************************************************************************)
(* What TLC checks of TfcConfigCodec on the texts of the models, proved    *)
(* for every text and every sequence of calls.                             *)
(***************************************************************************)
EXTENDS ConfigCodec, SequenceTheorems, WellFoundedInduction, TLAPS

-----------------------------------------------------------------------------
(* Naturals.                                                               *)

LEMMA MinIsLeast ==
  ASSUME NEW S \in SUBSET Nat, S # {}
  PROVE  Min(S) \in S /\ \A y \in S : Min(S) <= y
<1> DEFINE R == {ss \in Nat \X Nat : ss[1] < ss[2]}
<1>1. IsWellFoundedOn(R, Nat)
  BY NatLessThanWellFounded, Zenon DEF OpToRel
<1>2. PICK x \in S : \A y \in S : ~(<<y, x>> \in R)
  BY <1>1, WFMin
<1>3. ASSUME NEW y \in S
      PROVE  x <= y
  <2>1. x \in Nat /\ y \in Nat /\ ~(<<y, x>> \in R)
    BY <1>2
  <2>2. <<y, x>> \in R <=> y < x
    BY <2>1
  <2>3. QED
    BY <2>1, <2>2
<1>4. QED
  BY <1>2, <1>3 DEF Min

(* Induction up to n, for a set.                                           *)
LEMMA Climb ==
  ASSUME NEW n \in Nat, NEW S, 0 \in S, \A i \in 1 .. n : i - 1 \in S => i \in S
  PROVE  \A i \in 0 .. n : i \in S
<1> DEFINE T == {i \in 0 .. n : i \notin S}
           m == Min(T)
<1> SUFFICES ASSUME T # {}  PROVE FALSE
  OBVIOUS
<1>1. m \in T /\ \A y \in T : m <= y
  <2>1. T \in SUBSET Nat
    OBVIOUS
  <2> HIDE DEF T
  <2>2. QED
    BY <2>1, MinIsLeast
<1> HIDE DEF m
<1>2. m \in 1 .. n /\ m - 1 \in 0 .. n /\ m - 1 \notin T
  BY <1>1
<1>3. QED
  BY <1>1, <1>2

(* A value of A is computed from the one before it, n times.               *)
Computes(g, n, A, a, F) ==
  /\ g \in [0 .. n -> A]
  /\ g[0] = a
  /\ \A i \in 1 .. n : g[i] = F[i][g[i - 1]]

LEMMA Iteration ==
  ASSUME NEW n \in Nat, NEW A, NEW a \in A, NEW F \in [1 .. n -> [A -> A]]
  PROVE  \E g : Computes(g, n, A, a, F)
<1> DEFINE S == {k \in 0 .. n : \E g : Computes(g, k, A, a, F)}
<1>1. 0 \in S
  <2>1. Computes([i \in 0 .. 0 |-> a], 0, A, a, F)
    BY DEF Computes
  <2>2. 0 \in 0 .. n
    OBVIOUS
  <2>3. QED
    BY <2>1, <2>2, Zenon
<1>2. ASSUME NEW k \in 1 .. n, k - 1 \in S
      PROVE  k \in S
  <2>1. PICK g : Computes(g, k - 1, A, a, F)
    BY <1>2
  <2> DEFINE h == [i \in 0 .. k |-> IF i = k THEN F[k][g[k - 1]] ELSE g[i]]
  <2>2. g[k - 1] \in A
    BY <2>1 DEF Computes
  <2>3. F[k][g[k - 1]] \in A
    BY <2>2
  <2>4. h \in [0 .. k -> A] /\ h[0] = a
    BY <2>1, <2>3 DEF Computes
  <2>5. ASSUME NEW i \in 1 .. k
        PROVE  h[i] = F[i][h[i - 1]]
    <3>1. h[i - 1] = g[i - 1]
      OBVIOUS
    <3>2. CASE i = k
      BY <3>1, <3>2
    <3>3. CASE i # k
      <4>1. i \in 1 .. k - 1 /\ h[i] = g[i]
        BY <3>3
      <4>2. QED
        BY <2>1, <3>1, <4>1 DEF Computes
    <3>4. QED
      BY <3>2, <3>3
  <2> HIDE DEF h
  <2>6. Computes(h, k, A, a, F)
    BY <2>4, <2>5 DEF Computes
  <2>7. k \in 0 .. n
    OBVIOUS
  <2>8. QED
    BY <2>6, <2>7, Zenon
<1> HIDE DEF S
<1>3. \A i \in 0 .. n : i \in S
  BY ONLY <1>1, <1>2, Climb, n \in Nat
<1>4. \E g : Computes(g, n, A, a, F)
  BY <1>3 DEF S
<1>5. QED
  BY <1>4
-----------------------------------------------------------------------------
(* FlattenSeq of the community modules.                                    *)

(* What is flattened of a sequence of sequences, from left to right.       *)
IsFlat(g, s, S) ==
  /\ g \in [0 .. Len(s) -> Seq(S)]
  /\ g[0] = <<>>
  /\ \A i \in 1 .. Len(s) : g[i] = g[i - 1] \o s[i]

LEMMA FlatExists ==
  ASSUME NEW S, NEW s \in Seq(Seq(S))
  PROVE  \E g : IsFlat(g, s, S)
<1> DEFINE n == Len(s)
           F == [i \in 1 .. n |-> [x \in Seq(S) |-> x \o s[i]]]
<1>1. n \in Nat /\ \A i \in 1 .. n : s[i] \in Seq(S)
  OBVIOUS
<1>2. F \in [1 .. n -> [Seq(S) -> Seq(S)]]
  <2>1. \A i \in 1 .. n : \A x \in Seq(S) : x \o s[i] \in Seq(S)
    BY <1>1, ConcatProperties
  <2> HIDE DEF n
  <2>2. QED
    BY <2>1
<1>3. <<>> \in Seq(S)
  OBVIOUS
<1> HIDE DEF F
<1>4. PICK g : Computes(g, n, Seq(S), <<>>, F)
  BY <1>1, <1>2, <1>3, Iteration
<1>5. ASSUME NEW i \in 1 .. n
      PROVE  g[i] = g[i - 1] \o s[i]
  <2>1. g[i] = F[i][g[i - 1]]
    BY <1>4, Zenon DEF Computes
  <2>2. i - 1 \in 0 .. n
    BY <1>1
  <2>3. g[i - 1] \in Seq(S)
    BY <1>4, <2>2 DEF Computes
  <2>4. QED
    BY <2>1, <2>3 DEF F
<1>6. IsFlat(g, s, S)
  BY <1>4, <1>5 DEF IsFlat, Computes
<1>7. QED
  BY <1>6

LEMMA FlattenIs ==
  ASSUME NEW S, NEW s \in Seq(Seq(S)), NEW g, IsFlat(g, s, S)
  PROVE  FlattenSeq(s) = g[Len(s)] /\ FlattenSeq(s) \in Seq(S)
<1> DEFINE n == Len(s)
           Body(h) == [i \in 1 .. n |-> IF i = 1 THEN s[i] ELSE h[i - 1] \o s[i]]
           f == CHOOSE h : h = Body(h)
<1>1. n \in Nat /\ g[n] \in Seq(S) /\ (n # 0 => s[1] \in Seq(S))
  <2>1. n \in Nat /\ (n # 0 => s[1] \in Seq(S))
    OBVIOUS
  <2>2. n \in 0 .. n
    BY <2>1
  <2>3. QED
    BY <2>1, <2>2 DEF IsFlat
<1>2. FlattenSeq(s) = IF n = 0 THEN s ELSE f[n]
  BY Zenon DEF FlattenSeq
<1>3. CASE n = 0
  BY <1>1, <1>2, <1>3 DEF IsFlat
<1>4. CASE n # 0
  <2> DEFINE h == [i \in 1 .. n |-> g[i]]
  <2>1. g[1] = s[1]
    <3>1. g[1] = g[0] \o s[1]
      <4>1. 1 \in 1 .. n /\ 1 - 1 = 0
        BY <1>1, <1>4
      <4>2. QED
        <5>1. g[1] = g[1 - 1] \o s[1]
          BY <4>1, Zenon DEF IsFlat
        <5>2. QED
          BY <4>1, <5>1
    <3>2. QED
      BY <1>1, <1>4, <3>1, ConcatEmptySeq DEF IsFlat
  <2>2. h = Body(h)
    <3>1. ASSUME NEW i \in 1 .. n
          PROVE  h[i] = Body(h)[i]
      <4>1. CASE i = 1
        BY <2>1, <4>1
      <4>2. CASE i # 1
        <5>1. g[i] = g[i - 1] \o s[i]
          BY Zenon DEF IsFlat
        <5>3. i - 1 \in 1 .. n
          BY <1>1, <4>2
        <5>4. h[i - 1] = g[i - 1]
          BY <5>3
        <5>5. QED
          BY <4>2, <5>1, <5>4
      <4>3. QED
        BY <4>1, <4>2
    <3>2. QED
      BY <3>1, Zenon
  <2>3. f = Body(f)
    <3> HIDE DEF h, Body
    <3>1. QED
      BY <2>2, Zenon
  <2> HIDE DEF f
  <2> DEFINE T == {i \in 0 .. n : i = 0 \/ f[i] = g[i]}
  <2>4. 0 \in T
    BY <1>1
  <2>5. ASSUME NEW i \in 1 .. n, i - 1 \in T
        PROVE  i \in T
    <3>1. f[i] = IF i = 1 THEN s[i] ELSE f[i - 1] \o s[i]
      BY <2>3
    <3>2. CASE i = 1
      BY <2>1, <3>1, <3>2
    <3>3. CASE i # 1
      <4>1. f[i - 1] = g[i - 1] /\ g[i] = g[i - 1] \o s[i]
        <5>1. i - 1 # 0
          BY <1>1, <3>3
        <5>2. QED
          BY <2>5, <5>1, Zenon DEF IsFlat
      <4>2. QED
        <5>1. f[i] = f[i - 1] \o s[i]
          BY <3>1, <3>3, Zenon
        <5>2. f[i] = g[i]
          BY <4>1, <5>1, Zenon
        <5>3. i \in 0 .. n
          BY <1>1
        <5>4. QED
          BY <5>2, <5>3, Zenon
    <3>4. QED
      BY <3>2, <3>3
  <2> HIDE DEF T
  <2>6. \A i \in 0 .. n : i \in T
    BY ONLY <1>1, <2>4, <2>5, Climb
  <2>7. f[n] = g[n]
    BY <1>1, <1>4, <2>6 DEF T
  <2>8. QED
    BY <1>1, <1>2, <1>4, <2>7
<1>5. QED
  BY <1>3, <1>4

(* A sequence of sequences is flattened to a sequence.                     *)
LEMMA FlattenTyped ==
  ASSUME NEW S, NEW s \in Seq(Seq(S))
  PROVE  FlattenSeq(s) \in Seq(S)
BY FlatExists, FlattenIs

(* One more sequence is appended to what was flattened.                    *)
LEMMA FlattenAppend ==
  ASSUME NEW S, NEW s \in Seq(Seq(S)), NEW x \in Seq(S)
  PROVE  FlattenSeq(Append(s, x)) = FlattenSeq(s) \o x
<1> DEFINE t == Append(s, x)
           n == Len(s)
<1>1. /\ n \in Nat /\ t \in Seq(Seq(S)) /\ Len(t) = n + 1 /\ t[n + 1] = x
      /\ \A i \in 1 .. n : t[i] = s[i]
  BY AppendProperties
<1> HIDE DEF t, n
<1>2. PICK g : IsFlat(g, t, S)
  BY <1>1, FlatExists
<1> DEFINE h == [i \in 0 .. n |-> g[i]]
<1>3. IsFlat(h, s, S)
  <2>1. h \in [0 .. n -> Seq(S)] /\ h[0] = <<>>
    BY <1>1, <1>2 DEF IsFlat
  <2>2. ASSUME NEW i \in 1 .. n
        PROVE  h[i] = h[i - 1] \o s[i]
    <3>1. i \in 1 .. n + 1 /\ i - 1 \in 0 .. n /\ i \in 0 .. n
      BY <1>1
    <3>2. g[i] = g[i - 1] \o t[i]
      <4>1. i \in 1 .. Len(t)
        BY <1>1, <3>1
      <4>2. QED
        BY <1>2, <4>1, Zenon DEF IsFlat
    <3>3. QED
      BY <1>1, <3>1, <3>2
  <2> HIDE DEF h
  <2>3. QED
    BY <2>1, <2>2 DEF IsFlat, n
<1>4. FlattenSeq(t) = g[n + 1]
  BY <1>1, <1>2, FlattenIs
<1>5. g[n + 1] = g[n] \o x
  <2>2. PICK k : k = n + 1
    OBVIOUS
  <2>3. k \in 1 .. Len(t) /\ k - 1 = n /\ t[k] = x
    BY <1>1, <2>2
  <2>4. g[k] = g[k - 1] \o t[k]
    BY <1>2, <2>3, Zenon DEF IsFlat
  <2>5. QED
    BY <2>2, <2>3, <2>4
<1>6. FlattenSeq(s) = g[n]
  <2>1. h[n] = g[n]
    BY <1>1
  <2> HIDE DEF h
  <2>2. QED
    BY <1>3, <2>1, FlattenIs DEF n
<1>7. QED
  BY <1>4, <1>5, <1>6 DEF t

-----------------------------------------------------------------------------
(* Sequences.                                                              *)

LEMMA FrontLast ==
  ASSUME NEW S, NEW s \in Seq(S), s # <<>>
  PROVE  /\ Front(s) \in Seq(S) /\ Last(s) \in S
         /\ Len(s) \in Nat \ {0} /\ Len(Front(s)) = Len(s) - 1
         /\ \A i \in 1 .. Len(s) - 1 : Front(s)[i] = s[i]
<1>1. Len(s) \in Nat \ {0} /\ Last(s) \in S
  BY DEF Last
<1>2. \A i \in 1 .. Len(s) - 1 : s[i] \in S
  BY <1>1
<1>3. PICK k \in Nat : k = Len(s) - 1
  BY <1>1
<1>4. /\ SubSeq(s, 1, k) \in Seq(S) /\ Len(SubSeq(s, 1, k)) = k
      /\ \A i \in 1 .. k : SubSeq(s, 1, k)[i] = s[i]
  BY <1>1, <1>2, <1>3
<1>5. QED
  BY <1>1, <1>3, <1>4 DEF Front

(* What was appended is the last, and the rest is the front.               *)
LEMMA OneMore ==
  ASSUME NEW S, NEW p \in Seq(S), NEW w \in S
  PROVE  /\ Append(p, w) \in Seq(S) \ {<<>>}
         /\ Front(Append(p, w)) = p /\ Last(Append(p, w)) = w
<1> DEFINE q == Append(p, w)
<1>1. /\ q \in Seq(S) /\ Len(q) = Len(p) + 1 /\ q[Len(p) + 1] = w /\ q # <<>>
      /\ \A i \in 1 .. Len(p) : q[i] = p[i]
  BY AppendProperties
<1> HIDE DEF q
<1>2. Last(q) = w
  BY <1>1 DEF Last
<1>3. Front(q) = p
  <2>1. /\ Front(q) \in Seq(S) /\ Len(Front(q)) = Len(p)
        /\ \A i \in 1 .. Len(p) : Front(q)[i] = q[i]
    BY <1>1, FrontLast
  <2>2. QED
    BY <1>1, <2>1, SeqEqual
<1>4. QED
  BY <1>1, <1>2, <1>3 DEF q

LEMMA SubSeqTyped ==
  ASSUME NEW S, NEW s \in Seq(S), NEW m \in Nat \ {0}, NEW n \in Int, n <= Len(s)
  PROVE  SubSeq(s, m, n) \in Seq(S)
<1>1. \A i \in m .. n : s[i] \in S
  OBVIOUS
<1>2. QED
  BY <1>1, SubSeqProperties

LEMMA RemoveAtTyped ==
  ASSUME NEW S, NEW s \in Seq(S), NEW i \in 1 .. Len(s)
  PROVE  RemoveAt(s, i) \in Seq(S)
<1>1. SubSeq(s, 1, i - 1) \in Seq(S) /\ SubSeq(s, i + 1, Len(s)) \in Seq(S)
  BY SubSeqTyped
<1>2. QED
  BY <1>1, ConcatProperties DEF RemoveAt

(* The first element of a sequence that has a property, if one has it.     *)
LEMMA PairIs ==
  ASSUME NEW S, NEW t, NEW n, t[n].pairs \in Seq(S), NEW key
  PROVE  LET p == t[n].pairs
             i == PairIn(t, n, key)
         IN  \/ /\ i = 0
                /\ \A j \in 1 .. Len(p) : p[j].key # key
             \/ /\ i \in 1 .. Len(p) /\ p[i].key = key
                /\ \A j \in 1 .. i - 1 : p[j].key # key
<1> DEFINE p == t[n].pairs
           I == {j \in 1 .. Len(p) : p[j].key = key}
<1>1. PairIn(t, n, key) = IF I # {} THEN Min(I) ELSE 0
  BY DEF PairIn, SelectInSeq
<1>2. CASE I = {}
  BY <1>1, <1>2
<1>3. CASE I # {}
  <2>1. Len(p) \in Nat
    OBVIOUS
  <2> HIDE DEF p
  <2>2. I \in SUBSET Nat
    BY <2>1
  <2>3. Min(I) \in I /\ \A y \in I : Min(I) <= y
    <3> HIDE DEF I
    <3>1. QED
      BY <1>3, <2>2, MinIsLeast
  <2>4. PICK i : i = PairIn(t, n, key)
    OBVIOUS
  <2>5. i = Min(I)
    BY <1>1, <1>3, <2>4
  <2>6. i \in 1 .. Len(p) /\ p[i].key = key
    BY <2>3, <2>5
  <2>7. \A j \in 1 .. i - 1 : p[j].key # key
    BY <2>1, <2>3, <2>5, <2>6
  <2>8. QED
    BY <2>4, <2>6, <2>7 DEF p
<1>4. QED
  BY <1>2, <1>3

-----------------------------------------------------------------------------
(* Trees: the parents come before their children.                          *)

PairType == [key : Words, value : Words, comments : Comments]

NodeType == [tag : Words, parent : Nat, level : Int, comments : Comments,
             pairs : Pairs, raw : Comments]

IsTree(t) ==
  /\ t \in Seq(NodeType)
  /\ t # <<>>
  /\ \A i \in 1 .. Len(t) : t[i].parent < i

LEMMA TreeIs ==
  ASSUME NEW t, IsTree(t)
  PROVE  /\ Len(t) \in Nat \ {0} /\ DOMAIN t = 1 .. Len(t)
         /\ t \in [1 .. Len(t) -> NodeType]
         /\ \A i \in 1 .. Len(t) :
              /\ t[i] \in NodeType /\ t[i].tag \in Words /\ t[i].parent \in Nat
              /\ t[i].parent < i /\ t[i].level \in Int /\ t[i].comments \in Comments
              /\ t[i].pairs \in Pairs /\ t[i].raw \in Comments
<1>1. Len(t) \in Nat \ {0} /\ DOMAIN t = 1 .. Len(t) /\ t \in [1 .. Len(t) -> NodeType]
  BY DEF IsTree
<1>2. QED
  BY <1>1 DEF IsTree, NodeType

LEMMA EmptyIsTyped == <<>> \in Words /\ <<>> \in Comments /\ <<>> \in Pairs
BY DEF Words, Comments, Pairs

(* A node that is changed without being moved.                             *)
LEMMA NodeSet ==
  ASSUME NEW t, IsTree(t), NEW n \in 1 .. Len(t), NEW x \in NodeType,
         x.parent = t[n].parent
  PROVE  LET u == [t EXCEPT ![n] = x] IN
         /\ IsTree(u) /\ Len(u) = Len(t) /\ u[n] = x
         /\ \A i \in 1 .. Len(t) : i # n => u[i] = t[i]
<1> DEFINE u == [t EXCEPT ![n] = x]
<1>1. /\ u \in Seq(NodeType) /\ Len(u) = Len(t) /\ u[n] = x
      /\ \A i \in 1 .. Len(t) : i # n => u[i] = t[i]
  BY ExceptSeq, TreeIs DEF IsTree
<1> HIDE DEF u
<1>2. u # <<>>
  BY <1>1, TreeIs
<1>3. ASSUME NEW i \in 1 .. Len(u)
      PROVE  u[i].parent < i
  <2>1. t[i].parent < i
    BY <1>1, TreeIs
  <2>2. QED
    BY <1>1, <2>1
<1>4. IsTree(u)
  BY <1>1, <1>2, <1>3 DEF IsTree
<1>5. QED
  BY <1>1, <1>4 DEF u

WithPairs(t, n, p) == [t EXCEPT ![n].pairs = p]
WithComments(t, n, c) == [t EXCEPT ![n].comments = c]
WithRaw(t, n, r) == [t EXCEPT ![n].raw = r]

LEMMA PairsSet ==
  ASSUME NEW t, IsTree(t), NEW n \in 1 .. Len(t), NEW p \in Pairs
  PROVE  LET u == WithPairs(t, n, p) IN
         /\ IsTree(u) /\ Len(u) = Len(t) /\ u[n].pairs = p
         /\ u[n].tag = t[n].tag /\ u[n].parent = t[n].parent /\ u[n].comments = t[n].comments
         /\ u[n].level = t[n].level /\ u[n].raw = t[n].raw
         /\ \A i \in 1 .. Len(t) : i # n => u[i] = t[i]
<1> DEFINE x == [t[n] EXCEPT !.pairs = p]
           u == [t EXCEPT ![n] = x]
<1>1. t[n] \in NodeType
  BY TreeIs
<1>2. x \in NodeType /\ x.parent = t[n].parent
  BY <1>1 DEF NodeType
<1>3. WithPairs(t, n, p) = u
  BY DEF WithPairs
<1>4. /\ IsTree(u) /\ Len(u) = Len(t) /\ u[n] = x
      /\ \A i \in 1 .. Len(t) : i # n => u[i] = t[i]
  <2> HIDE DEF x
  <2>1. QED
    BY <1>2, NodeSet
<1>5. /\ x.pairs = p /\ x.tag = t[n].tag /\ x.parent = t[n].parent
      /\ x.comments = t[n].comments /\ x.level = t[n].level /\ x.raw = t[n].raw
  BY <1>1 DEF NodeType
<1> HIDE DEF x
<1>6. QED
  BY <1>3, <1>4, <1>5, Zenon

LEMMA CommentsSet ==
  ASSUME NEW t, IsTree(t), NEW n \in 1 .. Len(t), NEW c \in Comments
  PROVE  LET u == WithComments(t, n, c) IN
         /\ IsTree(u) /\ Len(u) = Len(t) /\ u[n].comments = c
         /\ u[n].tag = t[n].tag /\ u[n].parent = t[n].parent /\ u[n].pairs = t[n].pairs
         /\ u[n].level = t[n].level /\ u[n].raw = t[n].raw
         /\ \A i \in 1 .. Len(t) : i # n => u[i] = t[i]
<1> DEFINE x == [t[n] EXCEPT !.comments = c]
           u == [t EXCEPT ![n] = x]
<1>1. t[n] \in NodeType
  BY TreeIs
<1>2. x \in NodeType /\ x.parent = t[n].parent
  BY <1>1 DEF NodeType
<1>3. WithComments(t, n, c) = u
  BY DEF WithComments
<1>4. /\ IsTree(u) /\ Len(u) = Len(t) /\ u[n] = x
      /\ \A i \in 1 .. Len(t) : i # n => u[i] = t[i]
  <2> HIDE DEF x
  <2>1. QED
    BY <1>2, NodeSet
<1>5. /\ x.comments = c /\ x.tag = t[n].tag /\ x.parent = t[n].parent
      /\ x.pairs = t[n].pairs /\ x.level = t[n].level /\ x.raw = t[n].raw
  BY <1>1 DEF NodeType
<1> HIDE DEF x
<1>6. QED
  BY <1>3, <1>4, <1>5, Zenon

LEMMA RawSet ==
  ASSUME NEW t, IsTree(t), NEW n \in 1 .. Len(t), NEW r \in Comments
  PROVE  LET u == WithRaw(t, n, r) IN
         /\ IsTree(u) /\ Len(u) = Len(t) /\ u[n].raw = r
         /\ u[n].parent = t[n].parent /\ u[n].pairs = t[n].pairs
         /\ u[n].comments = t[n].comments /\ u[n].level = t[n].level
         /\ \A i \in 1 .. Len(t) : i # n => u[i] = t[i]
<1> DEFINE x == [t[n] EXCEPT !.raw = r]
           u == [t EXCEPT ![n] = x]
<1>1. t[n] \in NodeType
  BY TreeIs
<1>2. x \in NodeType /\ x.parent = t[n].parent
  BY <1>1 DEF NodeType
<1>3. WithRaw(t, n, r) = u
  BY DEF WithRaw
<1>4. /\ IsTree(u) /\ Len(u) = Len(t) /\ u[n] = x
      /\ \A i \in 1 .. Len(t) : i # n => u[i] = t[i]
  <2> HIDE DEF x
  <2>1. QED
    BY <1>2, NodeSet
<1>5. /\ x.raw = r /\ x.parent = t[n].parent /\ x.pairs = t[n].pairs
      /\ x.comments = t[n].comments /\ x.level = t[n].level
  BY <1>1 DEF NodeType
<1> HIDE DEF x
<1>6. QED
  BY <1>3, <1>4, <1>5, Zenon

(* A node that is added, and nodes that are taken from their parents.      *)
LEMMA NodeAdded ==
  ASSUME NEW t, IsTree(t), NEW tag \in Words, NEW n \in 1 .. Len(t)
  PROVE  LET u == Append(t, Node(tag, n, t[n].level + 1)) IN
         /\ IsTree(u) /\ Len(u) = Len(t) + 1
         /\ u[Len(t) + 1] = Node(tag, n, t[n].level + 1)
         /\ \A i \in 1 .. Len(t) : u[i] = t[i]
<1> DEFINE x == Node(tag, n, t[n].level + 1)
           u == Append(t, x)
<1>1. x \in NodeType /\ x.parent = n
  <2>1. t[n].level + 1 \in Int /\ n \in Nat
    BY TreeIs
  <2>2. QED
    BY <2>1, EmptyIsTyped DEF Node, NodeType
<1> HIDE DEF x
<1>2. /\ u \in Seq(NodeType) /\ Len(u) = Len(t) + 1 /\ u[Len(t) + 1] = x /\ u # <<>>
      /\ \A i \in 1 .. Len(t) : u[i] = t[i]
  BY <1>1, AppendProperties DEF IsTree
<1> HIDE DEF u
<1>3. ASSUME NEW i \in 1 .. Len(u)
      PROVE  u[i].parent < i
  <2>1. CASE i = Len(t) + 1
    BY <1>1, <1>2, <2>1, TreeIs
  <2>2. CASE i # Len(t) + 1
    <3>1. i \in 1 .. Len(t)
      BY <1>2, <2>2, TreeIs
    <3>2. QED
      BY <1>2, <3>1 DEF IsTree
  <2>3. QED
    BY <2>1, <2>2
<1>4. IsTree(u)
  BY <1>2, <1>3 DEF IsTree
<1>5. QED
  BY <1>2, <1>4 DEF u, x

LEMMA NodesTaken ==
  ASSUME NEW t, IsTree(t), NEW gone
  PROVE  LET u == Without(t, gone) IN
         /\ IsTree(u) /\ Len(u) = Len(t)
         /\ \A i \in 1 .. Len(t) :
              /\ u[i].parent \in {t[i].parent, NoNode} /\ u[i].level = t[i].level
              /\ u[i].comments = t[i].comments /\ u[i].pairs = t[i].pairs /\ u[i].raw = t[i].raw
<1> DEFINE u == Without(t, gone)
<1>1. ASSUME NEW i \in 1 .. Len(t)
      PROVE  [t[i] EXCEPT !.parent = NoNode] \in NodeType
             /\ [t[i] EXCEPT !.parent = NoNode].parent = 0
  <2>1. t[i] \in NodeType
    BY TreeIs
  <2>2. QED
    BY <2>1 DEF NodeType, NoNode
<1>2. /\ u = [i \in 1 .. Len(t) |->
                IF i \in gone THEN [t[i] EXCEPT !.parent = NoNode] ELSE t[i]]
  BY TreeIs DEF Without
<1>3. u \in [1 .. Len(t) -> NodeType]
  BY <1>1, <1>2, TreeIs
<1>4. Len(u) = Len(t) /\ u \in Seq(NodeType)
  <2> HIDE DEF u
  <2>1. QED
    BY <1>3, TreeIs
<1>5. ASSUME NEW i \in 1 .. Len(t)
      PROVE  u[i].parent < i
  BY <1>1, <1>2, TreeIs
<1>6. ASSUME NEW i \in 1 .. Len(t)
      PROVE  /\ u[i].parent \in {t[i].parent, NoNode} /\ u[i].level = t[i].level
             /\ u[i].comments = t[i].comments /\ u[i].pairs = t[i].pairs /\ u[i].raw = t[i].raw
  <2>1. t[i] \in NodeType
    BY TreeIs
  <2> DEFINE x == [t[i] EXCEPT !.parent = NoNode]
  <2>2. /\ x.parent = NoNode /\ x.level = t[i].level
        /\ x.comments = t[i].comments /\ x.pairs = t[i].pairs /\ x.raw = t[i].raw
    BY <2>1 DEF NodeType
  <2>3. u[i] = x \/ u[i] = t[i]
    BY <1>2
  <2> HIDE DEF x, u
  <2>4. QED
    BY <2>2, <2>3
<1> HIDE DEF u
<1>7. u # <<>>
  BY <1>4, TreeIs
<1>8. IsTree(u)
  BY <1>4, <1>5, <1>7 DEF IsTree
<1>9. QED
  BY <1>4, <1>6, <1>8 DEF u

-----------------------------------------------------------------------------
(* Lookup.                                                                 *)

LEMMA ChildIs ==
  ASSUME NEW t, IsTree(t), NEW n, NEW tag
  PROVE  LET c == ChildOf(t, n, tag) IN
         c = NoNode \/ (c \in 1 .. Len(t) /\ t[c].parent = n /\ t[c].tag = tag)
<1> DEFINE found == {i \in DOMAIN t : t[i].parent = n /\ t[i].tag = tag}
<1>1. CASE n = NoNode \/ found = {}
  BY <1>1 DEF ChildOf
<1>2. CASE n # NoNode /\ found # {}
  <2>1. found \in SUBSET Nat
    BY TreeIs
  <2>2. Min(found) \in found
    <3> HIDE DEF found
    <3>1. QED
      BY <1>2, <2>1, MinIsLeast
  <2>3. ChildOf(t, n, tag) = Min(found)
    BY <1>2 DEF ChildOf
  <2>4. QED
    BY <2>2, <2>3, TreeIs
<1>3. QED
  BY <1>1, <1>2

LEMMA SplitAtTyped ==
  ASSUME NEW p \in Seq(Words) \ {<<>>}, NEW c \in Symbols
  PROVE  SplitAt(p, c) \in Seq(Words) \ {<<>>}
<1>1. Front(p) \in Seq(Words) /\ Last(p) \in Words
  BY FrontLast
<1>2. <<>> \in Words /\ Append(Last(p), c) \in Words
  BY <1>1, AppendProperties DEF Words
<1>3. \A w \in Words : Append(p, w) \in Seq(Words) \ {<<>>}
                       /\ Append(Front(p), w) \in Seq(Words) \ {<<>>}
  BY <1>1, AppendProperties
<1>4. QED
  BY <1>2, <1>3 DEF SplitAt

(* The parts there are after each symbol.                                  *)
Splits(g, s) ==
  /\ g[0] = <<(<<>>)>>
  /\ \A i \in 1 .. Len(s) : g[i] = SplitAt(g[i - 1], s[i])
  /\ \A i \in 0 .. Len(s) : g[i] \in Seq(Words) \ {<<>>}

LEMMA SplitIs ==
  ASSUME NEW s \in Words
  PROVE  \E g : /\ Splits(g, s)
                /\ SplitString(s) = IF Last(g[Len(s)]) = <<>> THEN Front(g[Len(s)])
                                    ELSE g[Len(s)]
<1> DEFINE n == Len(s)
           A == Seq(Words) \ {<<>>}
           a == <<(<<>>)>>
           F == [i \in 1 .. n |-> [p \in A |-> SplitAt(p, s[i])]]
           Body(h) == [i \in 0 .. n |-> IF i = 0 THEN a ELSE SplitAt(h[i - 1], s[i])]
           split == CHOOSE h : h = Body(h)
<1>1. n \in Nat /\ \A i \in 1 .. n : s[i] \in Symbols
  BY DEF Words
<1>2. a \in A
  <2>1. <<>> \in Words
    BY DEF Words
  <2> HIDE DEF A
  <2>2. \A w \in Words : <<w>> \in Seq(Words) \ {<<>>}
    OBVIOUS
  <2>3. QED
    BY <2>1, <2>2 DEF A
<1>3. \A i \in 1 .. n : \A p \in A : SplitAt(p, s[i]) \in A
  BY <1>1, SplitAtTyped
<1> HIDE DEF n, A, a
<1>4. F \in [1 .. n -> [A -> A]]
  BY <1>3
<1>5. PICK g : Computes(g, n, A, a, F)
  <2> HIDE DEF F
  <2>1. QED
    BY <1>1, <1>2, <1>4, Iteration
<1>6. g = Body(g)
  <2>1. g = [i \in 0 .. n |-> g[i]] /\ g[0] = a
    BY <1>5 DEF Computes
  <2>2. ASSUME NEW i \in 1 .. n
        PROVE  g[i] = SplitAt(g[i - 1], s[i])
    <3>1. g[i] = F[i][g[i - 1]]
      BY <1>5, Zenon DEF Computes
    <3>2. i - 1 \in 0 .. n
      BY <1>1
    <3>3. g[i - 1] \in A
      BY <1>5, <3>2 DEF Computes
    <3>4. QED
      BY <3>1, <3>3
  <2>3. \A i \in 0 .. n : g[i] = IF i = 0 THEN a ELSE SplitAt(g[i - 1], s[i])
    <3>1. \A i \in 0 .. n : i = 0 \/ i \in 1 .. n
      OBVIOUS
    <3>2. QED
      BY <2>1, <2>2, <3>1, Zenon
  <2>4. QED
    BY <2>1, <2>3, Zenon
<1>7. split = Body(split)
  <2> HIDE DEF Body
  <2>1. QED
    BY <1>6, Zenon
<1> HIDE DEF split
<1>8. split[0] = a /\ \A i \in 1 .. n : split[i] = SplitAt(split[i - 1], s[i])
  <2>1. split = [j \in 0 .. n |-> IF j = 0 THEN a ELSE SplitAt(split[j - 1], s[j])]
    BY <1>7, Zenon
  <2>2. 0 \in 0 .. n /\ \A i \in 1 .. n : i \in 0 .. n /\ i # 0
    BY <1>1
  <2>3. QED
    BY <2>1, <2>2, Zenon
<1> DEFINE T == {i \in 0 .. n : split[i] \in A}
<1>9. 0 \in T
  BY <1>1, <1>2, <1>8
<1>10. ASSUME NEW i \in 1 .. n, i - 1 \in T
       PROVE  i \in T
  BY <1>3, <1>8, <1>10
<1>11. \A i \in 0 .. n : split[i] \in A
  <2> HIDE DEF T
  <2>1. \A i \in 0 .. n : i \in T
    BY ONLY <1>1, <1>9, <1>10, Climb
  <2>2. QED
    BY <2>1 DEF T
<1>12. Splits(split, s)
  BY <1>8, <1>11 DEF Splits, n, A, a
<1>13. SplitString(s) = IF Last(split[n]) = <<>> THEN Front(split[n]) ELSE split[n]
  BY Zenon DEF SplitString, split, n, a
<1>14. QED
  BY <1>12, <1>13, Zenon DEF n

(* SplitString makes words of a path.                                      *)
LEMMA SplitTyped ==
  ASSUME NEW s \in Words
  PROVE  SplitString(s) \in Seq(Words)
<1>1. PICK g : /\ Splits(g, s)
               /\ SplitString(s) = IF Last(g[Len(s)]) = <<>> THEN Front(g[Len(s)])
                                   ELSE g[Len(s)]
  BY SplitIs
<1>2. g[Len(s)] \in Seq(Words) \ {<<>>}
  <2>1. Len(s) \in 0 .. Len(s)
    BY DEF Words
  <2>2. QED
    BY <1>1, <2>1 DEF Splits
<1>3. QED
  BY <1>1, <1>2, FrontLast

(* What is found is a node of the tree, below the first.                   *)
IsPointer(t, f, tags) ==
  f = [i \in 0 .. Len(tags) |-> IF i = 0 THEN Root ELSE ChildOf(t, f[i - 1], tags[i])]

LEMMA PointerExists ==
  ASSUME NEW t, IsTree(t), NEW tags \in Seq(Words)
  PROVE  \E f : IsPointer(t, f, tags)
<1> DEFINE n == Len(tags)
           A == 0 .. Len(t)
           F == [i \in 1 .. n |-> [m \in A |-> ChildOf(t, m, tags[i])]]
<1>1. n \in Nat /\ Root \in A
  BY TreeIs DEF Root
<1>2. \A m, tag : ChildOf(t, m, tag) \in A
  <2>1. Len(t) \in Nat
    BY TreeIs
  <2>2. QED
    BY <2>1, ChildIs DEF NoNode
<1> HIDE DEF n, A
<1>3. F \in [1 .. n -> [A -> A]]
  BY <1>2
<1>4. PICK g : Computes(g, n, A, Root, F)
  <2> HIDE DEF F
  <2>1. QED
    BY <1>1, <1>3, Iteration
<1>5. g = [i \in 0 .. n |-> g[i]] /\ g[0] = Root
  BY <1>4 DEF Computes
<1>6. ASSUME NEW i \in 1 .. n
      PROVE  g[i] = ChildOf(t, g[i - 1], tags[i])
  <2>1. g[i] = F[i][g[i - 1]]
    BY <1>4, Zenon DEF Computes
  <2>2. i - 1 \in 0 .. n
    BY <1>1
  <2>3. g[i - 1] \in A
    BY <1>4, <2>2 DEF Computes
  <2>4. QED
    BY <2>1, <2>3
<1>7. \A i \in 0 .. n : g[i] = IF i = 0 THEN Root ELSE ChildOf(t, g[i - 1], tags[i])
  <2>1. \A i \in 0 .. n : i = 0 \/ i \in 1 .. n
    OBVIOUS
  <2>2. QED
    BY <1>5, <1>6, <2>1, Zenon
<1>8. g = [i \in 0 .. n |-> IF i = 0 THEN Root ELSE ChildOf(t, g[i - 1], tags[i])]
  BY <1>5, <1>7, Zenon
<1>9. IsPointer(t, g, tags)
  BY <1>8, Zenon DEF IsPointer, n
<1>10. QED
  BY <1>9

(* The sections on the way along the tags.                                 *)
Walks(at, t, tags) ==
  /\ at[0] = Root
  /\ \A i \in 1 .. Len(tags) : at[i] = ChildOf(t, at[i - 1], tags[i])

LEMMA WalkIs ==
  ASSUME NEW t, IsTree(t), NEW path \in Words
  PROVE  \E at : /\ Walks(at, t, SplitString(path))
                 /\ GetSectionPointer(t, path) = at[Len(SplitString(path))]
<1> DEFINE tags == SplitString(path)
           n == Len(tags)
           at == CHOOSE f : IsPointer(t, f, tags)
<1>1. tags \in Seq(Words) /\ n \in Nat
  BY SplitTyped
<1>2. GetSectionPointer(t, path) = at[n]
  BY Zenon DEF GetSectionPointer, IsPointer
<1>3. IsPointer(t, at, tags)
  <2> HIDE DEF tags
  <2>1. \E f : IsPointer(t, f, tags)
    BY <1>1, PointerExists
  <2>2. QED
    BY <2>1, Zenon
<1>4. Walks(at, t, tags)
  <2> HIDE DEF at, tags
  <2>1. 0 \in 0 .. n /\ \A i \in 1 .. n : i \in 0 .. n /\ i # 0
    BY <1>1
  <2>2. at = [i \in 0 .. n |-> IF i = 0 THEN Root ELSE ChildOf(t, at[i - 1], tags[i])]
    BY <1>3, Zenon DEF IsPointer
  <2>3. QED
    BY <2>1, <2>2, Zenon DEF Walks
<1>5. QED
  BY <1>2, <1>4, Zenon

LEMMA PointerIs ==
  ASSUME NEW t, IsTree(t), NEW path \in Words
  PROVE  GetSectionPointer(t, path) \in 0 .. Len(t)
<1> DEFINE tags == SplitString(path)
           n == Len(tags)
<1>1. n \in Nat
  BY SplitTyped
<1>2. PICK at : Walks(at, t, tags) /\ GetSectionPointer(t, path) = at[n]
  BY WalkIs
<1>3. Root \in 0 .. Len(t) /\ \A m, tag : ChildOf(t, m, tag) \in 0 .. Len(t)
  <2>1. Len(t) \in Nat \ {0}
    BY TreeIs
  <2>2. QED
    BY <2>1, ChildIs DEF NoNode, Root
<1> HIDE DEF tags
<1>4. at[0] = Root /\ (n # 0 => at[n] = ChildOf(t, at[n - 1], tags[n]))
  BY <1>1, <1>2 DEF Walks
<1>5. QED
  BY <1>2, <1>3, <1>4

(* A tree with the same tags in the same places has the same sections.     *)
LEMMA SamePointers ==
  ASSUME NEW t, NEW u, DOMAIN u = DOMAIN t,
         \A i \in DOMAIN t : u[i].parent = t[i].parent /\ u[i].tag = t[i].tag,
         NEW path
  PROVE  GetSectionPointer(u, path) = GetSectionPointer(t, path)
<1>1. \A n, tag : ChildOf(u, n, tag) = ChildOf(t, n, tag)
  <2> TAKE n, tag
  <2>1. {i \in DOMAIN u : u[i].parent = n /\ u[i].tag = tag}
          = {i \in DOMAIN t : t[i].parent = n /\ t[i].tag = tag}
    OBVIOUS
  <2>2. QED
    BY <2>1, Zenon DEF ChildOf
<1> DEFINE tags == SplitString(path)
<1>2. \A f : IsPointer(u, f, tags) <=> IsPointer(t, f, tags)
  <2> TAKE f
  <2>1. [i \in 0 .. Len(tags) |-> IF i = 0 THEN Root ELSE ChildOf(u, f[i - 1], tags[i])]
          = [i \in 0 .. Len(tags) |-> IF i = 0 THEN Root ELSE ChildOf(t, f[i - 1], tags[i])]
    BY <1>1, Zenon
  <2>2. QED
    BY <2>1, Zenon DEF IsPointer
<1>3. (CHOOSE f : IsPointer(u, f, tags)) = (CHOOSE f : IsPointer(t, f, tags))
  BY <1>2, Zenon
<1>4. QED
  BY <1>3, Zenon DEF GetSectionPointer, IsPointer

-----------------------------------------------------------------------------
(* What Generate writes is a text.                                         *)

LEMMA MarksTyped ==
  /\ \A m \in {"<", "/", ">", "="} : <<m>> \in Words
  /\ <<"<", "/">> \in Words
<1>1. {"<", "/", ">", "="} \subseteq Symbols
  BY CodecAssumption
<1>2. QED
  BY <1>1 DEF Words

LEMMA PairLinesTyped ==
  ASSUME NEW p \in PairType
  PROVE  PairLines(p) \in Comments
<1>1. p.key \in Seq(Symbols) /\ p.value \in Seq(Symbols) /\ <<"=">> \in Seq(Symbols)
  BY MarksTyped DEF PairType, Words
<1>2. p.key \o <<"=">> \o p.value \in Seq(Symbols)
  BY <1>1, ConcatProperties
<1>3. \A w \in Words : <<w>> \in Seq(Words)
  OBVIOUS
<1>4. <<p.key \o <<"=">> \o p.value>> \in Seq(Words) /\ p.comments \in Seq(Words)
  BY <1>2, <1>3 DEF PairType, Comments, Words
<1>5. QED
  BY <1>4, ConcatProperties DEF PairLines, Comments

LEMMA ChildLinesTyped ==
  ASSUME NEW t, IsTree(t), NEW text, NEW n,
         \A i \in 1 .. Len(t) : t[i].parent = n => text[i] \in Comments
  PROVE  ChildLines(t, text, n) \in Comments
<1> DEFINE s == [i \in 1 .. Len(t) |-> IF t[i].parent = n THEN text[i] ELSE <<>>]
<1>1. \A i \in 1 .. Len(t) : (IF t[i].parent = n THEN text[i] ELSE <<>>) \in Seq(Words)
  BY DEF Comments
<1>2. Len(t) \in Nat
  BY TreeIs
<1>3. s \in Seq(Seq(Words))
  BY <1>1, <1>2
<1> HIDE DEF s
<1>4. FlattenSeq(s) \in Seq(Words)
  BY <1>3, FlattenTyped
<1>5. QED
  BY <1>4 DEF ChildLines, s, Comments

LEMMA SectionLinesTyped ==
  ASSUME NEW t, IsTree(t), NEW text, NEW n \in 1 .. Len(t),
         \A i \in 1 .. Len(t) : t[i].parent = n => text[i] \in Comments
  PROVE  SectionLines(t, text, n) \in Comments
<1> DEFINE tag == t[n].tag
           pairs == t[n].pairs
           s == [i \in 1 .. Len(pairs) |-> PairLines(pairs[i])]
           begin == <<"<">> \o tag \o <<">">>
           end == <<"<", "/">> \o tag \o <<">">>
<1>1. /\ tag \in Seq(Symbols) /\ pairs \in Seq(PairType)
      /\ t[n].comments \in Seq(Words) /\ t[n].raw \in Seq(Words)
  BY TreeIs DEF Words, Comments, Pairs, PairType
<1>2. begin \in Words /\ end \in Words
  <2>1. <<"<">> \in Seq(Symbols) /\ <<">">> \in Seq(Symbols) /\ <<"<", "/">> \in Seq(Symbols)
    BY MarksTyped DEF Words
  <2> HIDE DEF tag
  <2>2. QED
    BY <1>1, <2>1, ConcatProperties DEF Words
<1>3. FlattenSeq(s) \in Seq(Words)
  <2>1. \A i \in 1 .. Len(pairs) : PairLines(pairs[i]) \in Seq(Words)
    BY <1>1, PairLinesTyped DEF Comments
  <2>2. s \in Seq(Seq(Words))
    BY <1>1, <2>1
  <2> HIDE DEF s
  <2>3. QED
    BY <2>2, FlattenTyped
<1>4. ChildLines(t, text, n) \in Seq(Words)
  BY ChildLinesTyped DEF Comments
<1> HIDE DEF begin, end
<1>5. <<begin>> \in Seq(Words) /\ <<end>> \in Seq(Words)
  BY <1>2
<1>6. SectionLines(t, text, n) = <<begin>> \o t[n].comments \o t[n].raw \o FlattenSeq(s)
                                 \o ChildLines(t, text, n) \o <<end>>
  BY Zenon DEF SectionLines, begin, end
<1> HIDE DEF s
<1>7. QED
  BY <1>1, <1>3, <1>4, <1>5, <1>6, ConcatProperties DEF Comments

(* The text of a section depends on those of its children alone.           *)
LEMMA SectionLinesLocal ==
  ASSUME NEW t, NEW f, NEW g, NEW n,
         \A i \in 1 .. Len(t) : t[i].parent = n => f[i] = g[i]
  PROVE  SectionLines(t, f, n) = SectionLines(t, g, n)
<1>1. [i \in 1 .. Len(t) |-> IF t[i].parent = n THEN f[i] ELSE <<>>]
        = [i \in 1 .. Len(t) |-> IF t[i].parent = n THEN g[i] ELSE <<>>]
  OBVIOUS
<1>2. ChildLines(t, f, n) = ChildLines(t, g, n)
  BY <1>1, Zenon DEF ChildLines
<1>3. QED
  BY <1>2, Zenon DEF SectionLines

(* The texts of the last k nodes.                                          *)
IsText(t, f, k) ==
  /\ f \in [1 .. Len(t) -> Comments]
  /\ \A n \in 1 .. Len(t) : n > Len(t) - k => f[n] = SectionLines(t, f, n)

LEMMA TextExists ==
  ASSUME NEW t, IsTree(t)
  PROVE  \E f : IsText(t, f, Len(t))
<1> DEFINE N == Len(t)
           S == {k \in 0 .. N : \E f : IsText(t, f, k)}
<1>1. N \in Nat /\ \A i \in 1 .. N : t[i].parent < i /\ t[i].parent \in Nat
  BY TreeIs
<1>2. 0 \in S
  <2>1. [i \in 1 .. N |-> <<>>] \in [1 .. N -> Comments]
    BY EmptyIsTyped
  <2>2. IsText(t, [i \in 1 .. N |-> <<>>], 0)
    BY <1>1, <2>1 DEF IsText
  <2>3. 0 \in 0 .. N
    BY <1>1
  <2>4. QED
    BY <2>2, <2>3, Zenon
<1>3. ASSUME NEW k \in 1 .. N, k - 1 \in S
      PROVE  k \in S
  <2>1. PICK f : IsText(t, f, k - 1)
    BY <1>3
  <2> DEFINE m == N - k + 1
             x == SectionLines(t, f, m)
             g == [f EXCEPT ![m] = x]
  <2>2. m \in 1 .. N
    BY <1>1
  <2>3. f \in [1 .. N -> Comments] /\ \A n \in 1 .. N : n > m => f[n] = SectionLines(t, f, n)
    BY <1>1, <2>1 DEF IsText
  <2> HIDE DEF m
  <2>4. x \in Comments
    BY <2>2, <2>3, SectionLinesTyped
  <2> HIDE DEF x
  <2>5. g \in [1 .. N -> Comments] /\ g[m] = x /\ \A n \in 1 .. N : n # m => g[n] = f[n]
    BY <2>2, <2>3, <2>4
  <2> HIDE DEF g
  <2>6. ASSUME NEW n \in 1 .. N, n >= m
        PROVE  g[n] = SectionLines(t, g, n)
    <3>1. \A i \in 1 .. N : t[i].parent = n => g[i] = f[i]
      BY <1>1, <2>2, <2>5, <2>6
    <3>2. SectionLines(t, g, n) = SectionLines(t, f, n)
      BY <3>1, SectionLinesLocal
    <3>3. CASE n = m
      BY <2>5, <3>2, <3>3 DEF x
    <3>4. CASE n # m
      <4>1. n > m
        BY <2>2, <2>6, <3>4
      <4>2. QED
        BY <2>3, <2>5, <3>2, <3>4, <4>1
    <3>5. QED
      BY <3>3, <3>4
  <2>7. \A n \in 1 .. N : n > N - k => n >= m
    BY <1>1 DEF m
  <2>8. IsText(t, g, k)
    BY <2>5, <2>6, <2>7 DEF IsText
  <2>9. k \in 0 .. N
    OBVIOUS
  <2>10. QED
    BY <2>8, <2>9, Zenon
<1> HIDE DEF S
<1>4. \A i \in 0 .. N : i \in S
  BY ONLY <1>1, <1>2, <1>3, Climb
<1>5. N \in 0 .. N
  BY <1>1
<1>6. QED
  BY <1>4, <1>5 DEF S

(* Generate writes the texts of the top level, and of every section below. *)
LEMMA GenerateIs ==
  ASSUME NEW t, IsTree(t)
  PROVE  \E text : IsText(t, text, Len(t)) /\ Generate(t) = ChildLines(t, text, Root)
<1> DEFINE N == Len(t)
           Body(f) == [n \in 1 .. Len(t) |-> SectionLines(t, f, n)]
           text == CHOOSE f : f = Body(f)
<1>1. N \in Nat /\ \A i \in 1 .. N : t[i].parent < i /\ t[i].parent \in Nat
  BY TreeIs
<1>2. Generate(t) = ChildLines(t, text, Root)
  BY Zenon DEF Generate
<1>3. text = Body(text)
  <2>1. PICK f : IsText(t, f, N)
    BY TextExists
  <2>2. \A n \in 1 .. N : f[n] = SectionLines(t, f, n)
    BY <1>1, <2>1 DEF IsText
  <2>3. f = [n \in 1 .. N |-> f[n]]
    BY <2>1 DEF IsText
  <2>4. f = Body(f)
    BY <2>2, <2>3, Zenon
  <2> HIDE DEF Body
  <2>5. QED
    BY <2>4, Zenon
<1> HIDE DEF text
<1>4. \A n \in 1 .. N : text[n] = SectionLines(t, text, n)
  BY <1>3, Zenon
<1> DEFINE S == {k \in 0 .. N : \A n \in 1 .. N : n > N - k => text[n] \in Comments}
<1>5. 0 \in S
  BY <1>1
<1>6. ASSUME NEW k \in 1 .. N, k - 1 \in S
      PROVE  k \in S
  <2>1. \A n \in 1 .. N : n > N - k + 1 => text[n] \in Comments
    BY <1>1, <1>6
  <2>2. ASSUME NEW n \in 1 .. N, n > N - k
        PROVE  text[n] \in Comments
    <3>1. \A i \in 1 .. N : t[i].parent = n => text[i] \in Comments
      <4>1. \A i \in 1 .. N : t[i].parent = n => i > N - k + 1
        BY <1>1, <2>2
      <4>2. QED
        BY <2>1, <4>1
    <3>2. SectionLines(t, text, n) \in Comments
      BY <3>1, SectionLinesTyped
    <3>3. QED
      BY <1>4, <3>2
  <2>3. QED
    BY <2>2
<1>7. \A n \in 1 .. N : text[n] \in Comments
  <2> HIDE DEF S
  <2>1. \A k \in 0 .. N : k \in S
    BY ONLY <1>1, <1>5, <1>6, Climb
  <2>2. N \in S
    BY <1>1, <2>1
  <2>3. QED
    BY <1>1, <2>2 DEF S
<1>8. IsText(t, text, N)
  <2>1. text \in [1 .. N -> Comments]
    <3>1. text = [n \in 1 .. N |-> SectionLines(t, text, n)]
      BY <1>3, Zenon
    <3>2. DOMAIN text = 1 .. N /\ text = [n \in DOMAIN text |-> text[n]]
      BY <3>1, Zenon
    <3>3. QED
      BY <1>7, <3>2
  <2>2. QED
    BY <1>4, <2>1 DEF IsText
<1>9. QED
  BY <1>2, <1>8

LEMMA GenerateTyped ==
  ASSUME NEW t, IsTree(t)
  PROVE  Generate(t) \in Seq(Words)
<1>1. PICK text : IsText(t, text, Len(t)) /\ Generate(t) = ChildLines(t, text, Root)
  BY GenerateIs
<1>2. \A n \in 1 .. Len(t) : text[n] \in Comments
  BY <1>1 DEF IsText
<1>3. QED
  BY <1>1, <1>2, ChildLinesTyped DEF Comments

-----------------------------------------------------------------------------
(* The parser.                                                             *)

Entry(t) == [node : 1 .. Len(t), pair : Nat]

(* While a text is parsed the running ParseImpl calls have different nodes,*)
(* and CommentedNodeStack follows them.                                    *)
Follows(t, calls, entries) ==
  /\ Len(calls) = Len(entries) + 1
  /\ \A i \in 1 .. Len(entries) : entries[i] = LastIn(t, calls[i + 1])
  /\ \A i, j \in 1 .. Len(calls) : calls[i] = calls[j] => i = j

CodecInv ==
  /\ file \in Seq(Words)
  /\ IsTree(nodes)
  /\ open \in Seq(1 .. Len(nodes))
  /\ stack \in Seq(Entry(nodes))
  /\ status \in Statuses
  /\ edits \in 0 .. MaxEdits
  /\ status = "parsing" => Follows(nodes, open, stack)

LEMMA FreshIs == IsTree(Fresh) /\ Len(Fresh) = 1
<1> DEFINE x == Node(<<>>, NoNode, -1)
<1>1. x \in NodeType /\ x.parent = 0
  BY EmptyIsTyped DEF Node, NodeType, NoNode
<1> HIDE DEF x
<1>2. \A y \in NodeType : <<y>> \in Seq(NodeType) /\ Len(<<y>>) = 1 /\ <<y>>[1] = y /\ <<y>> # <<>>
  OBVIOUS
<1>3. Fresh = <<x>>
  BY DEF Fresh, x
<1>4. QED
  BY <1>1, <1>2, <1>3 DEF IsTree

LEMMA FreshFollows ==
  <<Root>> \in Seq(1 .. Len(Fresh)) /\ <<>> \in Seq(Entry(Fresh)) /\ Follows(Fresh, <<Root>>, <<>>)
<1>1. <<1>> \in Seq(1 .. 1)
  OBVIOUS
<1>2. QED
  BY <1>1, FreshIs DEF Follows, Root

LEMMA CodecInvInit ==
  ASSUME CodecInit
  PROVE  CodecInv
<1>1. file \in Seq(Words) /\ status \in Statuses /\ edits \in 0 .. MaxEdits
  BY CodecAssumption DEF CodecInit, Statuses
<1>2. QED
  BY <1>1, FreshIs, FreshFollows DEF CodecInit, CodecInv

LEMMA CodecInvHolds ==
  ASSUME CodecInv
  PROVE  CodecTypeOK /\ StackFollowsSections
<1>1. DOMAIN nodes = 1 .. Len(nodes) /\ nodes \in Seq(NodeType)
  BY TreeIs DEF CodecInv, IsTree
<1>2. CodecTypeOK
  BY <1>1 DEF CodecInv, CodecTypeOK, NodeType, Entry
<1>3. StackFollowsSections
  <2> SUFFICES ASSUME status = "parsing"
               PROVE  /\ Len(open) = Len(stack) + 1
                      /\ \A i \in DOMAIN stack : stack[i] = LastIn(nodes, open[i + 1])
    BY DEF StackFollowsSections
  <2>1. Follows(nodes, open, stack) /\ DOMAIN stack = 1 .. Len(stack)
    BY DEF CodecInv
  <2>2. QED
    BY <2>1 DEF Follows
<1>4. QED
  BY <1>2, <1>3

(* A tree that has lost no node keeps the pointers typed.                  *)
LEMMA PointersStay ==
  ASSUME NEW t, NEW u, IsTree(t), IsTree(u), Len(u) >= Len(t)
  PROVE  Seq(1 .. Len(t)) \subseteq Seq(1 .. Len(u)) /\ Seq(Entry(t)) \subseteq Seq(Entry(u))
<1>1. 1 .. Len(t) \subseteq 1 .. Len(u)
  BY TreeIs
<1>2. Entry(t) \subseteq Entry(u)
  BY <1>1 DEF Entry
<1>3. QED
  BY <1>1, <1>2, SeqMonotonic

(* The innermost section, while a text is parsed.                          *)
LEMMA Innermost ==
  ASSUME CodecInv, status = "parsing"
  PROVE  /\ open # <<>> /\ Len(open) \in Nat /\ Last(open) \in 1 .. Len(nodes)
         /\ Len(stack) \in Nat /\ Len(open) = Len(stack) + 1
         /\ stack # <<>> =>
              /\ Last(stack) = LastIn(nodes, Last(open))
              /\ Front(open) \in Seq(1 .. Len(nodes)) /\ Front(stack) \in Seq(Entry(nodes))
              /\ Len(Front(open)) = Len(open) - 1 /\ Len(Front(stack)) = Len(stack) - 1
              /\ \A i \in 1 .. Len(open) - 1 : Front(open)[i] = open[i]
              /\ \A i \in 1 .. Len(stack) - 1 : Front(stack)[i] = stack[i]
<1>1. /\ Len(open) = Len(stack) + 1 /\ Len(stack) \in Nat
      /\ open \in Seq(1 .. Len(nodes)) /\ stack \in Seq(Entry(nodes))
      /\ \A i \in 1 .. Len(stack) : stack[i] = LastIn(nodes, open[i + 1])
  BY DEF CodecInv, Follows
<1>2. open # <<>>
  BY <1>1
<1>3. Last(open) \in 1 .. Len(nodes) /\ Len(open) \in Nat
  BY <1>1, <1>2, FrontLast
<1>4. ASSUME stack # <<>>
      PROVE  Last(stack) = LastIn(nodes, Last(open))
  <2>1. Len(stack) \in 1 .. Len(stack)
    BY <1>1, <1>4
  <2>2. stack[Len(stack)] = LastIn(nodes, open[Len(open)])
    BY <1>1, <2>1
  <2>3. QED
    BY <2>2 DEF Last
<1>5. QED
  BY <1>1, <1>2, <1>3, <1>4, FrontLast

(* The nodes of other sections are not changed when pairs are added to the *)
(* innermost one, or comments anywhere.                                    *)
LEMMA FollowsStays ==
  ASSUME CodecInv, status = "parsing", NEW t, IsTree(t), Len(t) = Len(nodes),
         \A i \in 1 .. Len(nodes) : Len(t[i].pairs) = Len(nodes[i].pairs)
  PROVE  Follows(t, open, stack)
<1>1. /\ Len(open) = Len(stack) + 1 /\ Len(stack) \in Nat
      /\ open \in Seq(1 .. Len(nodes))
      /\ \A i \in 1 .. Len(stack) : stack[i] = LastIn(nodes, open[i + 1])
  BY DEF CodecInv, Follows
<1>2. ASSUME NEW i \in 1 .. Len(stack)
      PROVE  stack[i] = LastIn(t, open[i + 1])
  <2>1. open[i + 1] \in 1 .. Len(nodes)
    BY <1>1
  <2>2. QED
    BY <1>1, <2>1 DEF LastIn
<1>3. QED
  BY <1>1, <1>2 DEF CodecInv, Follows

LEMMA CommentStep ==
  ASSUME CodecInv, ReadComment
  PROVE  CodecInv'
<1> DEFINE at == Last(stack)
<1>1. /\ status = "parsing" /\ file # <<>> /\ Line = Head(file)
      /\ file' = Tail(file) /\ UNCHANGED <<open, stack, last, edits, saved>>
  BY DEF ReadComment, Reading, Line
<1>2. file' \in Seq(Words) /\ Line \in Words
  BY <1>1 DEF CodecInv
<1>3. CASE stack = <<>>
  <2>1. nodes' = nodes /\ status' = "PARSE_FAIL_SECTION_TAG_NOT_MATCH"
    BY <1>3 DEF ReadComment
  <2>2. QED
    BY <1>1, <1>2, <2>1 DEF CodecInv, Statuses
<1>4. CASE stack # <<>>
  <2>1. /\ status' = status
        /\ nodes' = IF at.pair = 0
                    THEN [nodes EXCEPT ![at.node].comments = Append(@, Line)]
                    ELSE [nodes EXCEPT ![at.node].pairs[at.pair].comments = Append(@, Line)]
    BY <1>4 DEF ReadComment
  <2>2. at = LastIn(nodes, Last(open)) /\ Last(open) \in 1 .. Len(nodes)
    BY <1>1, <1>4, Innermost
  <2> DEFINE n == Last(open)
             pairs == nodes[n].pairs
             k == Len(pairs)
  <2>3. at.node = n /\ at.pair = k
    BY <2>2 DEF LastIn
  <2>4. /\ nodes[n].comments \in Seq(Words) /\ pairs \in Seq(PairType) /\ IsTree(nodes)
    BY <2>2, TreeIs DEF CodecInv, Comments, Pairs, PairType
  <2>5. /\ IsTree(nodes') /\ Len(nodes') = Len(nodes)
        /\ \A i \in 1 .. Len(nodes) : Len(nodes'[i].pairs) = Len(nodes[i].pairs)
    <3>1. CASE k = 0
      <4> DEFINE c == Append(nodes[n].comments, Line)
      <4>1. c \in Comments
        BY <1>2, <2>4, AppendProperties DEF Comments
      <4>2. nodes' = [nodes EXCEPT ![n].comments = c]
        BY <2>1, <2>3, <3>1
      <4> HIDE DEF c
      <4>3. /\ IsTree(nodes') /\ Len(nodes') = Len(nodes)
            /\ nodes'[n].pairs = nodes[n].pairs
            /\ \A i \in 1 .. Len(nodes) : i # n => nodes'[i] = nodes[i]
        <5> DEFINE u == WithComments(nodes, n, c)
        <5>1. /\ IsTree(u) /\ Len(u) = Len(nodes) /\ u[n].pairs = nodes[n].pairs
              /\ \A i \in 1 .. Len(nodes) : i # n => u[i] = nodes[i]
          BY <2>2, <2>4, <4>1, CommentsSet, Zenon
        <5>2. QED
          BY <4>2, <5>1 DEF WithComments
      <4>5. QED
        BY <4>3
    <3>2. CASE k # 0
      <4>1. k \in 1 .. Len(pairs) /\ pairs[k] \in PairType
        BY <2>4, <3>2
      <4> DEFINE x == [pairs[k] EXCEPT !.comments = Append(@, Line)]
                 p == [pairs EXCEPT ![k] = x]
      <4>2. x \in PairType
        <5>1. Append(pairs[k].comments, Line) \in Comments
          BY <1>2, <4>1, AppendProperties DEF Comments, PairType
        <5>2. QED
          BY <4>1, <5>1 DEF PairType
      <4>3. nodes' = [nodes EXCEPT ![n].pairs = p]
        BY <2>1, <2>3, <3>2
      <4> HIDE DEF x, k
      <4>4. p \in Pairs /\ Len(p) = Len(pairs)
        BY <2>4, <4>1, <4>2, ExceptSeq DEF Pairs, PairType
      <4> HIDE DEF p
      <4>5. /\ IsTree(nodes') /\ Len(nodes') = Len(nodes)
            /\ nodes'[n].pairs = p
            /\ \A i \in 1 .. Len(nodes) : i # n => nodes'[i] = nodes[i]
        <5> DEFINE u == WithPairs(nodes, n, p)
        <5>1. /\ IsTree(u) /\ Len(u) = Len(nodes) /\ u[n].pairs = p
              /\ \A i \in 1 .. Len(nodes) : i # n => u[i] = nodes[i]
          <6>1. n \in 1 .. Len(nodes)
            BY <2>2
          <6> HIDE DEF n
          <6>2. QED
            BY <2>4, <4>4, <6>1, PairsSet
        <5>2. QED
          BY <4>3, <5>1 DEF WithPairs
      <4>7. QED
        BY <4>4, <4>5
    <3>3. QED
      BY <3>1, <3>2
  <2>6. Follows(nodes', open, stack)
    BY <1>1, <2>5, FollowsStays
  <2>7. QED
    BY <1>1, <1>2, <2>1, <2>5, <2>6 DEF CodecInv, Entry
<1>5. QED
  BY <1>3, <1>4

(* The pair a line is split into. *)
PairOf(w) ==
  LET at == SelectInSeq(w, LAMBDA c : c = "=")
  IN  Pair(SubSeq(w, 1, at - 1), SubSeq(w, at + 1, Len(w)))

LEMMA PairOfTyped ==
  ASSUME NEW w \in Words
  PROVE  PairOf(w) \in PairType /\ PairOf(w).comments = <<>>
<1> DEFINE at == SelectInSeq(w, LAMBDA c : c = "=")
           I == {i \in 1 .. Len(w) : w[i] = "="}
<1>1. at = IF I # {} THEN Min(I) ELSE 0
  BY DEF SelectInSeq
<1>2. I \in SUBSET Nat /\ I \subseteq 0 .. Len(w) /\ 0 \in 0 .. Len(w)
  BY DEF Words
<1> HIDE DEF I, at
<1>3. at \in 0 .. Len(w)
  <2>1. I # {} => Min(I) \in I
    BY <1>2, MinIsLeast
  <2>2. QED
    BY <1>1, <1>2, <2>1
<1>4. SubSeq(w, 1, at - 1) \in Words /\ SubSeq(w, at + 1, Len(w)) \in Words
  BY <1>3, SubSeqTyped DEF Words
<1>5. PairOf(w) = Pair(SubSeq(w, 1, at - 1), SubSeq(w, at + 1, Len(w)))
  BY DEF PairOf, at
<1>6. QED
  BY <1>4, <1>5, EmptyIsTyped DEF Pair, PairType

LEMMA PairStep ==
  ASSUME CodecInv, ReadPair
  PROVE  CodecInv'
<1> DEFINE n == Last(open)
           x == PairOf(Line)
           p == Append(nodes[n].pairs, x)
<1>1. /\ status = "parsing" /\ file # <<>> /\ Line = Head(file) /\ Line # <<>>
      /\ file' = Tail(file) /\ UNCHANGED <<open, last, edits, saved>>
  BY DEF ReadPair, IsLine, Reading, Line
<1>2. file' \in Seq(Words) /\ Line \in Seq(Symbols)
  BY <1>1 DEF CodecInv, Words
<1>3. /\ nodes' = [nodes EXCEPT ![n].pairs = p]
      /\ IF stack = <<>>
         THEN status' = "wild" /\ UNCHANGED stack
         ELSE stack' = Append(Front(stack), LastIn(nodes', n)) /\ UNCHANGED status
  BY DEF ReadPair, PairOf
<1>4. n \in 1 .. Len(nodes) /\ Len(open) \in Nat \ {0} /\ IsTree(nodes)
  BY <1>1, Innermost DEF CodecInv
<1>5. x \in PairType
  BY <1>2, PairOfTyped DEF Words
<1> HIDE DEF x
<1>6. /\ p \in Pairs /\ Len(p) = Len(nodes[n].pairs) + 1 /\ Len(p) \in Nat
  <2>1. nodes[n].pairs \in Seq(PairType)
    BY <1>4, TreeIs DEF Pairs, PairType
  <2>2. QED
    BY <1>5, <2>1, AppendProperties DEF Pairs, PairType
<1> HIDE DEF p
<1>7. /\ IsTree(nodes') /\ Len(nodes') = Len(nodes)
      /\ nodes'[n].pairs = p
      /\ \A i \in 1 .. Len(nodes) : i # n => nodes'[i] = nodes[i]
  <2> DEFINE u == WithPairs(nodes, n, p)
  <2>1. /\ IsTree(u) /\ Len(u) = Len(nodes) /\ u[n].pairs = p
        /\ \A i \in 1 .. Len(nodes) : i # n => u[i] = nodes[i]
    BY <1>4, <1>6, PairsSet
  <2>2. QED
    BY <1>3, <2>1 DEF WithPairs
<1>9. CASE stack = <<>>
  BY <1>1, <1>2, <1>3, <1>7, <1>9 DEF CodecInv, Entry, Statuses
<1>10. CASE stack # <<>>
  <2> DEFINE e == LastIn(nodes', n)
             s == Append(Front(stack), e)
             m == Len(stack)
  <2>1. e \in Entry(nodes) /\ Entry(nodes') = Entry(nodes)
    BY <1>4, <1>6, <1>7 DEF LastIn, Entry
  <2>2. /\ m \in Nat \ {0} /\ Len(open) = m + 1
        /\ Front(stack) \in Seq(Entry(nodes)) /\ Len(Front(stack)) = m - 1
        /\ \A i \in 1 .. m - 1 : Front(stack)[i] = stack[i]
    BY <1>1, <1>10, Innermost
  <2> HIDE DEF e, m
  <2>3. /\ s \in Seq(Entry(nodes)) /\ Len(s) = m /\ s[m] = e
        /\ \A i \in 1 .. m - 1 : s[i] = stack[i]
    BY <2>1, <2>2, AppendProperties
  <2>4. stack' = s /\ status' = status
    BY <1>3, <1>10 DEF e
  <2> HIDE DEF s
  <2>5. ASSUME NEW i \in 1 .. m
        PROVE  s[i] = LastIn(nodes', open[i + 1])
    <3>1. CASE i = m
      <4>1. open[i + 1] = n
        BY <2>2, <3>1 DEF Last
      <4>2. QED
        BY <2>3, <3>1, <4>1 DEF e
    <3>2. CASE i # m
      <4>1. /\ stack[i] = LastIn(nodes, open[i + 1])
            /\ \A k, l \in 1 .. m + 1 : open[k] = open[l] => k = l
            /\ open \in Seq(1 .. Len(nodes))
        BY <1>1, <2>2 DEF CodecInv, Follows, m
      <4>2. i \in 1 .. m - 1 /\ i + 1 \in 1 .. m + 1 /\ m + 1 \in 1 .. m + 1 /\ i + 1 # m + 1
        BY <2>2, <3>2
      <4>3. open[i + 1] # n /\ open[i + 1] \in 1 .. Len(nodes)
        <5>1. Len(open) = m + 1 /\ n = open[m + 1]
          BY <2>2, <4>1 DEF Last
        <5>2. open[i + 1] # open[m + 1]
          BY <4>1, <4>2, Zenon
        <5>3. QED
          BY <4>1, <4>2, <5>1, <5>2
      <4>4. LastIn(nodes', open[i + 1]) = LastIn(nodes, open[i + 1])
        BY <1>7, <4>3 DEF LastIn
      <4>5. QED
        BY <2>3, <4>1, <4>2, <4>4
    <3>3. QED
      BY <3>1, <3>2
  <2>6. Follows(nodes', open, s)
    BY <1>1, <2>2, <2>3, <2>5 DEF CodecInv, Follows
  <2>7. QED
    BY <1>1, <1>2, <1>7, <2>1, <2>3, <2>4, <2>6 DEF CodecInv
<1>11. QED
  BY <1>9, <1>10

LEMMA BeginStep ==
  ASSUME CodecInv, ReadBegin
  PROVE  CodecInv'
<1> DEFINE n == Last(open)
           tag == SubSeq(Line, 2, Len(Line) - 1)
           new == Len(nodes) + 1
           e == [node |-> new, pair |-> 0]
           m == Len(stack)
<1>1. /\ status = "parsing" /\ file # <<>> /\ Line = Head(file)
      /\ file' = Tail(file) /\ UNCHANGED <<status, last, edits, saved>>
      /\ nodes' = Append(nodes, Node(tag, n, nodes[n].level + 1))
      /\ open' = Append(open, new) /\ stack' = Append(stack, e)
  BY DEF ReadBegin, IsLine, Reading, Line
<1>2. file' \in Seq(Words) /\ Line \in Seq(Symbols)
  BY <1>1 DEF CodecInv, Words
<1>3. tag \in Words
  <2>1. Len(Line) - 1 \in Int /\ Len(Line) - 1 <= Len(Line) /\ 2 \in Nat \ {0}
    BY <1>2
  <2>2. QED
    BY <1>2, <2>1, SubSeqTyped DEF Words
<1>4. n \in 1 .. Len(nodes) /\ IsTree(nodes) /\ Len(nodes) \in Nat
  BY <1>1, Innermost, TreeIs DEF CodecInv
<1> HIDE DEF n, tag
<1>5. /\ IsTree(nodes') /\ Len(nodes') = new
      /\ nodes'[new] = Node(tag, n, nodes[n].level + 1)
      /\ \A i \in 1 .. Len(nodes) : nodes'[i] = nodes[i]
  BY <1>1, <1>3, <1>4, NodeAdded
<1>6. /\ open \in Seq(1 .. Len(nodes')) /\ stack \in Seq(Entry(nodes'))
      /\ new \in 1 .. Len(nodes') /\ e \in Entry(nodes')
  <2>1. Seq(1 .. Len(nodes)) \subseteq Seq(1 .. Len(nodes'))
        /\ Seq(Entry(nodes)) \subseteq Seq(Entry(nodes'))
    BY <1>4, <1>5, PointersStay
  <2>2. open \in Seq(1 .. Len(nodes)) /\ stack \in Seq(Entry(nodes))
    BY DEF CodecInv
  <2>3. new \in 1 .. Len(nodes')
    BY <1>4, <1>5
  <2>4. e \in Entry(nodes')
    <3> HIDE DEF new
    <3>1. QED
      BY <2>3 DEF Entry
  <2>5. QED
    BY <2>1, <2>2, <2>3, <2>4
<1>7. m \in Nat /\ Len(open) = m + 1
  BY <1>1, Innermost
<1> HIDE DEF m
<1>8. /\ open' \in Seq(1 .. Len(nodes')) /\ Len(open') = m + 2 /\ open'[m + 2] = new
      /\ \A i \in 1 .. m + 1 : open'[i] = open[i] /\ open[i] \in 1 .. Len(nodes)
  <2>1. \A i \in 1 .. m + 1 : open[i] \in 1 .. Len(nodes)
    <3>1. open \in Seq(1 .. Len(nodes))
      BY DEF CodecInv
    <3>2. QED
      BY <1>7, <3>1, ElementOfSeq
  <2> HIDE DEF new
  <2>2. /\ open' \in Seq(1 .. Len(nodes')) /\ Len(open') = Len(open) + 1
        /\ \A i \in 1 .. Len(open) : open'[i] = open[i]
        /\ open'[Len(open) + 1] = new
    BY <1>1, <1>6, AppendProperties
  <2>3. m + 1 + 1 = m + 2
    BY <1>7
  <2>4. QED
    BY <1>7, <2>1, <2>2, <2>3
<1>9. /\ stack' \in Seq(Entry(nodes')) /\ Len(stack') = m + 1 /\ stack'[m + 1] = e
      /\ \A i \in 1 .. m : stack'[i] = stack[i]
  BY <1>1, <1>6, AppendProperties DEF m
<1>10. ASSUME NEW i \in 1 .. m + 1
       PROVE  stack'[i] = LastIn(nodes', open'[i + 1])
  <2>1. CASE i = m + 1
    <3>1. open'[i + 1] = new
      BY <1>7, <1>8, <2>1
    <3>2. nodes'[new].pairs = <<>>
      BY <1>5 DEF Node
    <3> HIDE DEF new
    <3>3. LastIn(nodes', new) = [node |-> new, pair |-> 0]
      BY <3>2 DEF LastIn
    <3>4. QED
      BY <1>9, <2>1, <3>1, <3>3
  <2>2. CASE i # m + 1
    <3>1. i \in 1 .. m /\ i + 1 \in 1 .. m + 1
      BY <1>7, <2>2
    <3>2. stack[i] = LastIn(nodes, open[i + 1])
      BY <1>1, <3>1 DEF CodecInv, Follows, m
    <3>3. open'[i + 1] = open[i + 1] /\ open[i + 1] \in 1 .. Len(nodes)
      BY <1>8, <3>1
    <3>4. LastIn(nodes', open[i + 1]) = LastIn(nodes, open[i + 1])
      BY <1>5, <3>3 DEF LastIn
    <3>5. QED
      BY <1>9, <3>1, <3>2, <3>3, <3>4
  <2>3. QED
    BY <2>1, <2>2
<1>11. ASSUME NEW i \in 1 .. m + 2, NEW j \in 1 .. m + 2, open'[i] = open'[j]
       PROVE  i = j
  <2>1. \A k, l \in 1 .. m + 1 : open[k] = open[l] => k = l
    BY <1>1, <1>7 DEF CodecInv, Follows
  <2>2. \A k \in 1 .. m + 1 : open'[k] # new
    <3>1. \A l \in 1 .. Len(nodes) : l # new
      BY <1>4
    <3> HIDE DEF new
    <3>2. QED
      BY <1>8, <3>1
  <2>3. \A k \in 1 .. m + 2 : k = m + 2 \/ k \in 1 .. m + 1
    BY <1>7
  <2> HIDE DEF new
  <2>4. QED
    BY <1>8, <1>11, <2>1, <2>2, <2>3
<1>12. Follows(nodes', open', stack')
  BY <1>7, <1>8, <1>9, <1>10, <1>11 DEF Follows
<1>13. QED
  BY <1>1, <1>2, <1>5, <1>8, <1>9, <1>12 DEF CodecInv

LEMMA EndStep ==
  ASSUME CodecInv, ReadEnd
  PROVE  CodecInv'
<1>1. /\ status = "parsing" /\ file # <<>> /\ file' = Tail(file)
      /\ UNCHANGED <<nodes, last, edits, saved>>
  BY DEF ReadEnd, IsLine, Reading
<1>2. file' \in Seq(Words)
  BY <1>1 DEF CodecInv
<1>3. \/ /\ status' \in {"PARSE_FAIL_SECTION_TAG_NOT_MATCH", "wild"}
         /\ UNCHANGED <<open, stack>>
      \/ /\ stack # <<>> /\ status' = status
         /\ open' = Front(open) /\ stack' = Front(stack)
  BY DEF ReadEnd
<1>4. CASE UNCHANGED <<open, stack>> /\ status' \in {"PARSE_FAIL_SECTION_TAG_NOT_MATCH", "wild"}
  BY <1>1, <1>2, <1>4 DEF CodecInv, Statuses
<1>5. CASE stack # <<>> /\ status' = status /\ open' = Front(open) /\ stack' = Front(stack)
  <2> DEFINE m == Len(stack)
  <2>1. /\ m \in Nat \ {0} /\ Len(open) = m + 1
        /\ Front(open) \in Seq(1 .. Len(nodes)) /\ Front(stack) \in Seq(Entry(nodes))
        /\ Len(open') = m /\ Len(stack') = m - 1
        /\ \A i \in 1 .. m : open'[i] = open[i]
        /\ \A i \in 1 .. m - 1 : stack'[i] = stack[i]
    BY <1>1, <1>5, Innermost
  <2>2. /\ \A i \in 1 .. m : stack[i] = LastIn(nodes, open[i + 1])
        /\ \A i, j \in 1 .. m + 1 : open[i] = open[j] => i = j
    BY <1>1, <2>1 DEF CodecInv, Follows
  <2> HIDE DEF m
  <2>3. Follows(nodes, open', stack')
    <3>1. ASSUME NEW i \in 1 .. m - 1
          PROVE  stack'[i] = LastIn(nodes, open'[i + 1])
      <4>1. i \in 1 .. m /\ i + 1 \in 1 .. m
        BY <2>1
      <4>2. QED
        BY <2>1, <2>2, <4>1
    <3>2. \A i, j \in 1 .. m : open'[i] = open'[j] => i = j
      BY <2>1, <2>2
    <3>3. Len(open') = m /\ Len(stack') = m - 1 /\ m = m - 1 + 1
      BY <2>1
    <3>4. QED
      BY <3>1, <3>2, <3>3 DEF Follows
  <2>4. QED
    BY <1>1, <1>2, <1>5, <2>1, <2>3 DEF CodecInv
<1>6. QED
  BY <1>3, <1>4, <1>5

LEMMA ParseStep ==
  ASSUME CodecInv, ParseImpl
  PROVE  CodecInv'
<1>1. ASSUME Reading
      PROVE  Tail(file) \in Seq(Words)
  BY <1>1 DEF Reading, CodecInv
<1>2. CASE ReadBlank
  BY <1>1, <1>2 DEF ReadBlank, CodecInv
<1>3. CASE ReadError
  BY <1>1, <1>3 DEF ReadError, IsLine, CodecInv, Statuses
<1>4. CASE ReadNothing
  BY <1>4 DEF ReadNothing, CodecInv, Statuses
<1>5. QED
  BY <1>2, <1>3, <1>4, CommentStep, PairStep, BeginStep, EndStep DEF ParseImpl

-----------------------------------------------------------------------------
(* Generate and the editing calls.                                         *)

LEMMA GenerateStep ==
  ASSUME CodecInv, GenerateAndParse
  PROVE  CodecInv'
<1>1. file' \in Seq(Words)
  BY GenerateTyped DEF GenerateAndParse, CodecInv
<1>2. nodes' = Fresh /\ open' = <<Root>> /\ stack' = <<>> /\ status' = "parsing" /\ edits' = edits
  BY DEF GenerateAndParse
<1>3. IsTree(nodes') /\ open' \in Seq(1 .. Len(nodes')) /\ stack' \in Seq(Entry(nodes'))
      /\ Follows(nodes', open', stack')
  BY <1>2, FreshIs, FreshFollows
<1>4. status' \in Statuses /\ edits' \in 0 .. MaxEdits
  BY <1>2 DEF Statuses, CodecInv
<1>5. QED
  BY <1>1, <1>3, <1>4 DEF CodecInv

(* A call that leaves a tree with no fewer nodes keeps the invariant.      *)
LEMMA CallStep ==
  ASSUME CodecInv, NEW name, NEW path, NEW key, NEW value, NEW result, NEW tree,
         Call(name, path, key, value, result, tree), IsTree(tree), Len(tree) >= Len(nodes)
  PROVE  CodecInv'
<1>1. /\ status # "parsing" /\ status' \in {"wild", status}
      /\ nodes' = tree /\ UNCHANGED <<file, open, stack>>
      /\ edits < MaxEdits /\ edits' = edits + 1
  BY DEF Call, Returned
<1>2. status' \in Statuses /\ status' # "parsing"
  BY <1>1 DEF CodecInv, Statuses
<1>3. edits' \in 0 .. MaxEdits
  BY <1>1, CodecAssumption DEF CodecInv
<1>4. open' \in Seq(1 .. Len(tree)) /\ stack' \in Seq(Entry(tree))
  BY <1>1, PointersStay DEF CodecInv
<1>5. QED
  BY <1>1, <1>2, <1>3, <1>4 DEF CodecInv

(* What a call of each kind makes of the tree: a new pair has no comments, *)
(* and a new raw line is one that InsertRawLine was given.                 *)
IsRaw(w) == w # <<>> /\ Last(w) = "="

CommentsFrom(p, q) ==
  \A i \in 1 .. Len(p) :
    p[i].comments = <<>> \/ \E j \in 1 .. Len(q) : p[i].comments = q[j].comments

RawFrom(r, s) ==
  \A i \in 1 .. Len(r) : IsRaw(r[i]) \/ \E j \in 1 .. Len(s) : r[i] = s[j]

EditLeaves(t, u) ==
  \/ u = t
  \/ \E n \in 1 .. Len(t) :
       \/ \E p \in Pairs : CommentsFrom(p, t[n].pairs) /\ u = WithPairs(t, n, p)
       \/ \E r \in Comments : RawFrom(r, t[n].raw) /\ u = WithRaw(t, n, r)
       \/ \E tag \in Words : u = Append(t, Node(tag, n, t[n].level + 1))
  \/ \E gone \in SUBSET (1 .. Len(t)) : u = Without(t, gone)

LEMMA PairAdded ==
  ASSUME NEW q \in Seq(PairType), NEW key \in Words, NEW value \in Words
  PROVE  CommentsFrom(Append(q, Pair(key, value)), q)
<1> DEFINE x == Pair(key, value)
           p == Append(q, x)
<1>1. x \in PairType /\ x.comments = <<>>
  BY EmptyIsTyped DEF Pair, PairType
<1> HIDE DEF x
<1>2. /\ Len(q) \in Nat /\ Len(p) = Len(q) + 1 /\ p[Len(q) + 1] = x
      /\ \A i \in 1 .. Len(q) : p[i] = q[i]
  BY <1>1, AppendProperties
<1> HIDE DEF p
<1>3. \A i \in 1 .. Len(p) : i = Len(q) + 1 \/ i \in 1 .. Len(q)
  BY <1>2
<1>4. CommentsFrom(p, q)
  BY <1>1, <1>2, <1>3 DEF CommentsFrom
<1>5. QED
  BY <1>4 DEF p, x

LEMMA PairOverwritten ==
  ASSUME NEW q \in Seq(PairType), NEW k \in 1 .. Len(q), NEW value
  PROVE  CommentsFrom([q EXCEPT ![k].value = value], q)
<1> DEFINE x == [q[k] EXCEPT !.value = value]
           p == [q EXCEPT ![k] = x]
<1>1. q[k] \in PairType
  OBVIOUS
<1>2. x.comments = q[k].comments
  BY <1>1 DEF PairType
<1>3. p = [q EXCEPT ![k].value = value]
  OBVIOUS
<1> HIDE DEF x
<1>4. Len(p) = Len(q) /\ p[k] = x /\ \A i \in 1 .. Len(q) : i # k => p[i] = q[i]
  OBVIOUS
<1> HIDE DEF p
<1>5. CommentsFrom(p, q)
  BY <1>2, <1>4 DEF CommentsFrom
<1>6. QED
  BY <1>3, <1>5

LEMMA PairErased ==
  ASSUME NEW q \in Seq(PairType), NEW k \in 1 .. Len(q)
  PROVE  CommentsFrom(RemoveAt(q, k), q)
<1> DEFINE p == RemoveAt(q, k)
           m == Len(q)
<1>1. m \in Nat /\ k \in Nat \ {0} /\ k <= m /\ \A i \in 1 .. m : q[i] \in PairType
  OBVIOUS
<1>2. PICK a \in Nat : a = k - 1
  BY <1>1
<1>3. /\ SubSeq(q, 1, a) \in Seq(PairType) /\ Len(SubSeq(q, 1, a)) = a
      /\ \A i \in 1 .. a : SubSeq(q, 1, a)[i] = q[i]
  BY <1>1, <1>2
<1>4. /\ SubSeq(q, k + 1, m) \in Seq(PairType) /\ Len(SubSeq(q, k + 1, m)) = m - k
      /\ \A i \in 1 .. m - k : SubSeq(q, k + 1, m)[i] = q[k + i]
  BY <1>1
<1> DEFINE f == SubSeq(q, 1, a)
           g == SubSeq(q, k + 1, m)
<1>5. p = f \o g
  BY <1>2 DEF RemoveAt
<1> HIDE DEF f, g, p, m
<1>6. /\ Len(p) = a + (m - k)
      /\ \A i \in 1 .. Len(p) : p[i] = IF i <= a THEN f[i] ELSE g[i - a]
  <2>1. f \in Seq(PairType) /\ Len(f) = a /\ g \in Seq(PairType) /\ Len(g) = m - k
    BY <1>3, <1>4 DEF f, g
  <2>2. PICK b \in Nat : b = m - k
    BY <1>1
  <2>3. Len(p) = a + b /\ \A i \in 1 .. a + b : p[i] = IF i <= a THEN f[i] ELSE g[i - a]
    BY <1>5, <2>1, <2>2, ConcatProperties
  <2>4. Len(p) = a + (m - k)
    BY <2>2, <2>3
  <2>5. 1 .. Len(p) = 1 .. a + b
    BY <2>3
  <2>6. QED
    BY <2>3, <2>4, <2>5
<1>7. ASSUME NEW i \in 1 .. Len(p)
      PROVE  \E j \in 1 .. m : p[i] = q[j]
  <2>1. CASE i <= a
    <3>1. i \in 1 .. a /\ i \in 1 .. m
      BY <1>1, <1>2, <1>6, <2>1
    <3>2. p[i] = q[i]
      BY <1>3, <1>6, <2>1, <3>1 DEF f
    <3>3. QED
      BY <3>1, <3>2
  <2>2. CASE ~(i <= a)
    <3>1. i - a \in 1 .. m - k /\ k + (i - a) \in 1 .. m
      BY <1>1, <1>2, <1>6, <2>2
    <3>2. p[i] = g[i - a]
      BY <1>6, <2>2
    <3>3. g[i - a] = q[k + (i - a)]
      BY <1>4, <3>1 DEF g
    <3>4. QED
      BY <3>1, <3>2, <3>3
  <2>3. QED
    BY <2>1, <2>2
<1>8. CommentsFrom(p, q)
  BY <1>7, Zenon DEF CommentsFrom, m
<1>9. QED
  BY <1>8 DEF p

LEMMA RawAdded ==
  ASSUME NEW s \in Comments, NEW key \in Words
  PROVE  RawFrom(Append(s, key \o <<"=">>), s)
<1> DEFINE x == key \o <<"=">>
           r == Append(s, x)
<1>1. x \in Words /\ IsRaw(x)
  <2>1. "=" \in Symbols
    BY CodecAssumption
  <2>2. /\ x \in Seq(Symbols) /\ Len(x) = Len(key) + 1 /\ x[Len(key) + 1] = "="
    BY <2>1, ConcatProperties DEF Words
  <2> HIDE DEF x
  <2>3. QED
    BY <2>2 DEF IsRaw, Last, Words
<1> HIDE DEF x
<1>2. /\ Len(s) \in Nat /\ Len(r) = Len(s) + 1 /\ r[Len(s) + 1] = x
      /\ \A i \in 1 .. Len(s) : r[i] = s[i]
  BY <1>1, AppendProperties DEF Comments
<1> HIDE DEF r
<1>3. \A i \in 1 .. Len(r) : i = Len(s) + 1 \/ i \in 1 .. Len(s)
  BY <1>2
<1>4. RawFrom(r, s)
  BY <1>1, <1>2, <1>3 DEF RawFrom
<1>5. QED
  BY <1>4 DEF r, x

LEMMA EditLeavesTree ==
  ASSUME NEW t, IsTree(t), NEW u, EditLeaves(t, u)
  PROVE  IsTree(u) /\ Len(u) >= Len(t)
<1>1. Len(t) \in Nat
  BY TreeIs
<1>2. CASE u = t
  BY <1>1, <1>2
<1>3. ASSUME NEW n \in 1 .. Len(t), NEW p \in Pairs, u = WithPairs(t, n, p)
      PROVE  IsTree(u) /\ Len(u) = Len(t)
  BY <1>3, PairsSet
<1>4. ASSUME NEW n \in 1 .. Len(t), NEW r \in Comments, u = WithRaw(t, n, r)
      PROVE  IsTree(u) /\ Len(u) = Len(t)
  BY <1>4, RawSet
<1>5. ASSUME NEW n \in 1 .. Len(t), NEW tag \in Words,
             u = Append(t, Node(tag, n, t[n].level + 1))
      PROVE  IsTree(u) /\ Len(u) = Len(t) + 1
  BY <1>5, NodeAdded
<1>6. ASSUME NEW gone, u = Without(t, gone)
      PROVE  IsTree(u) /\ Len(u) = Len(t)
  BY <1>6, NodesTaken
<1>7. IsTree(u) /\ (Len(u) = Len(t) \/ Len(u) = Len(t) + 1)
  BY <1>2, <1>3, <1>4, <1>5, <1>6, Zenon DEF EditLeaves
<1>8. QED
  BY <1>1, <1>7

(* The section of a call, and its pair with the key.                       *)
LEMMA SectionOf ==
  ASSUME CodecInv, NEW path \in Paths, NEW key \in Keys
  PROVE  LET n == GetSectionPointer(nodes, path)
             i == PairIn(nodes, n, key)
         IN  /\ n \in 0 .. Len(nodes)
             /\ path \in Words /\ key \in Words
             /\ n # NoNode =>
                  /\ n \in 1 .. Len(nodes) /\ nodes[n].pairs \in Seq(PairType)
                  /\ nodes[n].raw \in Seq(Words)
                  /\ i # 0 => i \in 1 .. Len(nodes[n].pairs)
<1> DEFINE n == GetSectionPointer(nodes, path)
<1>1. path \in Words /\ key \in Words
  BY CodecAssumption
<1>2. n \in 0 .. Len(nodes) /\ Len(nodes) \in Nat /\ IsTree(nodes)
  BY <1>1, PointerIs, TreeIs DEF CodecInv
<1> HIDE DEF n
<1>3. ASSUME n # NoNode
      PROVE  n \in 1 .. Len(nodes) /\ nodes[n].pairs \in Seq(PairType)
             /\ nodes[n].raw \in Seq(Words)
  <2>1. n \in 1 .. Len(nodes)
    BY <1>2, <1>3 DEF NoNode
  <2>2. QED
    BY <1>2, <2>1, TreeIs DEF Pairs, PairType, Comments
<1>4. ASSUME n # NoNode, PairIn(nodes, n, key) # 0
      PROVE  PairIn(nodes, n, key) \in 1 .. Len(nodes[n].pairs)
  BY <1>3, <1>4, PairIs, Zenon
<1>5. QED
  BY <1>1, <1>2, <1>3, <1>4 DEF n

(* InsertKV, OverwriteKV and EraseKV: a call that succeeds changes the     *)
(* pairs of its section, any other nothing.                                *)
LEMMA InsertIs ==
  ASSUME CodecInv, NEW path \in Paths, NEW key \in Keys, NEW value \in Values,
         InsertKV(path, key, value)
  PROVE  LET n == GetSectionPointer(nodes, path)
             p == Append(nodes[n].pairs, Pair(key, value))
         IN  \/ \E r \in {"SECTION_NOT_FOUND", "KVPAIR_DUPLICATED"} :
                  Call("InsertKV", path, key, value, r, nodes)
             \/ /\ n \in 1 .. Len(nodes) /\ p \in Pairs
                /\ PairIn(nodes, n, key) = 0
                /\ Call("InsertKV", path, key, value, "SUCCESS", WithPairs(nodes, n, p))
<1> DEFINE n == GetSectionPointer(nodes, path)
           p == Append(nodes[n].pairs, Pair(key, value))
<1>1. CASE n = NoNode
  BY <1>1 DEF InsertKV
<1>2. CASE n # NoNode /\ PairIn(nodes, n, key) # 0
  BY <1>2 DEF InsertKV
<1>3. CASE n # NoNode /\ PairIn(nodes, n, key) = 0
  <2>1. n \in 1 .. Len(nodes) /\ nodes[n].pairs \in Seq(PairType) /\ key \in Words
    BY <1>3, SectionOf
  <2>2. Pair(key, value) \in PairType
    BY <2>1, CodecAssumption, EmptyIsTyped DEF Pair, PairType
  <2>3. p \in Pairs
    BY <2>1, <2>2, AppendProperties DEF Pairs, PairType
  <2>4. Call("InsertKV", path, key, value, "SUCCESS", WithPairs(nodes, n, p))
    BY <1>3 DEF InsertKV, WithPairs
  <2>5. QED
    BY <1>3, <2>1, <2>3, <2>4
<1>4. QED
  BY <1>1, <1>2, <1>3

LEMMA OverwriteIs ==
  ASSUME CodecInv, NEW path \in Paths, NEW key \in Keys, NEW value \in Values,
         OverwriteKV(path, key, value)
  PROVE  LET n == GetSectionPointer(nodes, path)
             i == PairIn(nodes, n, key)
             p == [nodes[n].pairs EXCEPT ![i].value = value]
         IN  \/ \E r \in {"SECTION_NOT_FOUND", "KVPAIR_NOT_FOUND"} :
                  Call("OverwriteKV", path, key, value, r, nodes)
             \/ /\ n \in 1 .. Len(nodes) /\ p \in Pairs
                /\ i \in 1 .. Len(nodes[n].pairs)
                /\ Call("OverwriteKV", path, key, value, "SUCCESS", WithPairs(nodes, n, p))
<1> DEFINE n == GetSectionPointer(nodes, path)
           i == PairIn(nodes, n, key)
           pairs == nodes[n].pairs
           p == [pairs EXCEPT ![i].value = value]
<1>1. CASE n = NoNode
  BY <1>1 DEF OverwriteKV, PairCall
<1>2. CASE n # NoNode /\ i = 0
  BY <1>2 DEF OverwriteKV, PairCall
<1>3. CASE n # NoNode /\ i # 0
  <2>1. n \in 1 .. Len(nodes) /\ pairs \in Seq(PairType) /\ i \in 1 .. Len(pairs)
    BY <1>3, SectionOf
  <2>2. Call("OverwriteKV", path, key, value, "SUCCESS", WithPairs(nodes, n, p))
    BY <1>3 DEF OverwriteKV, PairCall, WithPairs
  <2> HIDE DEF i, pairs, n
  <2> DEFINE x == [pairs[i] EXCEPT !.value = value]
  <2>3. x \in PairType
    <3>1. pairs[i] \in PairType /\ value \in Words
      BY <2>1, CodecAssumption
    <3>2. QED
      BY <3>1 DEF PairType
  <2>4. p = [pairs EXCEPT ![i] = x]
    OBVIOUS
  <2>5. p \in Pairs
    <3> HIDE DEF x, p
    <3>1. QED
      BY <2>1, <2>3, <2>4, ExceptSeq DEF Pairs, PairType
  <2>6. QED
    BY <2>1, <2>2, <2>5 DEF i, pairs, n
<1>4. QED
  BY <1>1, <1>2, <1>3

LEMMA EraseIs ==
  ASSUME CodecInv, NEW path \in Paths, NEW key \in Keys, EraseKV(path, key)
  PROVE  LET n == GetSectionPointer(nodes, path)
             i == PairIn(nodes, n, key)
             p == RemoveAt(nodes[n].pairs, i)
         IN  \/ \E r \in {"SECTION_NOT_FOUND", "KVPAIR_NOT_FOUND"} :
                  Call("EraseKV", path, key, <<>>, r, nodes)
             \/ /\ n \in 1 .. Len(nodes) /\ p \in Pairs
                /\ i \in 1 .. Len(nodes[n].pairs)
                /\ Call("EraseKV", path, key, <<>>, "SUCCESS", WithPairs(nodes, n, p))
<1> DEFINE n == GetSectionPointer(nodes, path)
           i == PairIn(nodes, n, key)
           pairs == nodes[n].pairs
           p == RemoveAt(pairs, i)
<1>1. CASE n = NoNode
  BY <1>1 DEF EraseKV, PairCall
<1>2. CASE n # NoNode /\ i = 0
  BY <1>2 DEF EraseKV, PairCall
<1>3. CASE n # NoNode /\ i # 0
  <2>1. n \in 1 .. Len(nodes) /\ pairs \in Seq(PairType) /\ i \in 1 .. Len(pairs)
    BY <1>3, SectionOf
  <2>2. Call("EraseKV", path, key, <<>>, "SUCCESS", WithPairs(nodes, n, p))
    BY <1>3 DEF EraseKV, PairCall, WithPairs
  <2>3. p \in Pairs
    <3> HIDE DEF i, pairs, n
    <3>1. QED
      BY <2>1, RemoveAtTyped DEF Pairs, PairType
  <2>4. QED
    BY <2>1, <2>2, <2>3
<1>4. QED
  BY <1>1, <1>2, <1>3

(* Every editing call is a Call that leaves such a tree.                   *)
IsEdit ==
  \E name, path, key, value, result, tree :
    Call(name, path, key, value, result, tree) /\ EditLeaves(nodes, tree)

LEMMA EditIs ==
  ASSUME CodecInv, EditCall
  PROVE  IsEdit
<1>1. IsTree(nodes) /\ EditLeaves(nodes, nodes)
  BY DEF CodecInv, EditLeaves
<1>2. PICK path \in Paths :
        \/ ClearKVs(path) \/ ClearRawLines(path) \/ ClearSections(path)
        \/ \E k \in Keys :
             \/ EraseKV(path, k) \/ InsertRawLine(path, k)
             \/ EraseSection(path, k) \/ InsertSection(path, k)
             \/ \E v \in Values : InsertKV(path, k, v) \/ OverwriteKV(path, k, v)
  BY Zenon DEF EditCall
<1> DEFINE n == GetSectionPointer(nodes, path)
<1>3. /\ path \in Words
      /\ n # NoNode => n \in 1 .. Len(nodes) /\ nodes[n].raw \in Seq(Words)
  <2>1. path \in Words
    BY CodecAssumption
  <2>2. n \in 0 .. Len(nodes)
    BY <1>1, <2>1, PointerIs
  <2>3. n # NoNode => n \in 1 .. Len(nodes)
    BY <1>1, <2>2, TreeIs DEF NoNode
  <2> HIDE DEF n
  <2>4. QED
    BY <1>1, <2>1, <2>3, TreeIs DEF Comments
<1>4. \A u : (\E m \in 1 .. Len(nodes) : \E p \in Pairs :
                  CommentsFrom(p, nodes[m].pairs) /\ u = WithPairs(nodes, m, p))
               => EditLeaves(nodes, u)
  BY Zenon DEF EditLeaves
<1>5. \A u : (\E m \in 1 .. Len(nodes) : \E r \in Comments :
                  RawFrom(r, nodes[m].raw) /\ u = WithRaw(nodes, m, r))
               => EditLeaves(nodes, u)
  BY Zenon DEF EditLeaves
<1>6. ASSUME NEW name, NEW key, NEW value, NEW result, NEW tree,
             Call(name, path, key, value, result, tree), EditLeaves(nodes, tree)
      PROVE  IsEdit
  BY <1>6, Zenon DEF IsEdit
<1>8. CASE ClearKVs(path)
  <2>1. CASE n = NoNode
    BY <1>1, <1>6, <1>8, <2>1 DEF ClearKVs, SectionCall
  <2>2. CASE n # NoNode
    <3>1. Call("ClearKVs", path, <<>>, <<>>, "SUCCESS", WithPairs(nodes, n, <<>>))
      BY <1>8, <2>2 DEF ClearKVs, SectionCall, WithPairs
    <3> HIDE DEF n
    <3>2. CommentsFrom(<<>>, nodes[n].pairs)
      BY DEF CommentsFrom
    <3>4. EditLeaves(nodes, WithPairs(nodes, n, <<>>))
      BY <1>3, <1>4, <2>2, <3>2, EmptyIsTyped, Zenon
    <3>3. QED
      BY <1>6, <3>1, <3>4
  <2>3. QED
    BY <2>1, <2>2
<1>9. CASE ClearRawLines(path)
  <2>1. CASE n = NoNode
    BY <1>1, <1>6, <1>9, <2>1 DEF ClearRawLines, SectionCall
  <2>2. CASE n # NoNode
    <3>1. Call("ClearRawLines", path, <<>>, <<>>, "SUCCESS", WithRaw(nodes, n, <<>>))
      BY <1>9, <2>2 DEF ClearRawLines, SectionCall, WithRaw
    <3> HIDE DEF n
    <3>2. RawFrom(<<>>, nodes[n].raw)
      BY DEF RawFrom
    <3>4. EditLeaves(nodes, WithRaw(nodes, n, <<>>))
      BY <1>3, <1>5, <2>2, <3>2, EmptyIsTyped, Zenon
    <3>3. QED
      BY <1>6, <3>1, <3>4
  <2>3. QED
    BY <2>1, <2>2
<1>10. CASE ClearSections(path)
  <2>1. CASE n = NoNode
    BY <1>1, <1>6, <1>10, <2>1 DEF ClearSections, SectionCall
  <2>2. CASE n # NoNode
    <3> DEFINE gone == {i \in DOMAIN nodes : nodes[i].parent = n}
    <3>1. Call("ClearSections", path, <<>>, <<>>, "SUCCESS", Without(nodes, gone))
      BY <1>10, <2>2 DEF ClearSections, SectionCall
    <3>2. gone \in SUBSET (1 .. Len(nodes))
      BY <1>1, TreeIs
    <3> HIDE DEF gone
    <3>3. EditLeaves(nodes, Without(nodes, gone))
      BY <3>2, Zenon DEF EditLeaves
    <3>4. QED
      BY <1>6, <3>1, <3>3
  <2>3. QED
    BY <2>1, <2>2
<1>11. ASSUME NEW k \in Keys, EraseKV(path, k)
       PROVE  IsEdit
  <2> DEFINE i == PairIn(nodes, n, k)
             p == RemoveAt(nodes[n].pairs, i)
  <2>1. \/ \E r : Call("EraseKV", path, k, <<>>, r, nodes)
        \/ /\ n \in 1 .. Len(nodes) /\ p \in Pairs /\ i \in 1 .. Len(nodes[n].pairs)
           /\ Call("EraseKV", path, k, <<>>, "SUCCESS", WithPairs(nodes, n, p))
    BY <1>11, EraseIs
  <2>2. n \in 1 .. Len(nodes) => nodes[n].pairs \in Seq(PairType)
    BY <1>1, TreeIs DEF Pairs, PairType
  <2> HIDE DEF n, i
  <2>3. n \in 1 .. Len(nodes) /\ i \in 1 .. Len(nodes[n].pairs) => CommentsFrom(p, nodes[n].pairs)
    BY <2>2, PairErased
  <2> HIDE DEF p
  <2>4. QED
    BY <1>1, <1>4, <1>6, <2>1, <2>3, Zenon
<1>12. ASSUME NEW k \in Keys, NEW v \in Values, InsertKV(path, k, v)
       PROVE  IsEdit
  <2> DEFINE p == Append(nodes[n].pairs, Pair(k, v))
  <2>1. \/ \E r : Call("InsertKV", path, k, v, r, nodes)
        \/ /\ n \in 1 .. Len(nodes) /\ p \in Pairs
           /\ Call("InsertKV", path, k, v, "SUCCESS", WithPairs(nodes, n, p))
    BY <1>12, InsertIs
  <2>2. n \in 1 .. Len(nodes) => nodes[n].pairs \in Seq(PairType)
    BY <1>1, TreeIs DEF Pairs, PairType
  <2> HIDE DEF n
  <2>3. n \in 1 .. Len(nodes) => CommentsFrom(p, nodes[n].pairs)
    BY <2>2, PairAdded, CodecAssumption
  <2> HIDE DEF p
  <2>4. QED
    BY <1>1, <1>4, <1>6, <2>1, <2>3, Zenon
<1>13. ASSUME NEW k \in Keys, NEW v \in Values, OverwriteKV(path, k, v)
       PROVE  IsEdit
  <2> DEFINE i == PairIn(nodes, n, k)
             p == [nodes[n].pairs EXCEPT ![i].value = v]
  <2>1. \/ \E r : Call("OverwriteKV", path, k, v, r, nodes)
        \/ /\ n \in 1 .. Len(nodes) /\ p \in Pairs /\ i \in 1 .. Len(nodes[n].pairs)
           /\ Call("OverwriteKV", path, k, v, "SUCCESS", WithPairs(nodes, n, p))
    BY <1>13, OverwriteIs
  <2>2. n \in 1 .. Len(nodes) => nodes[n].pairs \in Seq(PairType)
    BY <1>1, TreeIs DEF Pairs, PairType
  <2> HIDE DEF n, i
  <2>3. n \in 1 .. Len(nodes) /\ i \in 1 .. Len(nodes[n].pairs) => CommentsFrom(p, nodes[n].pairs)
    BY <2>2, PairOverwritten
  <2> HIDE DEF p
  <2>4. QED
    BY <1>1, <1>4, <1>6, <2>1, <2>3, Zenon
<1>14. ASSUME NEW k \in Keys, InsertRawLine(path, k)
       PROVE  IsEdit
  <2>1. CASE n = NoNode
    BY <1>1, <1>6, <1>14, <2>1 DEF InsertRawLine, SectionCall
  <2>2. CASE n # NoNode
    <3> DEFINE line == k \o <<"=">>
               r == Append(nodes[n].raw, line)
    <3>1. Call("InsertRawLine", path, k, <<>>, "SUCCESS", WithRaw(nodes, n, r))
      BY <1>14, <2>2 DEF InsertRawLine, SectionCall, WithRaw
    <3>2. line \in Words
      BY CodecAssumption, MarksTyped, ConcatProperties DEF Words
    <3>6. RawFrom(r, nodes[n].raw)
      <4>1. nodes[n].raw \in Comments /\ k \in Words
        BY <1>3, <2>2, CodecAssumption DEF Comments
      <4> HIDE DEF n
      <4>2. QED
        BY <4>1, RawAdded
    <3> HIDE DEF n, line
    <3>3. r \in Comments
      BY <1>3, <2>2, <3>2, AppendProperties DEF Comments
    <3> HIDE DEF r
    <3>4. EditLeaves(nodes, WithRaw(nodes, n, r))
      BY <1>3, <1>5, <2>2, <3>3, <3>6, Zenon
    <3>5. QED
      BY <1>6, <3>1, <3>4
  <2>3. QED
    BY <2>1, <2>2
<1>15. ASSUME NEW k \in Keys, EraseSection(path, k)
       PROVE  IsEdit
  <2> DEFINE c == ChildOf(nodes, n, k)
  <2>1. CASE n = NoNode \/ c = NoNode
    BY <1>1, <1>6, <1>15, <2>1 DEF EraseSection
  <2>2. CASE n # NoNode /\ c # NoNode
    <3>1. Call("EraseSection", path, k, <<>>, "SUCCESS", Without(nodes, {c}))
      BY <1>15, <2>2 DEF EraseSection
    <3>2. {c} \in SUBSET (1 .. Len(nodes))
      BY <1>1, <2>2, ChildIs
    <3> HIDE DEF c
    <3>3. EditLeaves(nodes, Without(nodes, {c}))
      BY <3>2, Zenon DEF EditLeaves
    <3>4. QED
      BY <1>6, <3>1, <3>3
  <2>3. QED
    BY <2>1, <2>2
<1>16. ASSUME NEW k \in Keys, InsertSection(path, k)
       PROVE  IsEdit
  <2> DEFINE u == Append(nodes, Node(k, n, nodes[n].level + 1))
  <2>1. \/ \E r : Call("InsertSection", path, k, <<>>, r, nodes)
        \/ n # NoNode /\ Call("InsertSection", path, k, <<>>, "SUCCESS", u)
    BY <1>16 DEF InsertSection
  <2>2. CASE \E r : Call("InsertSection", path, k, <<>>, r, nodes)
    BY <1>1, <1>6, <2>2
  <2>3. CASE n # NoNode /\ Call("InsertSection", path, k, <<>>, "SUCCESS", u)
    <3>1. k \in Words
      BY CodecAssumption
    <3> HIDE DEF n
    <3>2. EditLeaves(nodes, u)
      BY <1>3, <2>3, <3>1, Zenon DEF EditLeaves
    <3> HIDE DEF u
    <3>3. QED
      BY <1>6, <2>3, <3>2
  <2>4. QED
    BY <2>1, <2>2, <2>3
<1>17. QED
  BY <1>2, <1>8, <1>9, <1>10, <1>11, <1>12, <1>13, <1>14, <1>15, <1>16

LEMMA EditStep ==
  ASSUME CodecInv, EditCall
  PROVE  CodecInv'
<1>1. PICK name, path, key, value, result, tree :
        Call(name, path, key, value, result, tree) /\ EditLeaves(nodes, tree)
  BY EditIs, Zenon DEF IsEdit
<1>2. IsTree(tree) /\ Len(tree) >= Len(nodes)
  BY <1>1, EditLeavesTree DEF CodecInv
<1>3. QED
  BY <1>1, <1>2, CallStep

-----------------------------------------------------------------------------
(* The calls of the codec.                                                 *)

LEMMA CodecInvStep ==
  ASSUME CodecInv, [CodecNext]_codecVars
  PROVE  CodecInv'
<1>1. CASE UNCHANGED codecVars
  BY <1>1 DEF codecVars, CodecInv
<1>2. QED
  BY <1>1, ParseStep, GenerateStep, EditStep DEF CodecNext

(* The lines, the tree and the pointers of the parser keep their types for *)
(* every text and every sequence of calls: no pointer of open or of        *)
(* CommentedNodeStack leads outside of the tree.                           *)
THEOREM CodecTypeCorrect == CodecSpec => []CodecTypeOK
<1>1. CodecInit => CodecInv
  BY CodecInvInit
<1>2. CodecInv /\ [CodecNext]_codecVars => CodecInv'
  BY CodecInvStep
<1>3. CodecInv => CodecTypeOK
  BY CodecInvHolds
<1>4. QED
  BY <1>1, <1>2, <1>3, PTL DEF CodecSpec

(* CommentedNodeStack points to the last pair of each open section, or to  *)
(* the section, after every line of every text: comments are put where     *)
(* they stand.                                                             *)
THEOREM StackAlwaysFollows == CodecSpec => []StackFollowsSections
<1>1. CodecInit => CodecInv
  BY CodecInvInit
<1>2. CodecInv /\ [CodecNext]_codecVars => CodecInv'
  BY CodecInvStep
<1>3. CodecInv => StackFollowsSections
  BY CodecInvHolds
<1>4. QED
  BY <1>1, <1>2, <1>3, PTL DEF CodecSpec

-----------------------------------------------------------------------------
(* What HasKV and GetKV find.                                              *)

(* i is the first of the pairs with the key. *)
IsFirst(p, key, i) ==
  /\ i \in 1 .. Len(p) /\ p[i].key = key
  /\ \A j \in 1 .. i - 1 : p[j].key # key

(* What PairIn returns. *)
Searched(p, key, i) ==
  \/ i = 0 /\ \A j \in 1 .. Len(p) : p[j].key # key
  \/ i # 0 /\ IsFirst(p, key, i)

LEMMA PairSearched ==
  ASSUME NEW S, NEW t, NEW n, t[n].pairs \in Seq(S), NEW key
  PROVE  Searched(t[n].pairs, key, PairIn(t, n, key))
<1> DEFINE p == t[n].pairs
           i == PairIn(t, n, key)
<1>1. \/ /\ i = 0
         /\ \A j \in 1 .. Len(p) : p[j].key # key
      \/ /\ i \in 1 .. Len(p) /\ p[i].key = key
         /\ \A j \in 1 .. i - 1 : p[j].key # key
  BY PairIs, SMTT(30)
<1> HIDE DEF p, i
<1>2. Searched(p, key, i)
  BY <1>1 DEF Searched, IsFirst
<1>3. QED
  BY <1>2 DEF p, i

LEMMA SearchedFirst ==
  ASSUME NEW S, NEW p \in Seq(S), NEW key, NEW i, NEW k, Searched(p, key, k), IsFirst(p, key, i)
  PROVE  k = i /\ k # 0
BY DEF Searched, IsFirst

(* The section of the path is n, and its first pair with the key is i.     *)
FirstAt(t, path, key, n, i) ==
  /\ n = GetSectionPointer(t, path) /\ t[n].pairs \in Seq(PairType)
  /\ IsFirst(t[n].pairs, key, i)

NoneAt(t, path, key, n) ==
  /\ n = GetSectionPointer(t, path) /\ t[n].pairs \in Seq(PairType)
  /\ \A j \in 1 .. Len(t[n].pairs) : t[n].pairs[j].key # key

LEMMA FoundFirst ==
  ASSUME NEW t, NEW path, NEW key, NEW n, NEW i, FirstAt(t, path, key, n, i)
  PROVE  Found(t, path, key) = <<t[n].pairs[i].value>>
<1>1. n = GetSectionPointer(t, path) /\ t[n].pairs \in Seq(PairType)
  BY Zenon DEF FirstAt
<1>2. PairIn(t, n, key) = i /\ PairIn(t, n, key) # 0
  <2>1. Searched(t[n].pairs, key, PairIn(t, n, key)) /\ IsFirst(t[n].pairs, key, i)
    BY <1>1, PairSearched DEF FirstAt
  <2>2. QED
    BY <1>1, <2>1, SearchedFirst
<1>3. QED
  BY <1>1, <1>2, Zenon DEF Found, HasKV, GetKV

LEMMA FoundNone ==
  ASSUME NEW t, NEW path, NEW key, NEW n, NoneAt(t, path, key, n)
  PROVE  Found(t, path, key) = <<>>
<1>1. n = GetSectionPointer(t, path) /\ t[n].pairs \in Seq(PairType)
  BY Zenon DEF NoneAt
<1>2. PairIn(t, n, key) = 0
  <2>1. Searched(t[n].pairs, key, PairIn(t, n, key))
    BY <1>1, PairSearched
  <2>2. QED
    BY <2>1 DEF NoneAt, Searched, IsFirst
<1>3. QED
  BY <1>1, <1>2, Zenon DEF Found, HasKV

LEMMA FirstOrNone ==
  ASSUME NEW S, NEW p \in Seq(S), NEW key
  PROVE  \/ \A j \in 1 .. Len(p) : p[j].key # key
         \/ \E i : IsFirst(p, key, i)
<1> DEFINE t == [x \in {1} |-> [pairs |-> p]]
<1>1. t[1].pairs = p
  OBVIOUS
<1> HIDE DEF t
<1>2. Searched(p, key, PairIn(t, 1, key))
  BY <1>1, PairSearched
<1>3. QED
  BY <1>2 DEF Searched

(* The pairs before and after a call that leaves another key alone.        *)
SameFor(p, q, key) ==
  \/ /\ \A j \in 1 .. Len(p) : p[j].key # key
     /\ \A j \in 1 .. Len(q) : q[j].key # key
  \/ \E i, k : IsFirst(p, key, i) /\ IsFirst(q, key, k) /\ q[k].value = p[i].value

SameAt(t, u, path, key, n) ==
  /\ n = GetSectionPointer(t, path) /\ n = GetSectionPointer(u, path)
  /\ t[n].pairs \in Seq(PairType) /\ u[n].pairs \in Seq(PairType)
  /\ SameFor(t[n].pairs, u[n].pairs, key)

LEMMA FoundSame ==
  ASSUME NEW t, NEW u, NEW path, NEW key, NEW n, SameAt(t, u, path, key, n)
  PROVE  Found(u, path, key) = Found(t, path, key)
<1>1. CASE /\ \A j \in 1 .. Len(t[n].pairs) : t[n].pairs[j].key # key
           /\ \A j \in 1 .. Len(u[n].pairs) : u[n].pairs[j].key # key
  <2>1. NoneAt(t, path, key, n) /\ NoneAt(u, path, key, n)
    BY <1>1, Zenon DEF NoneAt, SameAt
  <2>2. QED
    BY <2>1, FoundNone
<1>2. ASSUME NEW i, NEW k, IsFirst(t[n].pairs, key, i), IsFirst(u[n].pairs, key, k),
             u[n].pairs[k].value = t[n].pairs[i].value
      PROVE  Found(u, path, key) = Found(t, path, key)
  <2>1. FirstAt(t, path, key, n, i) /\ FirstAt(u, path, key, n, k)
    BY <1>2, Zenon DEF FirstAt, SameAt
  <2>2. QED
    BY <1>2, <2>1, FoundFirst
<1>3. QED
  BY <1>1, <1>2, Zenon DEF SameFor, SameAt

LEMMA AppendLeaves ==
  ASSUME NEW p \in Seq(PairType), NEW x \in PairType, NEW key, x.key # key
  PROVE  SameFor(p, Append(p, x), key)
<1> DEFINE q == Append(p, x)
<1>1. /\ Len(p) \in Nat /\ Len(q) = Len(p) + 1 /\ q[Len(p) + 1] = x
      /\ \A j \in 1 .. Len(p) : q[j] = p[j]
  BY AppendProperties
<1> HIDE DEF q
<1>2. CASE \A j \in 1 .. Len(p) : p[j].key # key
  <2>1. \A j \in 1 .. Len(q) : j = Len(p) + 1 \/ j \in 1 .. Len(p)
    BY <1>1
  <2>2. \A j \in 1 .. Len(q) : q[j].key # key
    BY <1>1, <1>2, <2>1
  <2>3. QED
    BY <1>2, <2>2 DEF SameFor, q
<1>3. ASSUME NEW i, IsFirst(p, key, i)
      PROVE  SameFor(p, q, key)
  <2>1. i \in 1 .. Len(p) /\ p[i].key = key /\ \A j \in 1 .. i - 1 : p[j].key # key
    BY <1>3 DEF IsFirst
  <2>2. IsFirst(q, key, i)
    BY <1>1, <2>1 DEF IsFirst
  <2>3. QED
    BY <1>1, <1>3, <2>1, <2>2 DEF SameFor
<1>4. QED
  BY <1>2, <1>3, FirstOrNone DEF q

LEMMA OverwriteLeaves ==
  ASSUME NEW p \in Seq(PairType), NEW i \in 1 .. Len(p), NEW value \in Words,
         NEW key, p[i].key # key
  PROVE  SameFor(p, [p EXCEPT ![i].value = value], key)
<1> DEFINE q == [p EXCEPT ![i].value = value]
<1>1. p[i] \in PairType /\ Len(p) \in Nat
  OBVIOUS
<1>2. /\ Len(q) = Len(p) /\ \A j \in 1 .. Len(p) : q[j].key = p[j].key
      /\ \A j \in 1 .. Len(p) : j # i => q[j] = p[j]
  BY <1>1 DEF PairType
<1> HIDE DEF q
<1>3. CASE \A j \in 1 .. Len(p) : p[j].key # key
  <2>1. \A j \in 1 .. Len(q) : q[j].key # key
    BY <1>2, <1>3
  <2>2. QED
    BY <1>3, <2>1 DEF SameFor, q
<1>4. ASSUME NEW k, IsFirst(p, key, k)
      PROVE  SameFor(p, q, key)
  <2>1. k \in 1 .. Len(p) /\ p[k].key = key /\ \A j \in 1 .. k - 1 : p[j].key # key
    BY <1>4 DEF IsFirst
  <2>2. q[k] = p[k]
    BY <1>2, <2>1
  <2>3. IsFirst(q, key, k)
    BY <1>1, <1>2, <2>1 DEF IsFirst
  <2>4. QED
    BY <1>4, <2>2, <2>3 DEF SameFor
<1>5. QED
  BY <1>3, <1>4, FirstOrNone DEF q

LEMMA EraseLeaves ==
  ASSUME NEW p \in Seq(PairType), NEW i \in 1 .. Len(p), NEW key, p[i].key # key
  PROVE  SameFor(p, RemoveAt(p, i), key)
<1> DEFINE a == SubSeq(p, 1, i - 1)
           b == SubSeq(p, i + 1, Len(p))
           q == RemoveAt(p, i)
           n == Len(p)
<1>1. n \in Nat /\ i \in 1 .. n
  OBVIOUS
<1>2. /\ a \in Seq(PairType) /\ Len(a) = i - 1 /\ \A j \in 1 .. i - 1 : a[j] = p[j]
      /\ b \in Seq(PairType) /\ Len(b) = n - i /\ \A j \in 1 .. n - i : b[j] = p[i + j]
  OBVIOUS
<1>3. q = a \o b
  BY DEF RemoveAt
<1> HIDE DEF a, b, q, n
<1>4. /\ Len(q) = n - 1
      /\ \A j \in 1 .. i - 1 : q[j] = p[j]
      /\ \A j \in i .. n - 1 : q[j] = p[j + 1]
  <2>1. Len(q) = Len(a) + Len(b)
        /\ \A j \in 1 .. Len(a) + Len(b) : q[j] = IF j <= Len(a) THEN a[j] ELSE b[j - Len(a)]
    BY <1>2, <1>3, ConcatProperties
  <2>2. ASSUME NEW j \in i .. n - 1
        PROVE  q[j] = p[j + 1]
    <3>1. j \in 1 .. Len(a) + Len(b) /\ ~(j <= Len(a)) /\ j - Len(a) \in 1 .. n - i
      BY <1>1, <1>2
    <3>2. q[j] = b[j - Len(a)]
      BY <2>1, <3>1
    <3>3. PICK k \in 1 .. n - i : k = j - Len(a)
      BY <3>1
    <3>4. b[k] = p[i + k] /\ i + k = j + 1
      BY <1>1, <1>2, <3>1, <3>3
    <3>5. QED
      BY <3>2, <3>3, <3>4
  <2>3. ASSUME NEW j \in 1 .. i - 1
        PROVE  q[j] = p[j]
    BY <1>1, <1>2, <2>1
  <2>4. QED
    BY <1>1, <1>2, <2>1, <2>2, <2>3
<1>5. CASE \A j \in 1 .. n : p[j].key # key
  <2>1. ASSUME NEW j \in 1 .. Len(q)
        PROVE  q[j].key # key
    <3>1. CASE j \in 1 .. i - 1
      BY <1>1, <1>4, <1>5, <3>1, SMTT(30)
    <3>2. CASE j \in i .. n - 1
      <4>1. j + 1 \in 1 .. n
        BY <1>1, <3>2
      <4>2. QED
        BY <1>4, <1>5, <3>2, <4>1
    <3>3. QED
      BY <1>1, <1>4, <3>1, <3>2
  <2>2. QED
    BY <1>5, <2>1 DEF SameFor, q, n
<1>6. ASSUME NEW k, IsFirst(p, key, k)
      PROVE  SameFor(p, q, key)
  <2>1. k \in 1 .. n /\ p[k].key = key /\ \A j \in 1 .. k - 1 : p[j].key # key
    BY <1>6 DEF IsFirst, n
  <2>2. k # i
    BY <2>1
  <2>3. CASE k < i
    <3>1. k \in 1 .. i - 1 /\ q[k] = p[k] /\ k \in 1 .. Len(q)
      BY <1>1, <1>4, <2>1, <2>3
    <3>2. \A j \in 1 .. k - 1 : q[j] = p[j]
      BY <1>1, <1>4, <2>1, <2>3
    <3>3. IsFirst(q, key, k)
      BY <2>1, <3>1, <3>2 DEF IsFirst
    <3>4. QED
      BY <1>6, <3>1, <3>3 DEF SameFor
  <2>4. CASE k > i
    <3>1. PICK l : l = k - 1
      OBVIOUS
    <3>2. l \in i .. n - 1 /\ l + 1 = k /\ l \in 1 .. Len(q)
      BY <1>1, <1>4, <2>1, <2>4, <3>1
    <3>3. q[l] = p[k]
      BY <1>4, <3>2
    <3>4. ASSUME NEW j \in 1 .. l - 1
          PROVE  q[j].key # key
      <4>1. CASE j \in 1 .. i - 1
        BY <1>1, <1>4, <2>1, <2>4, <4>1
      <4>2. CASE j \in i .. n - 1
        <5>1. j + 1 \in 1 .. k - 1
          BY <1>1, <3>2, <4>2
        <5>2. QED
          BY <1>4, <2>1, <4>2, <5>1
      <4>3. QED
        BY <1>1, <3>2, <4>1, <4>2
    <3>5. IsFirst(q, key, l)
      BY <2>1, <3>2, <3>3, <3>4 DEF IsFirst
    <3>6. QED
      BY <1>6, <3>3, <3>5 DEF SameFor
  <2>5. QED
    BY <1>1, <2>1, <2>2, <2>3, <2>4
<1>7. QED
  BY <1>5, <1>6, FirstOrNone DEF q, n

(* What a call with another name, or a failed one, leaves.                 *)
LocalEdit(t, u, call, key, result, value, path) ==
  \A where \in Paths, k \in Keys : HasSection(t, where) =>
    IF /\ GetSectionPointer(t, where) = GetSectionPointer(t, path)
       /\ k = key /\ result = "SUCCESS"
    THEN call # "EraseKV" => Found(u, where, k) = <<value>>
    ELSE Found(u, where, k) = Found(t, where, k)

(* A call that sets the pairs of its section and leaves what GetKV finds   *)
(* there for the other keys leaves the other sections too.                 *)
LEMMA PairsSetIsLocal ==
  ASSUME NEW t, IsTree(t), NEW path \in Paths, NEW p \in Pairs, NEW key, NEW value, NEW call,
         NEW n, n = GetSectionPointer(t, path), n \in 1 .. Len(t),
         \A k : k # key => SameFor(t[n].pairs, p, k),
         call # "EraseKV" => \E i : IsFirst(p, key, i) /\ p[i].value = value
  PROVE  LocalEdit(t, WithPairs(t, n, p), call, key, "SUCCESS", value, path)
<1>1. PICK u : u = WithPairs(t, n, p)
  OBVIOUS
<1>2. /\ IsTree(u) /\ Len(u) = Len(t) /\ u[n].pairs = p
      /\ u[n].tag = t[n].tag /\ u[n].parent = t[n].parent
      /\ \A i \in 1 .. Len(t) : i # n => u[i] = t[i]
  BY <1>1, PairsSet
<1>3. \A where : GetSectionPointer(u, where) = GetSectionPointer(t, where)
  <2>1. DOMAIN u = DOMAIN t
    BY <1>2, TreeIs
  <2>2. \A i \in DOMAIN t : u[i].parent = t[i].parent /\ u[i].tag = t[i].tag
    BY <1>2, TreeIs
  <2>3. QED
    BY <2>1, <2>2, SamePointers
<1>4. ASSUME NEW where \in Paths, NEW k \in Keys, HasSection(t, where)
      PROVE  IF GetSectionPointer(t, where) = n /\ k = key
             THEN call # "EraseKV" => Found(u, where, k) = <<value>>
             ELSE Found(u, where, k) = Found(t, where, k)
  <2>1. PICK m : m = GetSectionPointer(t, where)
    OBVIOUS
  <2>2. m \in 1 .. Len(t)
    <3>1. where \in Words
      BY CodecAssumption
    <3>2. m \in 0 .. Len(t) /\ m # NoNode
      BY <1>4, <2>1, <3>1, PointerIs DEF HasSection
    <3>3. QED
      BY <3>2, TreeIs DEF NoNode
  <2>3. m = GetSectionPointer(u, where)
    BY <1>3, <2>1
  <2>4. /\ t[m].pairs \in Seq(PairType) /\ u[m].pairs \in Seq(PairType)
    BY <1>2, <2>2, TreeIs DEF Pairs, PairType
  <2>5. CASE m = n /\ k = key
    <3>1. ASSUME NEW i, IsFirst(p, key, i), p[i].value = value
          PROVE  Found(u, where, k) = <<value>>
      <4>1. IsFirst(u[m].pairs, k, i) /\ u[m].pairs[i].value = value
        BY <1>2, <2>5, <3>1
      <4>2. FirstAt(u, where, k, m, i)
        BY <2>3, <2>4, <4>1, Zenon DEF FirstAt
      <4>3. QED
        BY <4>1, <4>2, FoundFirst
    <3>2. QED
      BY <2>1, <2>5, <3>1
  <2>6. CASE m = n /\ k # key
    <3>1. SameFor(t[m].pairs, u[m].pairs, k)
      BY <1>2, <2>6
    <3>2. SameAt(t, u, where, k, m)
      BY <2>1, <2>3, <2>4, <3>1, Zenon DEF SameAt
    <3>3. Found(u, where, k) = Found(t, where, k)
      BY <3>2, FoundSame
    <3>4. QED
      BY <2>6, <3>3
  <2>7. CASE m # n
    <3>1. PairIn(u, m, k) = PairIn(t, m, k) /\ u[m] = t[m]
      BY <1>2, <2>2, <2>7 DEF PairIn
    <3>2. Found(u, where, k) = Found(t, where, k)
      BY <2>1, <2>3, <3>1, Zenon DEF Found, HasKV, GetKV
    <3>3. QED
      BY <2>1, <2>7, <3>2
  <2>8. QED
    BY <2>5, <2>6, <2>7
<1>5. LocalEdit(t, u, call, key, "SUCCESS", value, path)
  BY <1>4 DEF LocalEdit
<1>6. QED
  BY <1>1, <1>5

(* The three calls.                                                        *)
LEMMA InsertIsLocal ==
  ASSUME CodecInv, NEW path \in Paths, NEW key \in Keys, NEW value \in Values, NEW n,
         n = GetSectionPointer(nodes, path), n \in 1 .. Len(nodes), NEW p,
         p = Append(nodes[n].pairs, Pair(key, value)), p \in Pairs,
         PairIn(nodes, n, key) = 0
  PROVE  LocalEdit(nodes, WithPairs(nodes, n, p), "InsertKV", key, "SUCCESS", value, path)
<1>1. PICK q : q = nodes[n].pairs
  OBVIOUS
<1>2. PICK x : x = Pair(key, value)
  OBVIOUS
<1>3. IsTree(nodes) /\ q \in Seq(PairType)
  BY <1>1, TreeIs DEF CodecInv, Pairs, PairType
<1>4. x \in PairType /\ x.key = key /\ x.value = value
  <2>1. key \in Words /\ value \in Words
    BY CodecAssumption
  <2>2. QED
    BY <1>2, <2>1, EmptyIsTyped DEF Pair, PairType
<1>5. \A k : k # key => SameFor(q, p, k)
  BY <1>1, <1>2, <1>3, <1>4, AppendLeaves
<1>6. IsFirst(p, key, Len(q) + 1) /\ p[Len(q) + 1].value = value
  <2>1. Searched(q, key, 0)
    BY <1>1, <1>3, PairSearched
  <2>2. \A j \in 1 .. Len(q) : q[j].key # key
    BY <2>1 DEF Searched
  <2>3. /\ Len(q) \in Nat /\ Len(p) = Len(q) + 1 /\ p[Len(q) + 1] = x
        /\ \A j \in 1 .. Len(q) : p[j] = q[j]
    BY <1>1, <1>2, <1>3, <1>4, AppendProperties
  <2>4. QED
    BY <1>4, <2>2, <2>3 DEF IsFirst
<1>7. QED
  BY <1>1, <1>3, <1>5, <1>6, PairsSetIsLocal

LEMMA OverwriteIsLocal ==
  ASSUME CodecInv, NEW path \in Paths, NEW key \in Keys, NEW value \in Values, NEW n,
         n = GetSectionPointer(nodes, path), n \in 1 .. Len(nodes), NEW i, NEW p,
         i = PairIn(nodes, n, key), i \in 1 .. Len(nodes[n].pairs),
         p = [nodes[n].pairs EXCEPT ![i].value = value], p \in Pairs
  PROVE  LocalEdit(nodes, WithPairs(nodes, n, p), "OverwriteKV", key, "SUCCESS", value, path)
<1>1. PICK q : q = nodes[n].pairs
  OBVIOUS
<1>2. IsTree(nodes) /\ q \in Seq(PairType) /\ value \in Words
  BY <1>1, CodecAssumption, TreeIs DEF CodecInv, Pairs, PairType
<1>3. IsFirst(q, key, i) /\ i \in 1 .. Len(q)
  <2>1. Searched(q, key, i)
    BY <1>1, <1>2, PairSearched
  <2>2. QED
    BY <1>1, <2>1 DEF Searched
<1>4. p = [q EXCEPT ![i].value = value] /\ q[i].key = key
  BY <1>1, <1>3 DEF IsFirst
<1>5. \A k : k # key => SameFor(q, p, k)
  BY <1>2, <1>3, <1>4, OverwriteLeaves
<1>6. IsFirst(p, key, i) /\ p[i].value = value
  <2>1. q[i] \in PairType /\ Len(q) \in Nat
    BY <1>2, <1>3
  <2>2. /\ Len(p) = Len(q) /\ p[i].value = value /\ p[i].key = key
        /\ \A j \in 1 .. Len(q) : j # i => p[j] = q[j]
    BY <1>2, <1>3, <1>4, <2>1 DEF PairType
  <2>3. QED
    BY <1>3, <2>1, <2>2 DEF IsFirst
<1>7. QED
  BY <1>1, <1>2, <1>5, <1>6, PairsSetIsLocal

LEMMA EraseIsLocal ==
  ASSUME CodecInv, NEW path \in Paths, NEW key \in Keys, NEW value, NEW n,
         n = GetSectionPointer(nodes, path), n \in 1 .. Len(nodes), NEW i, NEW p,
         i = PairIn(nodes, n, key), i \in 1 .. Len(nodes[n].pairs),
         p = RemoveAt(nodes[n].pairs, i), p \in Pairs
  PROVE  LocalEdit(nodes, WithPairs(nodes, n, p), "EraseKV", key, "SUCCESS", value, path)
<1>1. PICK q : q = nodes[n].pairs
  OBVIOUS
<1>2. IsTree(nodes) /\ q \in Seq(PairType)
  BY <1>1, TreeIs DEF CodecInv, Pairs, PairType
<1>3. q[i].key = key /\ i \in 1 .. Len(q)
  <2>1. Searched(q, key, i)
    BY <1>1, <1>2, PairSearched
  <2>2. QED
    BY <1>1, <2>1 DEF Searched, IsFirst
<1>4. \A k : k # key => SameFor(q, p, k)
  BY <1>1, <1>2, <1>3, EraseLeaves
<1>5. QED
  BY <1>1, <1>2, <1>4, PairsSetIsLocal

LEMMA FailedIsLocal ==
  ASSUME NEW call, NEW key, NEW value, NEW path, NEW result, result # "SUCCESS"
  PROVE  LocalEdit(nodes, nodes, call, key, result, value, path)
BY DEF LocalEdit

LEMMA CallIs ==
  ASSUME NEW name, NEW path, NEW key, NEW value, NEW result, NEW tree,
         Call(name, path, key, value, result, tree)
  PROVE  /\ last'.call = name /\ last'.path = path /\ last'.key = key
         /\ last'.value = value /\ last'.result = result /\ nodes' = tree
BY DEF Call

KeyCalls == {"InsertKV", "OverwriteKV", "EraseKV"}

LocalStep == LocalEdit(nodes, nodes', last'.call, last'.key, last'.result, last'.value, last'.path)

LEMMA CallIsLocal ==
  ASSUME NEW name, NEW path, NEW key, NEW value, NEW result, NEW tree,
         Call(name, path, key, value, result, tree),
         LocalEdit(nodes, tree, name, key, result, value, path)
  PROVE  LocalStep
BY CallIs, Zenon DEF LocalStep

LEMMA KeyCallIsLocal ==
  ASSUME CodecInv, NEW path \in Paths, NEW key \in Keys
  PROVE  /\ EraseKV(path, key) => LocalStep
         /\ \A value \in Values : InsertKV(path, key, value) \/ OverwriteKV(path, key, value)
                                    => LocalStep
<1>1. ASSUME NEW name, NEW value, NEW r, r # "SUCCESS", Call(name, path, key, value, r, nodes)
      PROVE  LocalStep
  BY <1>1, FailedIsLocal, CallIsLocal
<1>2. ASSUME EraseKV(path, key)
      PROVE  LocalStep
  <2> DEFINE n == GetSectionPointer(nodes, path)
             i == PairIn(nodes, n, key)
             p == RemoveAt(nodes[n].pairs, i)
  <2>1. \/ \E r \in {"SECTION_NOT_FOUND", "KVPAIR_NOT_FOUND"} :
             Call("EraseKV", path, key, <<>>, r, nodes)
        \/ /\ n \in 1 .. Len(nodes) /\ p \in Pairs
           /\ i \in 1 .. Len(nodes[n].pairs)
           /\ Call("EraseKV", path, key, <<>>, "SUCCESS", WithPairs(nodes, n, p))
    BY <1>2, EraseIs
  <2>2. CASE \E r \in {"SECTION_NOT_FOUND", "KVPAIR_NOT_FOUND"} :
               Call("EraseKV", path, key, <<>>, r, nodes)
    BY <1>1, <2>2
  <2>3. CASE /\ n \in 1 .. Len(nodes) /\ p \in Pairs
             /\ i \in 1 .. Len(nodes[n].pairs)
             /\ Call("EraseKV", path, key, <<>>, "SUCCESS", WithPairs(nodes, n, p))
    <3>1. LocalEdit(nodes, WithPairs(nodes, n, p), "EraseKV", key, "SUCCESS", <<>>, path)
      BY <2>3, EraseIsLocal
    <3> HIDE DEF n, p
    <3>2. QED
      BY <2>3, <3>1, CallIsLocal
  <2>4. QED
    BY <2>1, <2>2, <2>3
<1>3. ASSUME NEW value \in Values, InsertKV(path, key, value)
      PROVE  LocalStep
  <2> DEFINE n == GetSectionPointer(nodes, path)
             p == Append(nodes[n].pairs, Pair(key, value))
  <2>1. \/ \E r \in {"SECTION_NOT_FOUND", "KVPAIR_DUPLICATED"} :
             Call("InsertKV", path, key, value, r, nodes)
        \/ /\ n \in 1 .. Len(nodes) /\ p \in Pairs
           /\ PairIn(nodes, n, key) = 0
           /\ Call("InsertKV", path, key, value, "SUCCESS", WithPairs(nodes, n, p))
    BY <1>3, InsertIs
  <2>2. CASE \E r \in {"SECTION_NOT_FOUND", "KVPAIR_DUPLICATED"} :
               Call("InsertKV", path, key, value, r, nodes)
    BY <1>1, <2>2
  <2>3. CASE /\ n \in 1 .. Len(nodes) /\ p \in Pairs
             /\ PairIn(nodes, n, key) = 0
             /\ Call("InsertKV", path, key, value, "SUCCESS", WithPairs(nodes, n, p))
    <3>1. LocalEdit(nodes, WithPairs(nodes, n, p), "InsertKV", key, "SUCCESS", value, path)
      BY <2>3, InsertIsLocal
    <3> HIDE DEF n, p
    <3>2. QED
      BY <2>3, <3>1, CallIsLocal
  <2>4. QED
    BY <2>1, <2>2, <2>3
<1>4. ASSUME NEW value \in Values, OverwriteKV(path, key, value)
      PROVE  LocalStep
  <2> DEFINE n == GetSectionPointer(nodes, path)
             i == PairIn(nodes, n, key)
             p == [nodes[n].pairs EXCEPT ![i].value = value]
  <2>1. \/ \E r \in {"SECTION_NOT_FOUND", "KVPAIR_NOT_FOUND"} :
             Call("OverwriteKV", path, key, value, r, nodes)
        \/ /\ n \in 1 .. Len(nodes) /\ p \in Pairs
           /\ i \in 1 .. Len(nodes[n].pairs)
           /\ Call("OverwriteKV", path, key, value, "SUCCESS", WithPairs(nodes, n, p))
    BY <1>4, OverwriteIs
  <2>2. CASE \E r \in {"SECTION_NOT_FOUND", "KVPAIR_NOT_FOUND"} :
               Call("OverwriteKV", path, key, value, r, nodes)
    BY <1>1, <2>2
  <2>3. CASE /\ n \in 1 .. Len(nodes) /\ p \in Pairs
             /\ i \in 1 .. Len(nodes[n].pairs)
             /\ Call("OverwriteKV", path, key, value, "SUCCESS", WithPairs(nodes, n, p))
    <3>1. LocalEdit(nodes, WithPairs(nodes, n, p), "OverwriteKV", key, "SUCCESS", value, path)
      BY <2>3, OverwriteIsLocal
    <3> HIDE DEF n, p
    <3>2. QED
      BY <2>3, <3>1, CallIsLocal
  <2>4. QED
    BY <2>1, <2>2, <2>3
<1>5. QED
  BY <1>2, <1>3, <1>4

(* The other calls have other names.                                       *)
LEMMA OtherCalls ==
  ASSUME NEW path, NEW key,
         \/ ClearKVs(path) \/ ClearRawLines(path) \/ ClearSections(path)
         \/ InsertRawLine(path, key) \/ EraseSection(path, key) \/ InsertSection(path, key)
  PROVE  last'.call \notin KeyCalls
BY DEF ClearKVs, ClearRawLines, ClearSections, InsertRawLine, EraseSection, InsertSection,
       SectionCall, Call, KeyCalls

(* A step that counts an edit is one of the editing calls.                 *)
LEMMA EditIsCall ==
  ASSUME CodecInv, [CodecNext]_codecVars, edits' = edits + 1
  PROVE  EditCall
<1>1. edits' # edits
  <2>1. edits \in Int
    BY CodecAssumption DEF CodecInv
  <2>2. QED
    BY <2>1
<1>2. ~UNCHANGED codecVars /\ ~GenerateAndParse
  BY <1>1 DEF codecVars, GenerateAndParse
<1>3. ~ParseImpl
  BY <1>1 DEF ParseImpl, ReadBlank, ReadComment, ReadPair, ReadBegin, ReadEnd, ReadError,
              ReadNothing
<1>4. QED
  BY <1>2, <1>3 DEF CodecNext

LEMMA CallsAreLocal ==
  ASSUME CodecInv, [CodecNext]_codecVars, Edits(KeyCalls)
  PROVE  LocalStep
<1>1. edits' = edits + 1 /\ last'.call \in KeyCalls
  BY DEF Edits
<1>2. EditCall
  BY <1>1, EditIsCall
<1>3. PICK path \in Paths :
        \/ ClearKVs(path) \/ ClearRawLines(path) \/ ClearSections(path)
        \/ \E k \in Keys :
             \/ EraseKV(path, k) \/ InsertRawLine(path, k)
             \/ EraseSection(path, k) \/ InsertSection(path, k)
             \/ \E v \in Values : InsertKV(path, k, v) \/ OverwriteKV(path, k, v)
  BY <1>2, Zenon DEF EditCall
<1>4. CASE ClearKVs(path) \/ ClearRawLines(path) \/ ClearSections(path)
  <2>1. last'.call \notin KeyCalls
    BY <1>4, OtherCalls
  <2>2. QED
    BY <1>1, <2>1
<1>5. ASSUME NEW k \in Keys,
             InsertRawLine(path, k) \/ EraseSection(path, k) \/ InsertSection(path, k)
      PROVE  LocalStep
  <2>1. last'.call \notin KeyCalls
    BY <1>5, OtherCalls
  <2>2. QED
    BY <1>1, <2>1
<1>6. ASSUME NEW k \in Keys,
             \/ EraseKV(path, k)
             \/ \E v \in Values : InsertKV(path, k, v) \/ OverwriteKV(path, k, v)
      PROVE  LocalStep
  BY <1>6, KeyCallIsLocal
<1>7. QED
  BY <1>3, <1>4, <1>5, <1>6

(* InsertKV, OverwriteKV and EraseKV touch one key of one section: what    *)
(* GetKV finds for every other key and in every other section is not       *)
(* changed, and a call that fails changes nothing.                         *)
THEOREM KeyEditsStayLocal == CodecSpec => KeyEditsAreLocal
<1>1. CodecInit => CodecInv
  BY CodecInvInit
<1>2. CodecInv /\ [CodecNext]_codecVars => CodecInv'
  BY CodecInvStep
<1> DEFINE Local ==
      Edits({"InsertKV", "OverwriteKV", "EraseKV"}) =>
        \A path \in Paths, key \in Keys : HasSection(nodes, path) =>
          IF /\ GetSectionPointer(nodes, path) = GetSectionPointer(nodes, last'.path)
             /\ key = last'.key /\ last'.result = "SUCCESS"
          THEN last'.call # "EraseKV" => Found(nodes', path, key) = <<last'.value>>
          ELSE Found(nodes', path, key) = Found(nodes, path, key)
<1>3. CodecInv /\ [CodecNext]_codecVars => [Local]_codecVars
  <2>1. ASSUME CodecInv, [CodecNext]_codecVars, Edits(KeyCalls)
        PROVE  Local
    BY <2>1, CallsAreLocal, Zenon DEF LocalStep, LocalEdit
  <2>2. QED
    BY <2>1 DEF KeyCalls
<1>4. QED
  BY <1>1, <1>2, <1>3, PTL DEF CodecSpec, KeyEditsAreLocal

-----------------------------------------------------------------------------
(* The section that InsertSection adds.                                   *)

(* What is split is a path that ends in no backslash, and then a tag       *)
(* without one: the tag is one more part, unless it is empty.              *)
LEMMA SplitBelow ==
  ASSUME NEW path \in Words, NEW tag \in Words, Addresses(path, tag)
  PROVE  /\ path \o <<"\\">> \o tag \in Words
         /\ SplitString(path \o <<"\\">> \o tag)
              = IF tag = <<>> THEN SplitString(path) ELSE Append(SplitString(path), tag)
<1> DEFINE n == Len(path)
           m == Len(tag)
           s == path \o <<"\\">> \o tag
<1>1. /\ n \in Nat \ {0} /\ m \in Nat /\ path[n] # "\\"
      /\ \A j \in 1 .. m : tag[j] # "\\"
      /\ \A i \in 1 .. n : path[i] \in Symbols
      /\ \A j \in 1 .. m : tag[j] \in Symbols
  BY DEF Words, Addresses, Last, Contains
<1>2. /\ s \in Words /\ Len(s) = n + 1 + m
      /\ \A i \in 1 .. n : s[i] = path[i]
      /\ s[n + 1] = "\\"
      /\ \A j \in 1 .. m : s[n + 1 + j] = tag[j]
  <2>1. <<"\\">> \in Seq(Symbols)
    BY CodecAssumption
  <2>2. path \in Seq(Symbols) /\ tag \in Seq(Symbols)
    BY DEF Words
  <2> DEFINE q == path \o <<"\\">>
  <2>3. q \in Seq(Symbols) /\ Len(q) = n + 1 /\ q[n + 1] = "\\"
        /\ \A i \in 1 .. n : q[i] = path[i]
    BY <1>1, <2>1, <2>2, ConcatProperties
  <2> HIDE DEF q, n, m
  <2>4. q \o tag \in Seq(Symbols) /\ Len(q \o tag) = n + 1 + m
        /\ (\A i \in 1 .. n + 1 : (q \o tag)[i] = q[i])
        /\ \A j \in 1 .. m : (q \o tag)[n + 1 + j] = tag[j]
    <3>1. /\ q \o tag \in Seq(Symbols) /\ Len(q \o tag) = n + 1 + m
          /\ \A i \in 1 .. n + 1 + m : (q \o tag)[i] = IF i <= n + 1 THEN q[i] ELSE tag[i - (n + 1)]
      <4>1. /\ q \o tag \in Seq(Symbols) /\ Len(q \o tag) = Len(q) + Len(tag)
            /\ \A i \in 1 .. Len(q) + Len(tag) :
                 (q \o tag)[i] = IF i <= Len(q) THEN q[i] ELSE tag[i - Len(q)]
        BY <2>2, <2>3, ConcatProperties
      <4>2. Len(q) = n + 1 /\ Len(tag) = m
        BY <2>3 DEF m
      <4>3. QED
        BY <4>1, <4>2, Zenon
    <3> HIDE DEF q
    <3>2. ASSUME NEW j \in 1 .. m
          PROVE  (q \o tag)[n + 1 + j] = tag[j]
      <4>1. PICK i : i = n + 1 + j
        OBVIOUS
      <4>2. i \in 1 .. n + 1 + m /\ ~(i <= n + 1) /\ i - (n + 1) = j
        BY <1>1, <4>1
      <4>3. (q \o tag)[i] = tag[i - (n + 1)]
        BY <3>1, <4>2
      <4>4. QED
        BY <4>1, <4>2, <4>3
    <3>3. ASSUME NEW i \in 1 .. n + 1
          PROVE  (q \o tag)[i] = q[i]
      BY <1>1, <3>1
    <3>4. QED
      BY <3>1, <3>2, <3>3
  <2>5. n + 1 \in 1 .. n + 1 /\ \A i \in 1 .. n : i \in 1 .. n + 1
    BY <1>1
  <2>6. QED
    BY <2>3, <2>4, <2>5 DEF q, Words
<1>3. PICK h : /\ Splits(h, path)
               /\ SplitString(path) = IF Last(h[n]) = <<>> THEN Front(h[n]) ELSE h[n]
  BY SplitIs
<1>4. PICK g : /\ Splits(g, s)
               /\ SplitString(s) = IF Last(g[Len(s)]) = <<>> THEN Front(g[Len(s)])
                                   ELSE g[Len(s)]
  BY <1>2, SplitIs
<1> HIDE DEF n, m, s
<1>5. /\ h[0] = <<(<<>>)>> /\ (\A i \in 1 .. n : h[i] = SplitAt(h[i - 1], path[i]))
      /\ \A i \in 0 .. n : h[i] \in Seq(Words) \ {<<>>}
  BY <1>3 DEF Splits, n
<1>6. /\ g[0] = <<(<<>>)>> /\ \A i \in 1 .. n + 1 + m : g[i] = SplitAt(g[i - 1], s[i])
  BY <1>2, <1>4 DEF Splits
<1>7. g[n] = h[n]
  <2> DEFINE T == {i \in 0 .. n : g[i] = h[i]}
  <2>1. 0 \in T
    <3>1. 0 \in 0 .. n
      BY <1>1
    <3>2. QED
      BY <1>5, <1>6, <3>1, Zenon
  <2>2. ASSUME NEW i \in 1 .. n, i - 1 \in T
        PROVE  i \in T
    <3>1. i \in 1 .. n + 1 + m /\ i \in 0 .. n
      BY <1>1
    <3>2. g[i] = SplitAt(g[i - 1], s[i]) /\ h[i] = SplitAt(h[i - 1], path[i])
      BY <1>5, <1>6, <3>1
    <3>3. QED
      BY <1>2, <2>2, <3>1, <3>2
  <2> HIDE DEF T
  <2>3. \A i \in 0 .. n : i \in T
    BY ONLY <1>1, <2>1, <2>2, Climb
  <2>4. n \in 0 .. n
    BY <1>1
  <2>5. QED
    BY <2>3, <2>4 DEF T
<1> DEFINE P == h[n]
<1>8. P \in Seq(Words) /\ Last(P) # <<>> /\ SplitString(path) = P
  <2>1. n \in 1 .. n /\ n \in 0 .. n /\ n - 1 \in 0 .. n
    BY <1>1
  <2>2. PICK q : q = h[n - 1]
    OBVIOUS
  <2>3. q \in Seq(Words) \ {<<>>} /\ P = Append(Front(q), Append(Last(q), path[n]))
    BY <1>1, <1>5, <2>1, <2>2 DEF SplitAt
  <2>4. Front(q) \in Seq(Words) /\ Last(q) \in Seq(Symbols)
    BY <2>3, FrontLast DEF Words
  <2>5. PICK w : w = Append(Last(q), path[n])
    OBVIOUS
  <2>6. w \in Words /\ w # <<>>
    BY <1>1, <2>1, <2>4, <2>5, AppendProperties DEF Words
  <2>7. P \in Seq(Words) /\ Last(P) = w
    <3>1. P = Append(Front(q), w)
      BY <2>3, <2>5
    <3> HIDE DEF P
    <3>2. QED
      BY <2>4, <2>6, <3>1, OneMore
  <2>8. QED
    BY <1>3, <2>6, <2>7
<1> HIDE DEF P
<1>9. g[n + 1] = Append(P, <<>>)
  <2>1. PICK k : k = n + 1
    OBVIOUS
  <2>2. k \in 1 .. n + 1 + m /\ k - 1 = n /\ s[k] = "\\"
    BY <1>1, <1>2, <2>1
  <2>3. g[k] = SplitAt(g[k - 1], s[k])
    BY <1>6, <2>2
  <2>4. QED
    BY <1>7, <2>1, <2>2, <2>3 DEF SplitAt, P
<1>10. g[n + 1 + m] = Append(P, tag)
  <2> DEFINE Part(j) == SubSeq(tag, 1, j)
             T == {j \in 0 .. m : g[n + 1 + j] = Append(P, Part(j))}
  <2>1. 0 \in T
    <3>1. Part(0) = <<>> /\ n + 1 + 0 = n + 1 /\ 0 \in 0 .. m
      BY <1>1, SubSeqEmpty
    <3> HIDE DEF Part
    <3>2. QED
      BY <1>9, <3>1
  <2>2. ASSUME NEW j \in 1 .. m, j - 1 \in T
        PROVE  j \in T
    <3>1. j - 1 \in 0 .. m /\ g[n + 1 + (j - 1)] = Append(P, Part(j - 1))
      BY <2>2
    <3>2. Part(j - 1) \in Words
      BY <1>1, SubSeqProperties DEF Words
    <3>3. Part(j) = Append(Part(j - 1), tag[j])
      <4>1. \A i \in 1 .. j : tag[i] \in Symbols
        BY <1>1
      <4>2. Part(j) \in Seq(Symbols) /\ Len(Part(j)) = j /\ \A i \in 1 .. j : Part(j)[i] = tag[i]
        BY <1>1, <4>1, SubSeqProperties
      <4>3. Part(j - 1) \in Seq(Symbols) /\ Len(Part(j - 1)) = j - 1
            /\ \A i \in 1 .. j - 1 : Part(j - 1)[i] = tag[i]
        BY <1>1, <4>1, SubSeqProperties
      <4> HIDE DEF Part
      <4>4. PICK t : t = Append(Part(j - 1), tag[j])
        OBVIOUS
      <4>5. t \in Seq(Symbols) /\ Len(t) = j /\ t[j] = tag[j] /\ \A i \in 1 .. j - 1 : t[i] = tag[i]
        BY <1>1, <4>3, <4>4, AppendProperties
      <4>6. \A i \in 1 .. j : Part(j)[i] = t[i]
        BY <4>2, <4>5
      <4>7. QED
        BY <4>2, <4>4, <4>5, <4>6, SeqEqual
    <3> HIDE DEF Part
    <3>4. PICK k : k = n + 1 + j
      OBVIOUS
    <3>5. k \in 1 .. n + 1 + m /\ k - 1 = n + 1 + (j - 1) /\ s[k] = tag[j] /\ tag[j] # "\\"
      BY <1>1, <1>2, <3>4
    <3>6. g[k] = SplitAt(Append(P, Part(j - 1)), tag[j])
      BY <1>6, <3>1, <3>5
    <3>7. g[k] = Append(P, Append(Part(j - 1), tag[j]))
      BY <1>8, <3>2, <3>5, <3>6, OneMore DEF SplitAt
    <3>8. j \in 0 .. m
      BY <1>1
    <3>9. QED
      BY <3>3, <3>4, <3>7, <3>8
  <2> HIDE DEF T
  <2>3. \A j \in 0 .. m : j \in T
    BY ONLY <1>1, <2>1, <2>2, Climb
  <2>4. m \in T
    BY <1>1, <2>3
  <2>5. Part(m) = tag
    BY SubSeqFull DEF Words, m
  <2> HIDE DEF Part
  <2>6. QED
    BY <2>4, <2>5 DEF T
<1>11. Front(Append(P, tag)) = P /\ Last(Append(P, tag)) = tag
  BY <1>8, OneMore
<1>12. SplitString(s) = IF tag = <<>> THEN P ELSE Append(P, tag)
  BY <1>2, <1>4, <1>10, <1>11
<1>13. QED
  BY <1>2, <1>8, <1>12 DEF s

(* Who arrives was at a section all the way.                               *)
LEMMA WalkArrives ==
  ASSUME NEW t, NEW tags, Len(tags) \in Nat, NEW at, Walks(at, t, tags), at[Len(tags)] # NoNode
  PROVE  \A i \in 0 .. Len(tags) : at[i] # NoNode
<1> DEFINE n == Len(tags)
           T == {i \in 0 .. n : at[n - i] # NoNode}
<1>1. 0 \in T
  <2>1. n - 0 = n /\ 0 \in 0 .. n
    OBVIOUS
  <2> HIDE DEF n
  <2>2. QED
    BY <2>1 DEF n
<1>2. ASSUME NEW i \in 1 .. n, i - 1 \in T
      PROVE  i \in T
  <2>1. PICK k : k = n - (i - 1)
    OBVIOUS
  <2>2. k \in 1 .. n /\ k - 1 = n - i /\ i \in 0 .. n /\ at[k] # NoNode
    BY <1>2, <2>1
  <2>3. at[k] = ChildOf(t, at[k - 1], tags[k])
    BY <2>2 DEF Walks
  <2>4. at[k - 1] # NoNode
    BY <2>2, <2>3, Zenon DEF ChildOf
  <2>5. QED
    BY <2>2, <2>4
<1> HIDE DEF T
<1>3. \A i \in 0 .. n : i \in T
  BY ONLY Len(tags) \in Nat, <1>1, <1>2, Climb
<1>4. ASSUME NEW i \in 0 .. n
      PROVE  at[i] # NoNode
  <2>1. PICK k : k = n - i
    OBVIOUS
  <2>2. k \in 0 .. n /\ n - k = i
    BY <2>1
  <2>3. k \in T
    BY <1>3, <2>2
  <2>4. QED
    BY <2>2, <2>3 DEF T
<1>5. QED
  BY <1>4

(* A node that is added is the child of its parent with its tag, and hides *)
(* no other child.                                                         *)
WithSection(t, n, tag) == Append(t, Node(tag, n, t[n].level + 1))

LEMMA AddedIsChild ==
  ASSUME NEW t, IsTree(t), NEW n \in 1 .. Len(t), NEW tag \in Words, ChildOf(t, n, tag) = NoNode
  PROVE  /\ IsTree(WithSection(t, n, tag))
         /\ ChildOf(WithSection(t, n, tag), n, tag) = Len(t) + 1
         /\ \A m, x : m # n \/ x # tag =>
              ChildOf(WithSection(t, n, tag), m, x) = ChildOf(t, m, x)
<1>0. PICK u : u = WithSection(t, n, tag)
  OBVIOUS
<1> DEFINE new == Len(t) + 1
<1>1. /\ Len(t) \in Nat /\ DOMAIN t = 1 .. Len(t) /\ n # NoNode
      /\ IsTree(u) /\ Len(u) = new /\ u[new].parent = n /\ u[new].tag = tag
      /\ \A i \in 1 .. Len(t) : u[i] = t[i]
  BY <1>0, TreeIs, NodeAdded DEF Node, NoNode, WithSection
<1>2. DOMAIN u = DOMAIN t \cup {new} /\ new \notin DOMAIN t
  <2>1. DOMAIN u = 1 .. new
    BY <1>1, TreeIs
  <2>2. QED
    BY <1>1, <2>1
<1> DEFINE In(v, m, x) == {i \in DOMAIN v : v[i].parent = m /\ v[i].tag = x}
<1>3. In(t, n, tag) = {}
  <2> SUFFICES ASSUME In(t, n, tag) # {}  PROVE FALSE
    OBVIOUS
  <2>1. In(t, n, tag) \in SUBSET Nat
    BY <1>1
  <2>2. Min(In(t, n, tag)) \in In(t, n, tag)
    <3> DEFINE S == In(t, n, tag)
    <3>1. S \in SUBSET Nat /\ S # {}
      BY <2>1
    <3> HIDE DEF S
    <3>2. Min(S) \in S
      BY <3>1, MinIsLeast
    <3>3. QED
      BY <3>2 DEF S
  <2>3. ChildOf(t, n, tag) = Min(In(t, n, tag))
    BY <1>1, Zenon DEF ChildOf
  <2>4. QED
    BY <1>1, <2>2, <2>3 DEF NoNode
<1>4. In(u, n, tag) = {new}
  BY <1>1, <1>2, <1>3
<1>5. ChildOf(u, n, tag) = new
  <2> DEFINE S == In(u, n, tag)
  <2>1. S \in SUBSET Nat /\ S # {} /\ S = {new}
    BY <1>1, <1>4
  <2>2. ChildOf(u, n, tag) = Min(S)
    BY <1>1, <2>1, Zenon DEF ChildOf
  <2> HIDE DEF S
  <2>3. Min(S) \in S
    BY <2>1, MinIsLeast
  <2>4. QED
    BY <2>1, <2>2, <2>3
<1>6. ASSUME NEW m, NEW x, m # n \/ x # tag
      PROVE  ChildOf(u, m, x) = ChildOf(t, m, x)
  <2>1. In(u, m, x) = In(t, m, x)
    BY <1>1, <1>2, <1>6
  <2>2. QED
    BY <2>1, Zenon DEF ChildOf
<1>7. QED
  BY <1>0, <1>1, <1>5, <1>6

(* What InsertSection adds, after the search has missed it, the search     *)
(* finds.                                                                  *)
LEMMA AddedIsFound ==
  ASSUME NEW t, IsTree(t), NEW path \in Words, NEW tag \in Words, Addresses(path, tag),
         GetSectionPointer(t, path) # NoNode, ~HasSection(t, path \o <<"\\">> \o tag)
  PROVE  /\ GetSectionPointer(t, path) \in 1 .. Len(t)
         /\ GetSectionPointer(WithSection(t, GetSectionPointer(t, path), tag),
                              path \o <<"\\">> \o tag) = Len(t) + 1
<1>1. PICK full : full = path \o <<"\\">> \o tag
  OBVIOUS
<1>2. PICK n : n = GetSectionPointer(t, path)
  OBVIOUS
<1>3. n # NoNode /\ ~HasSection(t, full)
  BY <1>1, <1>2
<1>4. n \in 1 .. Len(t)
  <2>1. Len(t) \in Nat
    BY TreeIs
  <2>2. QED
    BY <1>2, <1>3, <2>1, PointerIs DEF NoNode
<1>5. full \in Words
      /\ SplitString(full) = IF tag = <<>> THEN SplitString(path)
                             ELSE Append(SplitString(path), tag)
  BY <1>1, SplitBelow
<1>6. tag # <<>>
  <2>1. tag = <<>> => GetSectionPointer(t, full) = GetSectionPointer(t, path)
    BY <1>5, Zenon DEF GetSectionPointer
  <2>2. QED
    BY <1>2, <1>3, <2>1 DEF HasSection
<1>7. PICK tags : tags = SplitString(path)
  OBVIOUS
<1>8. PICK k : k = Len(tags)
  OBVIOUS
<1>9. PICK all : all = SplitString(full)
  OBVIOUS
<1>10. /\ tags \in Seq(Words) /\ k \in Nat /\ Len(all) = k + 1 /\ all[k + 1] = tag
      /\ \A i \in 1 .. k : all[i] = tags[i]
  BY <1>5, <1>6, <1>7, <1>8, <1>9, SplitTyped, AppendProperties
<1>11. ASSUME NEW v, IsTree(v)
      PROVE  \E b : Walks(b, v, all) /\ GetSectionPointer(v, full) = b[k + 1]
  <2>1. full \in Words /\ all = SplitString(full) /\ Len(all) = k + 1
    BY <1>5, <1>9, <1>10
  <2>2. PICK b : /\ Walks(b, v, SplitString(full))
                 /\ GetSectionPointer(v, full) = b[Len(SplitString(full))]
    BY <1>11, <2>1, WalkIs
  <2>3. QED
    BY <2>1, <2>2, Zenon
<1>12. PICK at : Walks(at, t, tags) /\ n = at[k]
  BY <1>7, <1>8, <1>2, WalkIs
<1>13. \A i \in 0 .. k : at[i] # NoNode
  BY <1>8, <1>10, <1>12, <1>3, WalkArrives
(* Two walks along the same tags in trees with the same children there. *)
<1>14. ASSUME NEW v, NEW b, Walks(b, v, all),
              \A i \in 1 .. k : ChildOf(v, at[i - 1], tags[i]) = ChildOf(t, at[i - 1], tags[i])
       PROVE  b[k] = n /\ b[k + 1] = ChildOf(v, n, tag)
  <2> DEFINE T == {i \in 0 .. k : b[i] = at[i]}
  <2>1. 0 \in T
    <3>1. 0 \in 0 .. k
      BY <1>10
    <3>2. QED
      BY <1>12, <1>14, <3>1, Zenon DEF Walks
  <2>2. ASSUME NEW i \in 1 .. k, i - 1 \in T
        PROVE  i \in T
    <3>1. i \in 1 .. k + 1 /\ i \in 0 .. k
      BY <1>10
    <3>2. b[i] = ChildOf(v, b[i - 1], all[i]) /\ at[i] = ChildOf(t, at[i - 1], tags[i])
      BY <1>8, <1>10, <1>12, <1>14, <3>1 DEF Walks
    <3>3. b[i - 1] = at[i - 1] /\ all[i] = tags[i]
      BY <1>10, <2>2
    <3>4. b[i] = at[i]
      BY <1>14, <3>2, <3>3
    <3>5. QED
      BY <3>1, <3>4
  <2> HIDE DEF T
  <2>3. \A i \in 0 .. k : i \in T
    BY ONLY <1>10, <2>1, <2>2, Climb
  <2>4. b[k] = n
    <3>1. k \in T
      BY <1>10, <2>3
    <3>2. QED
      BY <1>12, <3>1 DEF T
  <2>5. PICK j : j = k + 1
    OBVIOUS
  <2>6. j \in 1 .. Len(all) /\ j - 1 = k /\ all[j] = tag
    BY <1>10, <2>5
  <2>7. b[j] = ChildOf(v, b[j - 1], all[j])
    BY <1>14, <2>6 DEF Walks
  <2>8. QED
    BY <2>4, <2>5, <2>6, <2>7
<1>15. ChildOf(t, n, tag) = NoNode
  <2>1. PICK b : Walks(b, t, all) /\ GetSectionPointer(t, full) = b[k + 1]
    BY <1>11, Zenon
  <2>2. QED
    BY <1>14, <1>3, <2>1 DEF HasSection
<1>16. PICK u : u = WithSection(t, n, tag)
  OBVIOUS
<1>17. /\ IsTree(u) /\ ChildOf(u, n, tag) = Len(t) + 1
       /\ \A m, x : m # n \/ x # tag => ChildOf(u, m, x) = ChildOf(t, m, x)
  BY <1>4, <1>15, <1>16, AddedIsChild
<1>18. PICK b : Walks(b, u, all) /\ GetSectionPointer(u, full) = b[k + 1]
  BY <1>17, <1>11, Zenon
<1>19. ASSUME NEW i \in 1 .. k
       PROVE  ChildOf(u, at[i - 1], tags[i]) = ChildOf(t, at[i - 1], tags[i])
  <2>1. at[i] = ChildOf(t, at[i - 1], tags[i]) /\ at[i] # NoNode
    <3>1. i \in 0 .. k
      BY <1>10
    <3>2. QED
      BY <1>8, <1>12, <1>13, <3>1 DEF Walks
  <2>2. at[i - 1] # n \/ tags[i] # tag
    BY <1>15, <2>1
  <2>3. QED
    BY <1>17, <2>2
<1>20. QED
  BY <1>4, <1>14, <1>17, <1>18, <1>19, <1>1, <1>2, <1>16

(* An edit with a call of the name is that call.                           *)
LEMMA InsertsSection ==
  ASSUME CodecInv, [CodecNext]_codecVars, Edits({"InsertSection"})
  PROVE  \E path \in Paths, tag \in Keys : InsertSection(path, tag)
<1>1. edits' = edits + 1 /\ last'.call = "InsertSection"
  BY DEF Edits
<1>2. EditCall
  BY <1>1, EditIsCall
<1>3. PICK path \in Paths :
        \/ ClearKVs(path) \/ ClearRawLines(path) \/ ClearSections(path)
        \/ \E k \in Keys :
             \/ EraseKV(path, k) \/ InsertRawLine(path, k)
             \/ EraseSection(path, k) \/ InsertSection(path, k)
             \/ \E v \in Values : InsertKV(path, k, v) \/ OverwriteKV(path, k, v)
  BY <1>2, Zenon DEF EditCall
<1>4. ~(ClearKVs(path) \/ ClearRawLines(path) \/ ClearSections(path))
  BY <1>1 DEF ClearKVs, ClearRawLines, ClearSections, SectionCall, Call
<1>5. ASSUME NEW k \in Keys
      PROVE  ~(EraseKV(path, k) \/ InsertRawLine(path, k) \/ EraseSection(path, k))
  BY <1>1 DEF EraseKV, InsertRawLine, EraseSection, SectionCall, PairCall, Call
<1>6. ASSUME NEW k \in Keys, NEW v \in Values
      PROVE  ~(InsertKV(path, k, v) \/ OverwriteKV(path, k, v))
  BY <1>1 DEF InsertKV, OverwriteKV, PairCall, Call
<1>7. QED
  BY <1>3, <1>4, <1>5, <1>6

(* The section InsertSection adds below another one is the one its path    *)
(* leads to, whatever sections there were before: none of them hides it,   *)
(* and it hides none on the way.                                           *)
THEOREM NewSectionsAreFound == CodecSpec => NewSectionIsFound
<1>1. CodecInit => CodecInv
  BY CodecInvInit
<1>2. CodecInv /\ [CodecNext]_codecVars => CodecInv'
  BY CodecInvStep
<1> DEFINE New ==
      Edits({"InsertSection"}) /\ last'.result = "SUCCESS" /\ Addresses(last'.path, last'.key) =>
        LET n == GetSectionPointer(nodes', last'.path \o <<"\\">> \o last'.key) IN
        /\ n \in DOMAIN nodes' \ DOMAIN nodes
        /\ nodes'[n].pairs = <<>>
        /\ nodes'[n].level = nodes'[nodes'[n].parent].level + 1
<1>3. ASSUME CodecInv, [CodecNext]_codecVars, Edits({"InsertSection"}), last'.result = "SUCCESS",
             Addresses(last'.path, last'.key)
      PROVE  New
  <2>1. PICK path \in Paths, tag \in Keys : InsertSection(path, tag)
    BY <1>3, InsertsSection
  <2>2. PICK full : full = path \o <<"\\">> \o tag
    OBVIOUS
  <2>3. PICK n : n = GetSectionPointer(nodes, path)
    OBVIOUS
  <2>4. /\ ~HasSection(nodes, full) /\ n # NoNode
        /\ last'.path = path /\ last'.key = tag
        /\ nodes' = WithSection(nodes, n, tag)
    BY <1>3, <2>1, <2>2, <2>3 DEF InsertSection, Call, WithSection
  <2>5. IsTree(nodes) /\ path \in Words /\ tag \in Words
    BY <1>3, CodecAssumption DEF CodecInv
  <2>6. n \in 1 .. Len(nodes) /\ GetSectionPointer(nodes', full) = Len(nodes) + 1
    <3>1. Addresses(path, tag)
      BY <1>3, <2>4
    <3>2. QED
      BY <2>2, <2>3, <2>4, <2>5, <3>1, AddedIsFound
  <2>7. PICK m : m = Len(nodes) + 1
    OBVIOUS
  <2>8. /\ IsTree(nodes') /\ Len(nodes') = m /\ nodes'[m] = Node(tag, n, nodes[n].level + 1)
        /\ nodes'[n] = nodes[n]
    BY <2>4, <2>5, <2>6, <2>7, NodeAdded DEF WithSection
  <2>9. m \in DOMAIN nodes' \ DOMAIN nodes
    BY <2>5, <2>7, <2>8, TreeIs
  <2>10. /\ nodes'[m].pairs = <<>> /\ nodes'[m].parent = n
         /\ nodes'[m].level = nodes'[n].level + 1
    BY <2>8 DEF Node
  <2>11. QED
    BY <2>2, <2>4, <2>6, <2>7, <2>9, <2>10
<1>4. CodecInv /\ [CodecNext]_codecVars => [New]_codecVars
  BY <1>3
<1>5. QED
  BY <1>1, <1>2, <1>4, PTL DEF CodecSpec, NewSectionIsFound

-----------------------------------------------------------------------------
(* A reader of texts that keeps views instead of nodes: its state is the   *)
(* view of each open section, as far as it was read, the innermost last.   *)

Section(V) == [tag : Words, level : Int, comments : Comments, pairs : Pairs, children : Seq(V)]

Begun(x, tag) ==
  [tag |-> tag, level |-> x.level + 1, comments |-> <<>>, pairs |-> <<>>, children |-> <<>>]

Noted(x, c) == [x EXCEPT !.comments = c]
Holding(x, p) == [x EXCEPT !.pairs = p]
Above(x, c) == [x EXCEPT !.children = c]

Commented(x, w) ==
  IF x.pairs = <<>> THEN Noted(x, Append(x.comments, w))
  ELSE LET p == Last(x.pairs)
       IN  Holding(x, Append(Front(x.pairs), Noted(p, Append(p.comments, w))))

Paired(x, p) == Holding(x, Append(x.pairs, p))

Enlarged(x, y) == Above(x, Append(x.children, y))

IsA(w, type) == w # <<>> /\ w[1] # "#" /\ DetectLineType(w) = type

(* The line w takes the reader from a to b.                                *)
ReadsLine(a, w, b) ==
  \/ /\ w # <<>> /\ w[1] = "#" /\ Front(a) # <<>>
     /\ b = Append(Front(a), Commented(Last(a), w))
  \/ /\ IsA(w, "KVPAIR") /\ Front(a) # <<>>
     /\ b = Append(Front(a), Paired(Last(a), PairOf(w)))
  \/ /\ IsA(w, "SECTION_BEGIN")
     /\ b = Append(a, Begun(Last(a), SubSeq(w, 2, Len(w) - 1)))
  \/ /\ IsA(w, "SECTION_END") /\ Front(a) # <<>>
     /\ SubSeq(w, 3, Len(w) - 1) = Last(a).tag
     /\ b = Append(Front(Front(a)), Enlarged(Last(Front(a)), Last(a)))

(* So do the lines, one after the other.                                   *)
IsReading(st, lines, a, b) ==
  /\ st[0] = a /\ st[Len(lines)] = b
  /\ \A i \in 1 .. Len(lines) : ReadsLine(st[i - 1], lines[i], st[i])

ReadsText(lines, a, b) == \E st : IsReading(st, lines, a, b)

LEMMA ReadsNothing ==
  ASSUME NEW a
  PROVE  ReadsText(<<>>, a, a)
<1>1. IsReading([i \in {0} |-> a], <<>>, a, a)
  BY DEF IsReading
<1>2. QED
  BY <1>1 DEF ReadsText

LEMMA ReadsOne ==
  ASSUME NEW a, NEW b, NEW w, ReadsLine(a, w, b)
  PROVE  ReadsText(<<w>>, a, b)
<1> DEFINE st == [i \in 0 .. 1 |-> IF i = 0 THEN a ELSE b]
<1>1. st[0] = a /\ st[1] = b
  OBVIOUS
<1>2. Len(<<w>>) = 1 /\ <<w>>[1] = w
  OBVIOUS
<1> HIDE DEF st
<1>3. \A i \in 1 .. 1 : i = 1
  OBVIOUS
<1>4. \A i \in 1 .. 1 : ReadsLine(st[i - 1], <<w>>[i], st[i])
  <2> TAKE i \in 1 .. 1
  <2>1. i = 1 /\ i - 1 = 0
    OBVIOUS
  <2>2. QED
    BY <1>1, <1>2, <2>1, Zenon
<1>5. IsReading(st, <<w>>, a, b)
  BY <1>1, <1>2, <1>4, Zenon DEF IsReading
<1>6. QED
  BY <1>5 DEF ReadsText

LEMMA ReadsBoth ==
  ASSUME NEW S, NEW x \in Seq(S), NEW y \in Seq(S), NEW a, NEW b, NEW c,
         ReadsText(x, a, b), ReadsText(y, b, c)
  PROVE  ReadsText(x \o y, a, c)
<1>1. PICK f : IsReading(f, x, a, b)
  BY DEF ReadsText
<1>2. PICK g : IsReading(g, y, b, c)
  BY DEF ReadsText
<1> DEFINE m == Len(x)
           n == Len(y)
           z == x \o y
           st == [i \in 0 .. m + n |-> IF i <= m THEN f[i] ELSE g[i - m]]
<1>3. /\ m \in Nat /\ n \in Nat /\ Len(z) = m + n
      /\ \A i \in 1 .. m : z[i] = x[i]
      /\ \A i \in 1 .. n : z[m + i] = y[i]
  <2>1. m \in Nat /\ n \in Nat
    OBVIOUS
  <2>2. Len(z) = m + n /\ \A i \in 1 .. m + n : z[i] = IF i <= m THEN x[i] ELSE y[i - m]
    BY ConcatProperties
  <2> HIDE DEF z, m, n
  <2>3. QED
    BY <2>1, <2>2
<1> HIDE DEF z
<1>4. f[0] = a /\ f[m] = b /\ g[0] = b /\ g[n] = c
  BY <1>1, <1>2 DEF IsReading
<1>5. st[0] = a /\ st[m + n] = c
  <2>1. st[0] = f[0]
    BY <1>3
  <2>2. CASE n = 0
    BY <1>3, <1>4, <2>1, <2>2
  <2>3. CASE n # 0
    <3>1. st[m + n] = g[m + n - m] /\ m + n - m = n
      BY <1>3, <2>3
    <3>2. QED
      BY <1>4, <2>1, <3>1
  <2>4. QED
    BY <2>2, <2>3
<1>6. ASSUME NEW i \in 1 .. m + n
      PROVE  ReadsLine(st[i - 1], z[i], st[i])
  <2>1. CASE i <= m
    <3>1. i \in 1 .. m /\ st[i] = f[i] /\ st[i - 1] = f[i - 1] /\ z[i] = x[i]
      BY <1>3, <2>1
    <3>2. ReadsLine(f[i - 1], x[i], f[i])
      BY <1>1, <3>1, Zenon DEF IsReading
    <3> HIDE DEF st
    <3>3. QED
      BY <3>1, <3>2, Zenon
  <2>2. CASE i > m
    <3>1. PICK j \in 1 .. n : i = m + j
      <4>1. i - m \in 1 .. n /\ i = m + (i - m)
        BY <1>3, <2>2
      <4>2. QED
        BY <4>1
    <3>2. st[i] = g[j] /\ z[i] = y[j]
      <4>1. ~(i <= m) /\ i - m = j
        BY <1>3, <3>1
      <4>2. QED
        BY <1>3, <3>1, <4>1
    <3>3. st[i - 1] = g[j - 1]
      <4>1. CASE j = 1
        BY <1>3, <1>4, <3>1, <4>1
      <4>2. CASE j # 1
        <5>1. ~(i - 1 <= m) /\ i - 1 - m = j - 1 /\ i - 1 \in 0 .. m + n
          BY <1>3, <3>1, <4>2
        <5>2. QED
          BY <5>1
      <4>3. QED
        BY <4>1, <4>2
    <3>4. ReadsLine(g[j - 1], y[j], g[j])
      BY <1>2, Zenon DEF IsReading
    <3> HIDE DEF st
    <3>5. QED
      BY <3>2, <3>3, <3>4, Zenon
  <2>3. QED
    BY <1>3, <2>1, <2>2
<1> HIDE DEF st
<1>7. IsReading(st, z, a, c)
  BY <1>3, <1>5, <1>6, Zenon DEF IsReading
<1>8. QED
  BY <1>7 DEF ReadsText, z

(* The first line, and the others.                                         *)
LEMMA ReadsFirst ==
  ASSUME NEW S, NEW x \in Seq(S), x # <<>>, NEW a, NEW c, ReadsText(x, a, c)
  PROVE  \E b : ReadsLine(a, Head(x), b) /\ ReadsText(Tail(x), b, c)
<1>1. PICK f : IsReading(f, x, a, c)
  BY DEF ReadsText
<1> DEFINE n == Len(x)
           y == Tail(x)
           st == [i \in 0 .. n - 1 |-> f[i + 1]]
<1>2. /\ n \in Nat \ {0} /\ Len(y) = n - 1 /\ Head(x) = x[1]
      /\ \A i \in 1 .. n - 1 : y[i] = x[i + 1]
  <2>1. n \in Nat \ {0}
    OBVIOUS
  <2>2. QED
    BY <2>1, HeadTailProperties
<1> HIDE DEF y
<1>3. ReadsLine(a, Head(x), f[1])
  <2>1. f[0] = a /\ \A i \in 1 .. n : ReadsLine(f[i - 1], x[i], f[i])
    BY <1>1, Zenon DEF IsReading
  <2>2. 1 \in 1 .. n /\ 1 - 1 = 0
    BY <1>2
  <2>3. ReadsLine(f[1 - 1], x[1], f[1])
    BY <2>1, <2>2, Zenon
  <2>4. QED
    BY <1>2, <2>1, <2>2, <2>3, Zenon
<1>4. ASSUME NEW i \in 1 .. n - 1
      PROVE  ReadsLine(st[i - 1], y[i], st[i])
  <2>1. PICK k \in 1 .. n : k = i + 1
    BY <1>2
  <2>2. st[i] = f[k] /\ st[i - 1] = f[k - 1] /\ y[i] = x[k]
    <3>1. i \in 0 .. n - 1 /\ i - 1 \in 0 .. n - 1 /\ i - 1 + 1 = k - 1
      BY <1>2, <2>1
    <3>2. QED
      BY <1>2, <2>1, <3>1
  <2> HIDE DEF st
  <2>3. ReadsLine(f[k - 1], x[k], f[k])
    BY <1>1, Zenon DEF IsReading
  <2>4. QED
    BY <2>2, <2>3, Zenon
<1>5. st[0] = f[1] /\ st[n - 1] = c
  <2>1. f[n] = c
    BY <1>1 DEF IsReading
  <2>2. 0 \in 0 .. n - 1 /\ n - 1 \in 0 .. n - 1 /\ 0 + 1 = 1 /\ n - 1 + 1 = n
    BY <1>2
  <2>3. QED
    BY <2>1, <2>2
<1> HIDE DEF st
<1>6. IsReading(st, y, f[1], c)
  BY <1>2, <1>4, <1>5, Zenon DEF IsReading
<1>7. ReadsText(y, f[1], c)
  BY <1>6 DEF ReadsText
<1>8. QED
  BY <1>3, <1>7 DEF y

LEMMA ReadsEnded ==
  ASSUME NEW a, NEW b, ReadsText(<<>>, a, b)
  PROVE  a = b
BY DEF ReadsText, IsReading

-----------------------------------------------------------------------------
(* Views of a tree, in which the nodes of O are not shown as children: the *)
(* sections that are still read.                                           *)

KidsBut(t, O, n) ==
  FlattenSeq([i \in 1 .. Len(t) |-> IF t[i].parent = n /\ i \notin O THEN <<i>> ELSE <<>>])

RawPairs(raw) == [i \in DOMAIN raw |-> Pair(Front(raw[i]), <<>>)]

Seen(v, kids) == [i \in DOMAIN kids |-> v[kids[i]]]

Shown(x, c) ==
  [tag |-> x.tag, level |-> x.level, comments |-> x.comments,
   pairs |-> RawPairs(x.raw) \o x.pairs, children |-> c]

IsView(t, O, v) == v = [n \in 1 .. Len(t) |-> Shown(t[n], Seen(v, KidsBut(t, O, n)))]

LEMMA SeqWithin ==
  ASSUME NEW S, NEW s \in Seq(S), NEW L, \A i \in 1 .. Len(s) : s[i] \in L
  PROVE  s \in Seq(L)
<1>1. Len(s) \in Nat /\ s \in [1 .. Len(s) -> S]
  OBVIOUS
<1>2. s \in [1 .. Len(s) -> L]
  BY <1>1
<1>3. QED
  BY <1>1, <1>2

LEMMA KidsAre ==
  ASSUME NEW t, IsTree(t), NEW O, NEW n
  PROVE  KidsBut(t, O, n) \in Seq({i \in 1 .. Len(t) : t[i].parent = n /\ i \notin O})
<1> DEFINE S == {i \in 1 .. Len(t) : t[i].parent = n /\ i \notin O}
           s == [i \in 1 .. Len(t) |-> IF t[i].parent = n /\ i \notin O THEN <<i>> ELSE <<>>]
<1>1. \A i \in 1 .. Len(t) :
        (IF t[i].parent = n /\ i \notin O THEN <<i>> ELSE <<>>) \in Seq(S)
  <2> TAKE i \in 1 .. Len(t)
  <2>1. i \in S => <<i>> \in Seq(S)
    <3> HIDE DEF S
    <3>1. QED
      OBVIOUS
  <2>2. t[i].parent = n /\ i \notin O => i \in S
    OBVIOUS
  <2>3. <<>> \in Seq(S)
    OBVIOUS
  <2> HIDE DEF S
  <2>4. QED
    BY <2>1, <2>2, <2>3
<1>2. s \in Seq(Seq(S))
  <2>1. Len(t) \in Nat
    BY TreeIs
  <2> HIDE DEF S
  <2>2. QED
    BY <1>1, <2>1
<1> HIDE DEF s, S
<1>3. FlattenSeq(s) \in Seq(S)
  BY <1>2, FlattenTyped
<1>4. QED
  BY <1>3 DEF KidsBut, s, S

LEMMA SeenAgree ==
  ASSUME NEW U, NEW kids \in Seq(U), NEW v, NEW w, \A i \in U : v[i] = w[i]
  PROVE  Seen(v, kids) = Seen(w, kids)
<1>1. \A i \in DOMAIN kids : v[kids[i]] = w[kids[i]]
  OBVIOUS
<1>2. QED
  BY <1>1, Zenon DEF Seen

LEMMA SeenTyped ==
  ASSUME NEW V, NEW U, NEW kids \in Seq(U), NEW v, \A i \in U : v[i] \in V
  PROVE  Seen(v, kids) \in Seq(V)
BY DEF Seen

LEMMA SeenMore ==
  ASSUME NEW U, NEW kids \in Seq(U), NEW v, NEW k \in U
  PROVE  Seen(v, Append(kids, k)) = Append(Seen(v, kids), v[k])
<1> DEFINE V == {v[i] : i \in U}
           m == Append(kids, k)
           f == Seen(v, m)
           s == Seen(v, kids)
           g == Append(s, v[k])
<1>1. /\ m \in Seq(U) /\ Len(m) = Len(kids) + 1 /\ m[Len(kids) + 1] = k
      /\ \A i \in 1 .. Len(kids) : m[i] = kids[i]
  BY AppendProperties
<1> HIDE DEF m
<1>2. f \in Seq(V) /\ s \in Seq(V)
  <2>1. \A i \in U : v[i] \in V
    OBVIOUS
  <2> HIDE DEF V
  <2>2. QED
    BY <1>1, <2>1, SeenTyped
<1>3. Len(f) = Len(kids) + 1 /\ Len(s) = Len(kids) /\ Len(kids) \in Nat
  BY <1>1 DEF Seen
<1>4. \A i \in 1 .. Len(kids) + 1 : f[i] = v[m[i]]
  BY <1>1 DEF Seen
<1>5. \A i \in 1 .. Len(kids) : s[i] = v[kids[i]]
  BY DEF Seen
<1> HIDE DEF f, s
<1>0. \A i \in U : v[i] \in V
  OBVIOUS
<1> HIDE DEF V
<1>6. /\ g \in Seq(V) /\ Len(g) = Len(kids) + 1 /\ g[Len(kids) + 1] = v[k]
      /\ \A i \in 1 .. Len(kids) : g[i] = s[i]
  BY <1>0, <1>2, <1>3, AppendProperties
<1> HIDE DEF g
<1>7. ASSUME NEW i \in 1 .. Len(kids) + 1
      PROVE  f[i] = g[i]
  <2>1. CASE i = Len(kids) + 1
    BY <1>1, <1>4, <1>6, <2>1
  <2>2. CASE i # Len(kids) + 1
    <3>1. i \in 1 .. Len(kids)
      BY <1>3, <2>2
    <3>2. f[i] = v[m[i]] /\ m[i] = kids[i] /\ s[i] = v[kids[i]] /\ g[i] = s[i]
      BY <1>1, <1>4, <1>5, <1>6, <3>1
    <3>3. QED
      BY <3>2
  <2>3. QED
    BY <2>1, <2>2
<1>8. f = g
  BY <1>2, <1>3, <1>6, <1>7, SeqEqual
<1>9. QED
  BY <1>8 DEF f, g, s, m

(* The views of the last k nodes.                                          *)
IsViewFrom(t, O, v, k) ==
  /\ v = [n \in 1 .. Len(t) |-> v[n]]
  /\ \A n \in 1 .. Len(t) : n > Len(t) - k => v[n] = Shown(t[n], Seen(v, KidsBut(t, O, n)))

LEMMA ViewExists ==
  ASSUME NEW t, IsTree(t), NEW O
  PROVE  \E v : IsView(t, O, v)
<1> DEFINE N == Len(t)
           S == {k \in 0 .. N : \E v : IsViewFrom(t, O, v, k)}
<1>1. N \in Nat /\ \A i \in 1 .. N : t[i].parent < i /\ t[i].parent \in Nat
  BY TreeIs
<1>2. 0 \in S
  <2>1. IsViewFrom(t, O, [i \in 1 .. N |-> i], 0)
    BY <1>1 DEF IsViewFrom
  <2>2. 0 \in 0 .. N
    BY <1>1
  <2>3. QED
    BY <2>1, <2>2, Zenon
<1>3. ASSUME NEW k \in 1 .. N, k - 1 \in S
      PROVE  k \in S
  <2>1. PICK f : IsViewFrom(t, O, f, k - 1)
    BY <1>3
  <2> DEFINE m == N - k + 1
             x == Shown(t[m], Seen(f, KidsBut(t, O, m)))
             g == [n \in 1 .. N |-> IF n = m THEN x ELSE f[n]]
  <2>2. m \in 1 .. N
    BY <1>1
  <2>3. \A n \in 1 .. N : n > m => f[n] = Shown(t[n], Seen(f, KidsBut(t, O, n)))
    BY <1>1, <2>1 DEF IsViewFrom
  <2> HIDE DEF m, x
  <2>4. g = [n \in 1 .. N |-> g[n]] /\ g[m] = x /\ \A n \in 1 .. N : n # m => g[n] = f[n]
    BY <2>2
  <2> HIDE DEF g
  <2>5. ASSUME NEW n \in 1 .. N, n >= m
        PROVE  g[n] = Shown(t[n], Seen(g, KidsBut(t, O, n)))
    <3> DEFINE U == {i \in 1 .. N : t[i].parent = n /\ i \notin O}
    <3>1. \A i \in U : g[i] = f[i]
      BY <1>1, <2>2, <2>4, <2>5
    <3>2. Seen(g, KidsBut(t, O, n)) = Seen(f, KidsBut(t, O, n))
      <4>1. KidsBut(t, O, n) \in Seq(U)
        BY KidsAre
      <4> HIDE DEF U
      <4>2. QED
        BY <3>1, <4>1, SeenAgree
    <3>3. CASE n = m
      BY <2>4, <3>2, <3>3, Zenon DEF x
    <3>4. CASE n # m
      <4>1. n > m
        BY <2>2, <2>5, <3>4
      <4>2. g[n] = f[n] /\ f[n] = Shown(t[n], Seen(f, KidsBut(t, O, n)))
        BY <2>3, <2>4, <3>4, <4>1
      <4>3. QED
        BY <3>2, <4>2, Zenon
    <3>5. QED
      BY <3>3, <3>4
  <2>6. \A n \in 1 .. N : n > N - k => n >= m
    BY <1>1 DEF m
  <2>7. IsViewFrom(t, O, g, k)
    BY <2>4, <2>5, <2>6 DEF IsViewFrom
  <2>8. k \in 0 .. N
    OBVIOUS
  <2>9. QED
    BY <2>7, <2>8, Zenon
<1> HIDE DEF S
<1>4. \A i \in 0 .. N : i \in S
  BY ONLY <1>1, <1>2, <1>3, Climb
<1>5. N \in 0 .. N
  BY <1>1
<1>6. PICK v : IsViewFrom(t, O, v, N)
  BY <1>4, <1>5 DEF S
<1>7. \A n \in 1 .. N : n > N - N
  BY <1>1
<1>8. v = [n \in 1 .. N |-> Shown(t[n], Seen(v, KidsBut(t, O, n)))]
  BY <1>6, <1>7, Zenon DEF IsViewFrom
<1>9. QED
  BY <1>8 DEF IsView

LEMMA ViewOf ==
  ASSUME NEW t, NEW O, NEW v, IsView(t, O, v), NEW n \in 1 .. Len(t)
  PROVE  v[n] = Shown(t[n], Seen(v, KidsBut(t, O, n)))
BY Zenon DEF IsView

(* Nodes that are the same in two trees, and whose children are, have the  *)
(* same view in both.                                                      *)
Alike(t, O, u, Q, U) ==
  /\ U \subseteq 1 .. Len(t) /\ U \subseteq 1 .. Len(u)
  /\ \A n \in U : /\ u[n] = t[n]
                  /\ KidsBut(u, Q, n) = KidsBut(t, O, n)
                  /\ KidsBut(t, O, n) \in Seq(U)

LEMMA ViewsAgree ==
  ASSUME NEW t, IsTree(t), NEW u, NEW O, NEW Q, NEW v, NEW w,
         IsView(t, O, v), IsView(u, Q, w), NEW U, Alike(t, O, u, Q, U)
  PROVE  \A n \in U : v[n] = w[n]
<1> DEFINE N == Len(t)
           S == {k \in 0 .. N : \A n \in U : n > N - k => v[n] = w[n]}
<1>1. N \in Nat /\ \A i \in 1 .. N : t[i].parent < i /\ t[i].parent \in Nat
  BY TreeIs
<1>2. 0 \in S
  <2>1. \A n \in U : ~(n > N - 0)
    BY <1>1 DEF Alike
  <2>2. 0 \in 0 .. N
    BY <1>1
  <2>3. QED
    BY <2>1, <2>2, Zenon
<1>3. ASSUME NEW k \in 1 .. N, k - 1 \in S
      PROVE  k \in S
  <2>1. ASSUME NEW n \in U, n > N - k
        PROVE  v[n] = w[n]
    <3> DEFINE kids == KidsBut(t, O, n)
               L == {i \in U : t[i].parent = n}
    <3>1. kids \in Seq(L)
      <4> DEFINE P == {i \in 1 .. Len(t) : t[i].parent = n /\ i \notin O}
      <4>1. kids \in Seq(P) /\ kids \in Seq(U) /\ \A i \in P : t[i].parent = n
        BY <2>1, KidsAre DEF Alike
      <4> HIDE DEF kids, P
      <4>2. \A i \in 1 .. Len(kids) : kids[i] \in L
        BY <4>1
      <4> HIDE DEF L
      <4>3. QED
        BY <4>1, <4>2, SeqWithin
    <3>2. \A i \in L : v[i] = w[i]
      <4>1. \A i \in U : i \in 1 .. N
        BY DEF Alike
      <4>2. \A i \in 1 .. N : t[i].parent = n => i > N - (k - 1)
        BY <1>1, <2>1
      <4>3. \A i \in L : i \in U /\ i > N - (k - 1)
        BY <4>1, <4>2
      <4>4. QED
        BY <1>3, <4>3
    <3>3. Seen(v, kids) = Seen(w, kids)
      <4> HIDE DEF kids, L
      <4>1. QED
        BY <3>1, <3>2, SeenAgree
    <3>4. /\ n \in 1 .. Len(t) /\ n \in 1 .. Len(u)
          /\ u[n] = t[n] /\ KidsBut(u, Q, n) = KidsBut(t, O, n)
      BY <2>1 DEF Alike
    <3>5. v[n] = Shown(t[n], Seen(v, KidsBut(t, O, n)))
      BY <3>4, ViewOf
    <3>6. w[n] = Shown(u[n], Seen(w, KidsBut(u, Q, n)))
      BY <3>4, ViewOf
    <3>7. QED
      BY <3>3, <3>4, <3>5, <3>6, Zenon
  <2>2. QED
    BY <2>1
<1> HIDE DEF S
<1>4. \A i \in 0 .. N : i \in S
  BY ONLY <1>1, <1>2, <1>3, Climb
<1>5. N \in S
  BY <1>1, <1>4
<1>6. \A n \in U : n > N - N
  BY <1>1 DEF Alike
<1>7. QED
  BY <1>5, <1>6 DEF S

LEMMA ViewIsOne ==
  ASSUME NEW t, IsTree(t), NEW O, NEW v, NEW w, IsView(t, O, v), IsView(t, O, w)
  PROVE  \A n \in 1 .. Len(t) : v[n] = w[n]
<1> DEFINE U == 1 .. Len(t)
<1>1. ASSUME NEW n \in U
      PROVE  KidsBut(t, O, n) \in Seq(U)
  <2>1. KidsBut(t, O, n) \in Seq({i \in U : t[i].parent = n /\ i \notin O})
    BY KidsAre
  <2>2. {i \in U : t[i].parent = n /\ i \notin O} \subseteq U
    OBVIOUS
  <2> HIDE DEF U
  <2>3. QED
    BY <2>1, <2>2, SeqMonotonic
<1>2. Alike(t, O, t, O, U)
  BY <1>1 DEF Alike
<1> HIDE DEF U
<1>3. \A n \in U : v[n] = w[n]
  BY <1>2, ViewsAgree
<1>5. QED
  BY <1>3 DEF U

(* View shows the children of RootNode.                                    *)
LEMMA ViewIs ==
  ASSUME NEW t, IsTree(t), NEW v, IsView(t, {}, v)
  PROVE  View(t) = v[Root].children
<1> DEFINE rawPairs(n) == [i \in DOMAIN t[n].raw |-> Pair(Front(t[n].raw[i]), <<>>)]
           Body(f) == [n \in 1 .. Len(t) |->
             LET kids == Children(t, n) IN
             [tag |-> t[n].tag, level |-> t[n].level, comments |-> t[n].comments,
              pairs |-> rawPairs(n) \o t[n].pairs,
              children |-> [i \in DOMAIN kids |-> f[kids[i]]]]]
           w == CHOOSE f : f = Body(f)
<1>1. View(t) = w[Root].children
  BY Zenon DEF View
<1>2. \A n : Children(t, n) = KidsBut(t, {}, n)
  <2> TAKE n
  <2>1. [i \in 1 .. Len(t) |-> IF t[i].parent = n THEN <<i>> ELSE <<>>]
          = [i \in 1 .. Len(t) |-> IF t[i].parent = n /\ i \notin {} THEN <<i>> ELSE <<>>]
    OBVIOUS
  <2>2. QED
    BY <2>1, Zenon DEF Children, KidsBut
<1>3. \A f : Body(f) = [n \in 1 .. Len(t) |-> Shown(t[n], Seen(f, KidsBut(t, {}, n)))]
  <2> TAKE f
  <2> DEFINE e(n) == LET kids == Children(t, n) IN
               [tag |-> t[n].tag, level |-> t[n].level, comments |-> t[n].comments,
                pairs |-> rawPairs(n) \o t[n].pairs,
                children |-> [i \in DOMAIN kids |-> f[kids[i]]]]
  <2>1. \A n \in 1 .. Len(t) : e(n) = Shown(t[n], Seen(f, KidsBut(t, {}, n)))
    <3> TAKE n \in 1 .. Len(t)
    <3>1. e(n) = Shown(t[n], Seen(f, Children(t, n)))
      BY Zenon DEF Shown, Seen, RawPairs
    <3>2. QED
      BY <1>2, <3>1, Zenon
  <2>2. Body(f) = [n \in 1 .. Len(t) |-> e(n)]
    BY Zenon
  <2> HIDE DEF Body, e
  <2>3. QED
    BY <2>1, <2>2, Zenon
<1>4. v = Body(v)
  <2> HIDE DEF Body
  <2>1. QED
    BY <1>3, Zenon DEF IsView
<1>5. w = Body(w)
  <2> HIDE DEF Body
  <2>1. QED
    BY <1>4, Zenon
<1> HIDE DEF w
<1>6. IsView(t, {}, w)
  <2> HIDE DEF Body
  <2>1. QED
    BY <1>3, <1>5, Zenon DEF IsView
<1>7. \A n \in 1 .. Len(t) : v[n] = w[n]
  <2>1. PICK O : O = {}
    OBVIOUS
  <2>2. IsView(t, O, v) /\ IsView(t, O, w)
    BY <1>6, <2>1
  <2> HIDE DEF Body
  <2>3. QED
    BY ONLY IsTree(t), <2>2, ViewIsOne
<1>8. Root \in 1 .. Len(t)
  BY TreeIs DEF Root
<1>9. QED
  BY <1>1, <1>7, <1>8, Zenon

-----------------------------------------------------------------------------
(* The lines Generate writes.                                              *)

LEMMA ConcatIs ==
  ASSUME NEW S, NEW x \in Seq(S), NEW y \in Seq(S)
  PROVE  /\ x \o y \in Seq(S) /\ Len(x \o y) = Len(x) + Len(y)
         /\ \A i \in 1 .. Len(x) : (x \o y)[i] = x[i]
         /\ \A i \in 1 .. Len(y) : (x \o y)[Len(x) + i] = y[i]
<1> DEFINE z == x \o y
<1>1. Len(x) \in Nat /\ Len(y) \in Nat
  OBVIOUS
<1>2. /\ z \in Seq(S) /\ Len(z) = Len(x) + Len(y)
      /\ \A i \in 1 .. Len(x) + Len(y) : z[i] = IF i <= Len(x) THEN x[i] ELSE y[i - Len(x)]
  BY ConcatProperties
<1> HIDE DEF z
<1>3. \A i \in 1 .. Len(x) : z[i] = x[i]
  BY <1>1, <1>2
<1>4. \A i \in 1 .. Len(y) : z[Len(x) + i] = y[i]
  BY <1>1, <1>2, SMTT(30)
<1>5. QED
  BY <1>2, <1>3, <1>4 DEF z

LEMMA PairLineIs ==
  ASSUME NEW k \in Words, NEW v \in Words, Plain(k)
  PROVE  LET w == k \o <<"=">> \o v IN
         w \in Words /\ IsA(w, "KVPAIR") /\ PairOf(w) = Pair(k, v)
<1> DEFINE w == k \o <<"=">> \o v
           m == Len(k)
           n == Len(v)
<1>1. /\ w \in Seq(Symbols) /\ m \in Nat /\ n \in Nat /\ Len(w) = m + 1 + n
      /\ \A i \in 1 .. m : w[i] = k[i]
      /\ w[m + 1] = "="
      /\ \A i \in 1 .. n : w[m + 1 + i] = v[i]
  <2>1. k \in Seq(Symbols) /\ v \in Seq(Symbols) /\ <<"=">> \in Seq(Symbols)
    BY MarksTyped DEF Words
  <2> DEFINE u == k \o <<"=">>
  <2>2. /\ u \in Seq(Symbols) /\ m \in Nat /\ n \in Nat /\ Len(u) = m + 1 /\ u[m + 1] = "="
        /\ \A i \in 1 .. m : u[i] = k[i]
    BY <2>1, ConcatProperties
  <2> HIDE DEF u
  <2>3. /\ u \o v \in Seq(Symbols) /\ Len(u \o v) = m + 1 + n
        /\ \A i \in 1 .. m + 1 : (u \o v)[i] = u[i]
        /\ \A i \in 1 .. n : (u \o v)[m + 1 + i] = v[i]
    <3>1. /\ u \o v \in Seq(Symbols) /\ Len(u \o v) = Len(u) + Len(v)
          /\ \A i \in 1 .. Len(u) : (u \o v)[i] = u[i]
          /\ \A i \in 1 .. Len(v) : (u \o v)[Len(u) + i] = v[i]
      <4>1. u \in Seq(Symbols) /\ v \in Seq(Symbols)
        BY <2>1, <2>2
      <4>2. QED
        BY ONLY <4>1, ConcatIs
    <3>2. QED
      BY <2>2, <3>1
  <2>4. w = u \o v
    BY DEF u
  <2> HIDE DEF w, m, n
  <2>5. QED
    BY <2>2, <2>3, <2>4
<1>2. /\ \A i \in 1 .. m : k[i] # "="
      /\ k # <<>> => k[1] # "#" /\ k[1] # "<"
  BY DEF Plain, Contains
<1> HIDE DEF w
<1>3. w # <<>> /\ w[1] # "#" /\ w[1] # "<" /\ Contains(w, "=")
  <2>1. w # <<>> /\ m + 1 \in 1 .. Len(w)
    BY <1>1
  <2>2. w[1] # "#" /\ w[1] # "<"
    <3>1. CASE m = 0
      BY <1>1, <3>1
    <3>2. CASE m # 0
      <4>1. k # <<>> /\ 1 \in 1 .. m
        BY <1>1, <3>2
      <4>2. QED
        BY <1>1, <1>2, <4>1
    <3>3. QED
      BY <3>1, <3>2
  <2>3. QED
    BY <1>1, <2>1, <2>2 DEF Contains
<1>4. IsA(w, "KVPAIR")
  BY <1>3 DEF IsA, DetectLineType
<1> DEFINE at == SelectInSeq(w, LAMBDA c : c = "=")
<1>5. at = m + 1
  <2> DEFINE I == {i \in 1 .. Len(w) : w[i] = "="}
  <2>1. at = IF I # {} THEN Min(I) ELSE 0
    BY DEF SelectInSeq
  <2>2. I \in SUBSET Nat /\ m + 1 \in I /\ \A i \in I : i >= m + 1
    <3>1. I \in SUBSET Nat /\ m + 1 \in I
      BY <1>1
    <3>2. ASSUME NEW i \in I, i < m + 1
          PROVE  FALSE
      <4>1. i \in 1 .. m /\ w[i] = "="
        BY <1>1, <3>2
      <4>2. QED
        BY <1>1, <1>2, <4>1
    <3>3. \A i \in I : i \in Nat
      BY <3>1
    <3>4. QED
      BY <1>1, <3>1, <3>2, <3>3
  <2> HIDE DEF I, at
  <2>3. Min(I) \in I /\ \A y \in I : Min(I) <= y
    BY <2>2, MinIsLeast
  <2>4. Min(I) <= m + 1 /\ Min(I) >= m + 1 /\ Min(I) \in Nat
    BY <2>2, <2>3
  <2>5. Min(I) = m + 1 /\ I # {}
    BY <1>1, <2>2, <2>4
  <2>6. QED
    BY <2>1, <2>5
<1>6. SubSeq(w, 1, m) = k
  <2>1. /\ SubSeq(w, 1, m) \in Seq(Symbols) /\ Len(SubSeq(w, 1, m)) = m
        /\ \A i \in 1 .. m : SubSeq(w, 1, m)[i] = w[i]
    BY <1>1
  <2>2. QED
    BY <1>1, <2>1, SeqEqual DEF Words
<1>7. SubSeq(w, m + 2, Len(w)) = v
  <2> DEFINE u == SubSeq(w, m + 2, m + 1 + n)
  <2>1. /\ u \in Seq(Symbols) /\ Len(u) = n
        /\ \A i \in 1 .. n : u[i] = w[m + 1 + i]
    <3>1. m + 2 \in Nat /\ m + 1 + n \in Nat /\ m + 1 + n - (m + 2) + 1 = n
          /\ \A i \in 1 .. n : m + 2 + i - 1 = m + 1 + i
      BY <1>1
    <3>2. \A i \in m + 2 .. m + 1 + n : w[i] \in Symbols
      BY <1>1
    <3> HIDE DEF m, n
    <3>3. QED
      BY <1>1, <3>1, <3>2
  <2> HIDE DEF u
  <2>2. u = v
    BY <1>1, <2>1, SeqEqual DEF Words
  <2>3. QED
    BY <1>1, <2>2 DEF u
<1>8. PairOf(w) = Pair(k, v)
  <2> HIDE DEF at
  <2>1. at - 1 = m /\ at + 1 = m + 2
    BY <1>1, <1>5
  <2>2. PairOf(w) = Pair(SubSeq(w, 1, at - 1), SubSeq(w, at + 1, Len(w)))
    BY DEF PairOf, at
  <2>3. QED
    BY <1>6, <1>7, <2>1, <2>2, Zenon
<1>9. QED
  BY <1>1, <1>4, <1>8 DEF w, Words

LEMMA BeginLineIs ==
  ASSUME NEW tag \in Words, tag # <<>> => tag[1] # "/"
  PROVE  LET w == <<"<">> \o tag \o <<">">> IN
         w \in Words /\ IsA(w, "SECTION_BEGIN") /\ SubSeq(w, 2, Len(w) - 1) = tag
<1> DEFINE u == <<"<">> \o tag
           w == u \o <<">">>
           n == Len(tag)
<1>1. tag \in Seq(Symbols) /\ <<"<">> \in Seq(Symbols) /\ <<">">> \in Seq(Symbols)
  BY MarksTyped DEF Words
<1>2. /\ u \in Seq(Symbols) /\ n \in Nat /\ Len(u) = 1 + n /\ u[1] = "<"
      /\ \A i \in 1 .. n : u[1 + i] = tag[i]
  BY <1>1, ConcatProperties
<1> HIDE DEF u
<1>3. /\ w \in Seq(Symbols) /\ Len(w) = n + 2 /\ w[1] = "<" /\ w[n + 2] = ">"
      /\ \A i \in 1 .. n : w[1 + i] = tag[i]
  BY <1>1, <1>2, ConcatProperties
<1>4. w = <<"<">> \o tag \o <<">">>
  BY DEF u
<1> HIDE DEF w
<1>5. w[2] # "/"
  <2>1. CASE n = 0
    BY <1>3, <2>1
  <2>2. CASE n # 0
    <3>1. tag # <<>> /\ 1 \in 1 .. n /\ 1 + 1 = 2
      BY <1>2, <2>2
    <3>2. w[2] = tag[1]
      BY <1>3, <3>1
    <3>3. QED
      BY <3>1, <3>2
  <2>3. QED
    BY <2>1, <2>2
<1>6. IsA(w, "SECTION_BEGIN")
  <2>1. w # <<>> /\ Last(w) = ">"
    BY <1>2, <1>3 DEF Last
  <2>2. QED
    BY <1>3, <1>5, <2>1 DEF IsA, DetectLineType
<1>7. SubSeq(w, 2, Len(w) - 1) = tag
  <2> DEFINE x == SubSeq(w, 2, n + 1)
  <2>1. x \in Seq(Symbols) /\ Len(x) = n /\ \A i \in 1 .. n : x[i] = w[1 + i]
    <3>1. \A i \in 2 .. n + 1 : w[i] \in Symbols
      BY <1>2, <1>3
    <3> HIDE DEF n
    <3>2. QED
      BY <1>2, <1>3, <3>1
  <2> HIDE DEF x
  <2>2. x = tag
    BY <1>1, <1>3, <2>1, SeqEqual
  <2>3. Len(w) - 1 = n + 1
    BY <1>2, <1>3
  <2>4. QED
    BY <2>2, <2>3 DEF x
<1>8. QED
  BY <1>3, <1>4, <1>6, <1>7, Zenon DEF Words

LEMMA EndLineIs ==
  ASSUME NEW tag \in Words
  PROVE  LET w == <<"<", "/">> \o tag \o <<">">> IN
         w \in Words /\ IsA(w, "SECTION_END") /\ SubSeq(w, 3, Len(w) - 1) = tag
<1> DEFINE u == <<"<", "/">> \o tag
           w == u \o <<">">>
           n == Len(tag)
<1>1. tag \in Seq(Symbols) /\ <<"<", "/">> \in Seq(Symbols) /\ <<">">> \in Seq(Symbols)
  BY MarksTyped DEF Words
<1>2. /\ u \in Seq(Symbols) /\ n \in Nat /\ Len(u) = 2 + n /\ u[1] = "<" /\ u[2] = "/"
      /\ \A i \in 1 .. n : u[2 + i] = tag[i]
  BY <1>1, ConcatProperties
<1> HIDE DEF u
<1>3. /\ w \in Seq(Symbols) /\ Len(w) = n + 3 /\ w[1] = "<" /\ w[2] = "/" /\ w[n + 3] = ">"
      /\ \A i \in 1 .. n : w[2 + i] = tag[i]
  BY <1>1, <1>2, ConcatProperties
<1>4. w = <<"<", "/">> \o tag \o <<">">>
  BY DEF u
<1> HIDE DEF w
<1>5. IsA(w, "SECTION_END")
  <2>1. w # <<>> /\ Last(w) = ">"
    BY <1>2, <1>3 DEF Last
  <2>2. QED
    BY <1>3, <2>1 DEF IsA, DetectLineType
<1>6. SubSeq(w, 3, Len(w) - 1) = tag
  <2> DEFINE x == SubSeq(w, 3, n + 2)
  <2>1. x \in Seq(Symbols) /\ Len(x) = n /\ \A i \in 1 .. n : x[i] = w[2 + i]
    <3>1. \A i \in 3 .. n + 2 : w[i] \in Symbols
      BY <1>2, <1>3
    <3> HIDE DEF n
    <3>2. QED
      BY <1>2, <1>3, <3>1
  <2> HIDE DEF x
  <2>2. x = tag
    BY <1>1, <1>3, <2>1, SeqEqual
  <2>3. Len(w) - 1 = n + 2
    BY <1>2, <1>3
  <2>4. QED
    BY <2>2, <2>3 DEF x
<1>7. QED
  BY <1>3, <1>4, <1>5, <1>6, Zenon DEF Words

(* What of s is appended to p, one element after the other.                *)
UpTo(p, s, i) == p \o SubSeq(s, 1, i)

LEMMA UpToIs ==
  ASSUME NEW S, NEW p \in Seq(S), NEW s \in Seq(S)
  PROVE  /\ UpTo(p, s, 0) = p /\ UpTo(p, s, Len(s)) = p \o s
         /\ \A i \in 0 .. Len(s) : UpTo(p, s, i) \in Seq(S)
         /\ \A i \in 1 .. Len(s) : UpTo(p, s, i) = Append(UpTo(p, s, i - 1), s[i])
<1>1. Len(s) \in Nat /\ \A i \in 1 .. Len(s) : s[i] \in S
  OBVIOUS
<1>2. ASSUME NEW i \in 0 .. Len(s)
      PROVE  SubSeq(s, 1, i) \in Seq(S)
  <2>1. \A j \in 1 .. i : s[j] \in S
    BY <1>1
  <2>2. QED
    BY <1>1, <2>1
<1>3. SubSeq(s, 1, 0) = <<>> /\ SubSeq(s, 1, Len(s)) = s
  BY SubSeqEmpty, SubSeqFull
<1>4. ASSUME NEW i \in 1 .. Len(s)
      PROVE  p \o SubSeq(s, 1, i) = Append(p \o SubSeq(s, 1, i - 1), s[i])
  <2> DEFINE b == SubSeq(s, 1, i - 1)
             e == s[i]
  <2>1. SubSeq(s, 1, i) = b \o <<e>>
    <3>1. 1 \in 1 .. Len(s) /\ i \in 1 .. Len(s)
      BY <1>1
    <3>2. QED
      BY <1>1, <3>1, SubSeqRecursiveSecond
  <2>2. b \in Seq(S) /\ e \in S
    <3>1. i - 1 \in 0 .. Len(s)
      BY <1>1
    <3>2. QED
      BY <1>1, <1>2, <3>1
  <2> HIDE DEF b, e
  <2>3. <<e>> \in Seq(S) /\ p \o b \in Seq(S)
    BY <2>2, ConcatProperties
  <2>4. p \o (b \o <<e>>) = (p \o b) \o <<e>>
    BY <2>2, <2>3, ConcatAssociative
  <2>5. Append(p \o b, e) = (p \o b) \o <<e>>
    BY <2>2, <2>3, AppendIsConcat
  <2>6. QED
    BY <2>1, <2>4, <2>5, Zenon DEF b, e
<1>5. \A i \in 0 .. Len(s) : p \o SubSeq(s, 1, i) \in Seq(S)
  BY <1>2, ConcatProperties
<1>6. p \o <<>> = p
  BY ConcatEmptySeq
<1>7. QED
  BY <1>3, <1>4, <1>5, <1>6, Zenon DEF UpTo

-----------------------------------------------------------------------------
(* The reader takes from a section's lines what the section holds.         *)

LEMMA SectionSet ==
  ASSUME NEW V, NEW x \in Section(V)
  PROVE  /\ x.tag \in Words /\ x.level \in Int /\ x.comments \in Comments
         /\ x.pairs \in Pairs /\ x.children \in Seq(V)
         /\ \A c \in Comments :
              /\ Noted(x, c) \in Section(V) /\ Noted(x, c).pairs = x.pairs
              /\ Noted(x, c).comments = c
              /\ Noted(x, c).level = x.level
              /\ \A d : Noted(Noted(x, c), d) = Noted(x, d)
         /\ \A p \in Pairs :
              /\ Holding(x, p) \in Section(V) /\ Holding(x, p).pairs = p
              /\ Holding(x, p).level = x.level
              /\ \A q : Holding(Holding(x, p), q) = Holding(x, q)
BY DEF Section, Noted, Holding

LEMMA PairSet ==
  ASSUME NEW p \in PairType
  PROVE  /\ p.key \in Words /\ p.value \in Words /\ p.comments \in Comments
         /\ \A c \in Comments : /\ Noted(p, c) \in PairType /\ Noted(p, c).comments = c
                                /\ \A d : Noted(Noted(p, c), d) = Noted(p, d)
         /\ Noted(Pair(p.key, p.value), p.comments) = p
         /\ Noted(Pair(p.key, p.value), <<>>) = Pair(p.key, p.value)
<1>1. p.key \in Words /\ p.value \in Words /\ p.comments \in Comments
  BY DEF PairType
<1>2. \A c : Noted(p, c) = [key |-> p.key, value |-> p.value, comments |-> c]
  BY DEF PairType, Noted
<1>3. \A k, v, c, d :
        Noted([key |-> k, value |-> v, comments |-> c], d)
          = [key |-> k, value |-> v, comments |-> d]
  BY DEF Noted
<1>4. p = [key |-> p.key, value |-> p.value, comments |-> p.comments]
  BY DEF PairType
<1>5. \A c \in Comments : Noted(p, c) \in PairType /\ Noted(p, c).comments = c
  BY <1>1, <1>2 DEF PairType
<1>6. \A c, d : Noted(Noted(p, c), d) = Noted(p, d)
  <2> TAKE c, d
  <2>1. Noted(Noted(p, c), d)
          = Noted([key |-> p.key, value |-> p.value, comments |-> c], d)
    BY <1>2, Zenon
  <2>2. QED
    BY <1>2, <1>3, <2>1
<1>7. \A c : Noted(Pair(p.key, p.value), c) = [key |-> p.key, value |-> p.value, comments |-> c]
  BY <1>3, Zenon DEF Pair
<1>8. QED
  BY <1>1, <1>4, <1>5, <1>6, <1>7, Zenon DEF Pair

Marked(c) == \A i \in 1 .. Len(c) : c[i] # <<>> /\ c[i][1] = "#"

LEMMA ReadsSteps ==
  ASSUME NEW st, NEW lines,
         \A i \in 1 .. Len(lines) : ReadsLine(st[i - 1], lines[i], st[i])
  PROVE  ReadsText(lines, st[0], st[Len(lines)])
BY Zenon DEF ReadsText, IsReading

LEMMA UpToComments ==
  ASSUME NEW p \in Comments, NEW c \in Comments
  PROVE  /\ Len(c) \in Nat /\ p \o c \in Comments
         /\ UpTo(p, c, 0) = p /\ UpTo(p, c, Len(c)) = p \o c
         /\ \A i \in 0 .. Len(c) : UpTo(p, c, i) \in Comments
         /\ \A i \in 1 .. Len(c) : UpTo(p, c, i) = Append(UpTo(p, c, i - 1), c[i])
<1>1. p \in Seq(Words) /\ c \in Seq(Words)
  BY DEF Comments
<1>2. Len(c) \in Nat /\ p \o c \in Comments
  BY <1>1 DEF Comments
<1>3. QED
  BY ONLY <1>1, <1>2, UpToIs DEF Comments

LEMMA ReadsComments ==
  ASSUME NEW V, NEW r \in Seq(Section(V)), r # <<>>, NEW x \in Section(V), x.pairs = <<>>,
         NEW c \in Comments, Marked(c)
  PROVE  ReadsText(c, Append(r, x), Append(r, Noted(x, x.comments \o c)))
<1> DEFINE n == Len(c)
           d(i) == UpTo(x.comments, c, i)
           st == [i \in 0 .. n |-> Append(r, Noted(x, d(i)))]
<1>1. /\ n \in Nat /\ d(0) = x.comments /\ d(n) = x.comments \o c
      /\ \A i \in 0 .. n : d(i) \in Comments
      /\ \A i \in 1 .. n : d(i) = Append(d(i - 1), c[i])
  <2>1. x.comments \in Comments
    BY SectionSet
  <2>2. QED
    BY <2>1, UpToComments, Zenon
<1>2. Noted(x, x.comments) = x
  BY DEF Noted, Section
<1> HIDE DEF d
<1>3. ASSUME NEW i \in 1 .. n
      PROVE  ReadsLine(st[i - 1], c[i], st[i])
  <2> DEFINE y == Noted(x, d(i - 1))
  <2>1. i - 1 \in 0 .. n /\ d(i - 1) \in Comments
    BY <1>1
  <2>2. st[i - 1] = Append(r, y) /\ st[i] = Append(r, Noted(x, d(i)))
    BY <2>1
  <2> HIDE DEF st
  <2>3. /\ y \in Section(V) /\ y.pairs = <<>> /\ y.comments = d(i - 1)
        /\ Noted(y, d(i)) = Noted(x, d(i))
    BY <2>1, SectionSet
  <2> HIDE DEF y
  <2>4. Commented(y, c[i]) = Noted(x, d(i))
    BY <1>1, <2>3, Zenon DEF Commented
  <2>5. Front(Append(r, y)) = r /\ Last(Append(r, y)) = y
    BY <2>3, OneMore
  <2>6. c[i] # <<>> /\ c[i][1] = "#"
    BY DEF Marked
  <2>7. QED
    BY <2>2, <2>4, <2>5, <2>6, Zenon DEF ReadsLine
<1>4. st[0] = Append(r, x) /\ st[n] = Append(r, Noted(x, x.comments \o c))
  <2>1. 0 \in 0 .. n /\ n \in 0 .. n
    BY <1>1
  <2>2. st[0] = Append(r, Noted(x, d(0))) /\ st[n] = Append(r, Noted(x, d(n)))
    BY <2>1
  <2>3. QED
    BY <1>1, <1>2, <2>2, Zenon
<1> HIDE DEF st
<1>5. QED
  BY <1>3, <1>4, ReadsSteps

(* A pair with its comments. *)
LEMMA ReadsPairLines ==
  ASSUME NEW V, NEW r \in Seq(Section(V)), r # <<>>, NEW x \in Section(V),
         NEW p \in PairType, Plain(p.key), Marked(p.comments)
  PROVE  ReadsText(PairLines(p), Append(r, x), Append(r, Paired(x, p)))
<1> DEFINE c == p.comments
           n == Len(c)
           q == Pair(p.key, p.value)
           d(i) == UpTo(<<>>, c, i)
           st == [i \in 0 .. n |-> Append(r, Paired(x, Noted(q, d(i))))]
           w == p.key \o <<"=">> \o p.value
<1>1. /\ p.key \in Words /\ p.value \in Words /\ c \in Comments
      /\ q \in PairType /\ q.comments = <<>>
  BY PairSet, EmptyIsTyped DEF Pair, PairType
<1>2. /\ n \in Nat /\ d(0) = <<>> /\ d(n) = <<>> \o c /\ <<>> \o c = c
      /\ \A i \in 0 .. n : d(i) \in Comments
      /\ \A i \in 1 .. n : d(i) = Append(d(i - 1), c[i])
  <2>1. <<>> \in Comments /\ c \in Comments
    BY <1>1 DEF Comments
  <2>2. <<>> \o c = c
    BY <2>1, ConcatEmptySeq DEF Comments
  <2>3. QED
    BY <2>1, <2>2, UpToComments, Zenon
<1>3. Noted(q, <<>>) = q /\ Noted(q, c) = p
  BY PairSet
<1> HIDE DEF d
<1>4. w \in Words /\ IsA(w, "KVPAIR") /\ PairOf(w) = q
  BY <1>1, PairLineIs
<1> HIDE DEF w, q
<1>5. ReadsText(<<w>>, Append(r, x), Append(r, Paired(x, q)))
  <2>1. Front(Append(r, x)) = r /\ Last(Append(r, x)) = x
    BY OneMore
  <2>2. ReadsLine(Append(r, x), w, Append(r, Paired(x, q)))
    BY <1>4, <2>1, Zenon DEF ReadsLine
  <2>3. QED
    BY <2>2, ReadsOne
<1>6. ASSUME NEW i \in 1 .. n
      PROVE  ReadsLine(st[i - 1], c[i], st[i])
  <2> DEFINE e == Noted(q, d(i - 1))
             y == Paired(x, e)
  <2>1. i - 1 \in 0 .. n /\ d(i - 1) \in Comments
    BY <1>2
  <2>2. st[i - 1] = Append(r, y) /\ st[i] = Append(r, Paired(x, Noted(q, d(i))))
    BY <2>1
  <2> HIDE DEF st
  <2>3. /\ e \in PairType /\ e.comments = d(i - 1) /\ Noted(e, d(i)) = Noted(q, d(i))
    BY <1>1, <2>1, PairSet
  <2> HIDE DEF e
  <2>4. x.pairs \in Seq(PairType)
    BY SectionSet DEF Pairs, PairType
  <2> DEFINE ps == Append(x.pairs, e)
  <2>5. ps \in Seq(PairType) /\ ps # <<>> /\ Front(ps) = x.pairs /\ Last(ps) = e
    BY <2>3, <2>4, OneMore
  <2>6. y = Holding(x, ps) /\ ps \in Pairs
    BY <2>5 DEF Paired, Pairs, PairType
  <2> HIDE DEF ps, y
  <2>7. /\ y \in Section(V) /\ y.pairs = ps
        /\ \A z : Holding(y, z) = Holding(x, z)
    BY <2>6, SectionSet
  <2>8. Commented(y, c[i]) = Paired(x, Noted(q, d(i)))
    <3>1. y.pairs # <<>>
      BY <2>5, <2>7
    <3>2. Commented(y, c[i]) = Holding(x, Append(x.pairs, Noted(q, d(i))))
      BY <1>2, <2>3, <2>5, <2>7, <3>1, Zenon DEF Commented
    <3>3. QED
      BY <3>2 DEF Paired
  <2>9. Front(Append(r, y)) = r /\ Last(Append(r, y)) = y
    BY <2>7, OneMore
  <2>10. c[i] # <<>> /\ c[i][1] = "#"
    BY DEF Marked
  <2>11. QED
    BY <2>2, <2>8, <2>9, <2>10, Zenon DEF ReadsLine, y
<1>7. st[0] = Append(r, Paired(x, q)) /\ st[n] = Append(r, Paired(x, p))
  BY <1>2, <1>3
<1> HIDE DEF st
<1>8. ReadsText(c, Append(r, Paired(x, q)), Append(r, Paired(x, p)))
  BY <1>6, <1>7, ReadsSteps
<1>9. <<w>> \in Seq(Words) /\ c \in Seq(Words)
  BY <1>1, <1>4 DEF Comments
<1>10. ReadsText(<<w>> \o c, Append(r, x), Append(r, Paired(x, p)))
  BY <1>5, <1>8, <1>9, ReadsBoth
<1>11. QED
  BY <1>10 DEF PairLines, w

LEMMA ReadsFlat ==
  ASSUME NEW s \in Seq(Seq(Words)), NEW st,
         \A i \in 1 .. Len(s) : ReadsText(s[i], st[i - 1], st[i])
  PROVE  ReadsText(FlattenSeq(s), st[0], st[Len(s)])
<1>1. PICK g : IsFlat(g, s, Words)
  BY FlatExists
<1> DEFINE n == Len(s)
           S == {k \in 0 .. n : ReadsText(g[k], st[0], st[k])}
<1>2. n \in Nat /\ \A i \in 1 .. n : s[i] \in Seq(Words)
  OBVIOUS
<1>3. g[0] = <<>> /\ \A i \in 0 .. n : g[i] \in Seq(Words)
  BY <1>1 DEF IsFlat
<1>4. 0 \in S
  <2>1. ReadsText(g[0], st[0], st[0])
    BY <1>3, ReadsNothing
  <2>2. 0 \in 0 .. n
    BY <1>2
  <2>3. QED
    BY <2>1, <2>2
<1>5. ASSUME NEW i \in 1 .. n, i - 1 \in S
      PROVE  i \in S
  <2>1. g[i] = g[i - 1] \o s[i]
    BY <1>1, Zenon DEF IsFlat
  <2>2. ReadsText(g[i - 1], st[0], st[i - 1])
    BY <1>5
  <2>3. i - 1 \in 0 .. n /\ i \in 0 .. n
    BY <1>2
  <2>4. g[i - 1] \in Seq(Words) /\ s[i] \in Seq(Words) /\ ReadsText(s[i], st[i - 1], st[i])
    BY <1>2, <1>3, <2>3
  <2>5. ReadsText(g[i - 1] \o s[i], st[0], st[i])
    BY <2>2, <2>4, ReadsBoth
  <2>6. QED
    BY <2>1, <2>3, <2>5
<1> HIDE DEF S
<1>6. \A i \in 0 .. n : i \in S
  BY ONLY <1>2, <1>4, <1>5, Climb
<1>7. n \in S
  BY <1>2, <1>6
<1>8. FlattenSeq(s) = g[n]
  BY <1>1, FlattenIs
<1>9. QED
  BY <1>7, <1>8 DEF S

LEMMA UpToPairs ==
  ASSUME NEW p \in Pairs, NEW c \in Pairs
  PROVE  /\ Len(c) \in Nat /\ p \o c \in Pairs
         /\ UpTo(p, c, 0) = p /\ UpTo(p, c, Len(c)) = p \o c
         /\ \A i \in 0 .. Len(c) : UpTo(p, c, i) \in Pairs
         /\ \A i \in 1 .. Len(c) : UpTo(p, c, i) = Append(UpTo(p, c, i - 1), c[i])
<1> DEFINE S == [key : Words, value : Words, comments : Comments]
<1>1. p \in Seq(S) /\ c \in Seq(S) /\ Pairs = Seq(S)
  BY DEF Pairs
<1> HIDE DEF S
<1>2. Len(c) \in Nat /\ p \o c \in Seq(S)
  BY <1>1
<1>3. /\ UpTo(p, c, 0) = p /\ UpTo(p, c, Len(c)) = p \o c
      /\ \A i \in 0 .. Len(c) : UpTo(p, c, i) \in Seq(S)
      /\ \A i \in 1 .. Len(c) : UpTo(p, c, i) = Append(UpTo(p, c, i - 1), c[i])
  BY ONLY <1>1, UpToIs
<1>4. QED
  BY <1>1, <1>2, <1>3

(* What the reader has after each of the pairs. *)
PairsUpTo(r, x, ps) == [i \in 0 .. Len(ps) |-> Append(r, Holding(x, UpTo(x.pairs, ps, i)))]

LEMMA PairsUpToIs ==
  ASSUME NEW V, NEW x \in Section(V), NEW r, NEW ps \in Pairs
  PROVE  LET st == PairsUpTo(r, x, ps) IN
         /\ st[0] = Append(r, x) /\ st[Len(ps)] = Append(r, Holding(x, x.pairs \o ps))
         /\ \A i \in 1 .. Len(ps) : \E y \in Section(V) :
              st[i - 1] = Append(r, y) /\ st[i] = Append(r, Paired(y, ps[i]))
<1> DEFINE n == Len(ps)
           d(i) == UpTo(x.pairs, ps, i)
           st == [i \in 0 .. n |-> Append(r, Holding(x, d(i)))]
<1>1. /\ n \in Nat /\ d(0) = x.pairs /\ d(n) = x.pairs \o ps
      /\ \A i \in 0 .. n : d(i) \in Pairs
      /\ \A i \in 1 .. n : d(i) = Append(d(i - 1), ps[i])
  <2>1. x.pairs \in Pairs
    BY SectionSet
  <2>2. QED
    BY <2>1, UpToPairs, Zenon
<1>2. Holding(x, x.pairs) = x
  BY DEF Holding, Section
<1> HIDE DEF d
<1>3. ASSUME NEW i \in 1 .. n
      PROVE  \E y \in Section(V) :
               st[i - 1] = Append(r, y) /\ st[i] = Append(r, Paired(y, ps[i]))
  <2>1. i - 1 \in 0 .. n /\ d(i - 1) \in Pairs
    BY <1>1
  <2>2. st[i - 1] = Append(r, Holding(x, d(i - 1))) /\ st[i] = Append(r, Holding(x, d(i)))
    BY <2>1
  <2> HIDE DEF st
  <2> DEFINE y == Holding(x, d(i - 1))
  <2>3. y \in Section(V) /\ y.pairs = d(i - 1) /\ Holding(y, d(i)) = Holding(x, d(i))
    BY <2>1, SectionSet
  <2>4. Paired(y, ps[i]) = Holding(x, d(i))
    <3> HIDE DEF y
    <3>1. QED
      BY <1>1, <2>3, Zenon DEF Paired
  <2>5. QED
    BY <2>2, <2>3, <2>4
<1>4. st[0] = Append(r, Holding(x, d(0))) /\ st[n] = Append(r, Holding(x, d(n)))
  <2>1. 0 \in 0 .. n /\ n \in 0 .. n
    BY <1>1
  <2>2. QED
    BY <2>1
<1>5. st = PairsUpTo(r, x, ps)
  BY DEF PairsUpTo, d
<1> HIDE DEF st
<1>6. st[0] = Append(r, x) /\ st[n] = Append(r, Holding(x, x.pairs \o ps))
  BY <1>1, <1>2, <1>4, Zenon
<1>7. QED
  BY <1>3, <1>5, <1>6, Zenon

LEMMA ReadsPairs ==
  ASSUME NEW V, NEW r \in Seq(Section(V)), r # <<>>, NEW x \in Section(V), NEW ps \in Pairs,
         \A i \in 1 .. Len(ps) : Plain(ps[i].key) /\ Marked(ps[i].comments)
  PROVE  ReadsText(FlattenSeq([i \in 1 .. Len(ps) |-> PairLines(ps[i])]),
                   Append(r, x), Append(r, Holding(x, x.pairs \o ps)))
<1> DEFINE s == [i \in 1 .. Len(ps) |-> PairLines(ps[i])]
           st == PairsUpTo(r, x, ps)
<1>1. Len(ps) \in Nat /\ \A i \in 1 .. Len(ps) : ps[i] \in PairType
  <2>1. ps \in Seq(PairType)
    BY DEF Pairs, PairType
  <2>2. QED
    BY <2>1
<1>2. \A i \in 1 .. Len(ps) : PairLines(ps[i]) \in Seq(Words)
  BY <1>1, PairLinesTyped DEF Comments
<1>3. s \in Seq(Seq(Words)) /\ Len(s) = Len(ps) /\ \A i \in 1 .. Len(ps) : s[i] = PairLines(ps[i])
  BY <1>1, <1>2
<1> HIDE DEF s, st
<1>4. ASSUME NEW i \in 1 .. Len(ps)
      PROVE  ReadsText(s[i], st[i - 1], st[i])
  <2>1. PICK y \in Section(V) : st[i - 1] = Append(r, y) /\ st[i] = Append(r, Paired(y, ps[i]))
    BY PairsUpToIs DEF st
  <2>2. ReadsText(PairLines(ps[i]), Append(r, y), Append(r, Paired(y, ps[i])))
    BY <1>1, ReadsPairLines
  <2>3. QED
    BY <1>3, <2>1, <2>2
<1>5. st[0] = Append(r, x) /\ st[Len(ps)] = Append(r, Holding(x, x.pairs \o ps))
  BY PairsUpToIs DEF st
<1>6. ReadsText(FlattenSeq(s), st[0], st[Len(s)])
  BY <1>3, <1>4, ReadsFlat
<1>7. QED
  BY <1>3, <1>5, <1>6 DEF s

LEMMA RawLineIs ==
  ASSUME NEW w \in Words, IsRaw(w), Plain(Front(w))
  PROVE  /\ Front(w) \in Words /\ IsA(w, "KVPAIR") /\ PairOf(w) = Pair(Front(w), <<>>)
<1>1. w \in Seq(Symbols) /\ w # <<>> /\ Last(w) = "="
  BY DEF Words, IsRaw
<1>2. Front(w) \in Seq(Symbols) /\ Len(w) \in Nat \ {0} /\ Len(Front(w)) = Len(w) - 1
      /\ \A i \in 1 .. Len(w) - 1 : Front(w)[i] = w[i]
  BY <1>1, FrontLast
<1> DEFINE k == Front(w)
           z == k \o <<"=">>
<1>3. z \in Seq(Symbols) /\ Len(z) = Len(k) + 1 /\ z[Len(k) + 1] = "="
      /\ \A i \in 1 .. Len(k) : z[i] = k[i]
  <2>1. <<"=">> \in Seq(Symbols)
    BY MarksTyped DEF Words
  <2> HIDE DEF k
  <2>2. k \in Seq(Symbols)
    BY <1>2 DEF k
  <2>3. QED
    BY <2>1, <2>2, ConcatProperties
<1>4. w[Len(w)] = "="
  BY <1>1 DEF Last
<1> HIDE DEF z
<1>5. z = w
  <2>1. Len(z) = Len(w) /\ \A i \in 1 .. Len(w) : z[i] = w[i]
    BY <1>2, <1>3, <1>4
  <2>2. QED
    BY <1>1, <1>3, <2>1, SeqEqual
<1>6. z \o <<>> = z
  BY <1>3, ConcatEmptySeq
<1>7. k \in Words /\ <<>> \in Words
  BY <1>2, EmptyIsTyped DEF Words
<1>8. IsA(z \o <<>>, "KVPAIR") /\ PairOf(z \o <<>>) = Pair(k, <<>>)
  BY <1>7, PairLineIs DEF z
<1>9. QED
  BY <1>5, <1>6, <1>7, <1>8, Zenon

LEMMA ReadsRaw ==
  ASSUME NEW V, NEW r \in Seq(Section(V)), r # <<>>, NEW x \in Section(V), NEW raw \in Comments,
         \A i \in 1 .. Len(raw) : IsRaw(raw[i]) /\ Plain(Front(raw[i]))
  PROVE  /\ RawPairs(raw) \in Pairs
         /\ ReadsText(raw, Append(r, x), Append(r, Holding(x, x.pairs \o RawPairs(raw))))
<1> DEFINE n == Len(raw)
           ps == RawPairs(raw)
           st == PairsUpTo(r, x, ps)
<1>1. raw \in Seq(Words) /\ n \in Nat /\ DOMAIN raw = 1 .. n /\ \A i \in 1 .. n : raw[i] \in Words
  BY DEF Comments
<1>2. \A i \in 1 .. n :
        Pair(Front(raw[i]), <<>>) \in [key : Words, value : Words, comments : Comments]
  BY <1>1, RawLineIs, EmptyIsTyped DEF Pair
<1>3. ps \in Pairs /\ Len(ps) = n /\ \A i \in 1 .. n : ps[i] = Pair(Front(raw[i]), <<>>)
  <2>1. ps = [i \in 1 .. n |-> Pair(Front(raw[i]), <<>>)]
    BY <1>1, Zenon DEF RawPairs
  <2> HIDE DEF ps
  <2>2. QED
    BY <1>1, <1>2, <2>1 DEF Pairs
<1> HIDE DEF st, ps
<1>4. ASSUME NEW i \in 1 .. n
      PROVE  ReadsLine(st[i - 1], raw[i], st[i])
  <2>1. PICK y \in Section(V) : st[i - 1] = Append(r, y) /\ st[i] = Append(r, Paired(y, ps[i]))
    BY <1>3, PairsUpToIs DEF st
  <2>2. IsA(raw[i], "KVPAIR") /\ PairOf(raw[i]) = ps[i]
    BY <1>1, <1>3, RawLineIs
  <2>3. Front(Append(r, y)) = r /\ Last(Append(r, y)) = y
    BY OneMore
  <2>4. QED
    BY <2>1, <2>2, <2>3, Zenon DEF ReadsLine
<1>5. st[0] = Append(r, x) /\ st[n] = Append(r, Holding(x, x.pairs \o ps))
  BY <1>3, PairsUpToIs DEF st
<1>6. ReadsText(raw, st[0], st[n])
  BY <1>4, ReadsSteps
<1>7. QED
  BY <1>3, <1>5, <1>6 DEF ps

LEMMA RawPairsTyped ==
  ASSUME NEW raw \in Comments
  PROVE  RawPairs(raw) \in Pairs
<1>1. raw \in Seq(Seq(Symbols)) /\ Len(raw) \in Nat /\ DOMAIN raw = 1 .. Len(raw)
      /\ \A i \in 1 .. Len(raw) : raw[i] \in Seq(Symbols)
  BY DEF Comments, Words
<1>2. \A i \in 1 .. Len(raw) : Front(raw[i]) \in Words
  <2> TAKE i \in 1 .. Len(raw)
  <2>1. raw[i] \in Seq(Symbols) /\ Len(raw[i]) - 1 \in Int /\ Len(raw[i]) - 1 <= Len(raw[i])
    BY <1>1
  <2>2. SubSeq(raw[i], 1, Len(raw[i]) - 1) \in Seq(Symbols)
    BY <2>1, SubSeqTyped
  <2>3. QED
    BY <2>2 DEF Front, Words
<1>3. \A i \in 1 .. Len(raw) :
        Pair(Front(raw[i]), <<>>) \in [key : Words, value : Words, comments : Comments]
  BY <1>2, EmptyIsTyped DEF Pair
<1>4. RawPairs(raw) = [i \in 1 .. Len(raw) |-> Pair(Front(raw[i]), <<>>)]
  BY <1>1, Zenon DEF RawPairs
<1>5. QED
  BY <1>1, <1>3, <1>4 DEF Pairs

(* The views of a tree are sections, among themselves.                     *)
LEMMA ViewTyped ==
  ASSUME NEW t, IsTree(t), NEW O, NEW v, IsView(t, O, v),
         NEW V, \A n \in 1 .. Len(t) : v[n] \in V
  PROVE  \A n \in 1 .. Len(t) : v[n] \in Section(V)
<1> TAKE n \in 1 .. Len(t)
<1> DEFINE U == {i \in 1 .. Len(t) : t[i].parent = n /\ i \notin O}
           kids == KidsBut(t, O, n)
<1>1. kids \in Seq(U) /\ \A i \in U : v[i] \in V
  BY KidsAre
<1> HIDE DEF U, kids
<1>2. Seen(v, kids) \in Seq(V)
  BY <1>1, SeenTyped
<1>3. /\ t[n].tag \in Words /\ t[n].level \in Int /\ t[n].comments \in Comments
      /\ t[n].pairs \in Pairs /\ RawPairs(t[n].raw) \in Pairs
  BY TreeIs, RawPairsTyped
<1>4. RawPairs(t[n].raw) \o t[n].pairs \in Pairs
  BY <1>3, UpToPairs
<1>5. v[n] = Shown(t[n], Seen(v, kids))
  BY ViewOf DEF kids
<1>6. QED
  BY <1>2, <1>3, <1>4, <1>5 DEF Shown, Section

(* The text of node n adds the view of n to the section it stands in.      *)
SectionReadsAs(V, t, v, text, n) ==
  \A r \in Seq(Section(V)), x \in Section(V) :
    x.level = t[n].level - 1 =>
      ReadsText(text[n], Append(r, x), Append(r, Enlarged(x, v[n])))

ChildrenRead(V, t, v, text, n) ==
  \A i \in 1 .. Len(t) : t[i].parent = n =>
    /\ text[i] \in Comments
    /\ SectionReadsAs(V, t, v, text, i)

LEMMA ReadsChildren ==
  ASSUME NEW V, NEW t, IsTree(t), NEW v, \A i \in 1 .. Len(t) : v[i] \in V, NEW text, NEW n,
         ChildrenRead(V, t, v, text, n),
         NEW r \in Seq(Section(V)), NEW x \in Section(V), x.children = <<>>,
         \A i \in 1 .. Len(t) : t[i].parent = n => t[i].level = x.level + 1
  PROVE  ReadsText(ChildLines(t, text, n), Append(r, x),
                   Append(r, Above(x, Seen(v, KidsBut(t, {}, n)))))
<1> DEFINE N == Len(t)
           s == [i \in 1 .. N |-> IF t[i].parent = n THEN text[i] ELSE <<>>]
           k == [i \in 1 .. N |-> IF t[i].parent = n /\ i \notin {} THEN <<i>> ELSE <<>>]
<1>1. N \in Nat
  BY TreeIs
<1>2. /\ s \in Seq(Seq(Words)) /\ Len(s) = N
      /\ \A i \in 1 .. N : s[i] = IF t[i].parent = n THEN text[i] ELSE <<>>
  <2>1. \A i \in 1 .. N : (IF t[i].parent = n THEN text[i] ELSE <<>>) \in Seq(Words)
    BY DEF ChildrenRead, Comments
  <2>2. QED
    BY <1>1, <2>1
<1>3. /\ k \in Seq(Seq(1 .. N)) /\ Len(k) = N
      /\ \A i \in 1 .. N : k[i] = IF t[i].parent = n THEN <<i>> ELSE <<>>
  <2>1. \A i \in 1 .. N : (IF t[i].parent = n /\ i \notin {} THEN <<i>> ELSE <<>>) \in Seq(1 .. N)
    <3>1. \A U : <<>> \in Seq(U) /\ \A i \in U : <<i>> \in Seq(U)
      OBVIOUS
    <3>2. <<>> \in Seq(1 .. N) /\ \A i \in 1 .. N : <<i>> \in Seq(1 .. N)
      BY <3>1
    <3>3. QED
      BY <3>2
  <2>2. QED
    BY <1>1, <2>1
<1>4. ChildLines(t, text, n) = FlattenSeq(s) /\ KidsBut(t, {}, n) = FlattenSeq(k)
  BY Zenon DEF ChildLines, KidsBut
<1> HIDE DEF s, k
<1>5. PICK g : IsFlat(g, k, 1 .. N)
  BY <1>3, FlatExists
<1> DEFINE st == [i \in 0 .. N |-> Append(r, Above(x, Seen(v, g[i])))]
<1>6. g[0] = <<>> /\ \A i \in 0 .. N : g[i] \in Seq(1 .. N)
  BY <1>3, <1>5 DEF IsFlat
<1>7. \A i \in 0 .. N : st[i] = Append(r, Above(x, Seen(v, g[i])))
  OBVIOUS
<1> HIDE DEF st
<1>8. ASSUME NEW i \in 1 .. N
      PROVE  ReadsText(s[i], st[i - 1], st[i])
  <2>1. i - 1 \in 0 .. N /\ i \in 0 .. N /\ g[i - 1] \in Seq(1 .. N)
    BY <1>1, <1>6
  <2>2. g[i] = g[i - 1] \o k[i]
    BY <1>3, <1>5, Zenon DEF IsFlat
  <2>3. CASE t[i].parent = n
    <3> DEFINE y == Above(x, Seen(v, g[i - 1]))
    <3>1. Seen(v, g[i - 1]) \in Seq(V)
      BY <2>1, SeenTyped
    <3>2. /\ y \in Section(V) /\ y.level = x.level /\ y.children = Seen(v, g[i - 1])
          /\ \A c : Above(y, c) = Above(x, c)
      BY <3>1 DEF Above, Section
    <3> HIDE DEF y
    <3>3. g[i] = Append(g[i - 1], i)
      BY <1>3, <2>1, <2>2, <2>3, AppendIsConcat
    <3>4. Seen(v, g[i]) = Append(Seen(v, g[i - 1]), v[i])
      BY <2>1, <3>3, SeenMore
    <3>5. Enlarged(y, v[i]) = Above(x, Seen(v, g[i]))
      BY <3>2, <3>4, Zenon DEF Enlarged
    <3>6. t[i].level = x.level + 1 /\ x.level \in Int
      BY <2>3 DEF Section
    <3>7. y.level = t[i].level - 1
      BY <3>2, <3>6
    <3>8. ReadsText(text[i], Append(r, y), Append(r, Enlarged(y, v[i])))
      BY <2>3, <3>2, <3>7 DEF ChildrenRead, SectionReadsAs
    <3>9. s[i] = text[i]
      BY <1>2, <2>3
    <3>10. st[i - 1] = Append(r, y) /\ st[i] = Append(r, Enlarged(y, v[i]))
      BY <1>7, <2>1, <3>5 DEF y
    <3>11. QED
      BY <3>8, <3>9, <3>10
  <2>4. CASE t[i].parent # n
    <3>1. g[i] = g[i - 1] /\ s[i] = <<>>
      BY <1>2, <1>3, <2>1, <2>2, <2>4, ConcatEmptySeq
    <3>2. st[i] = st[i - 1]
      BY <1>7, <2>1, <3>1
    <3>3. QED
      BY <3>1, <3>2, ReadsNothing
  <2>5. QED
    BY <2>3, <2>4
<1>9. ReadsText(FlattenSeq(s), st[0], st[N])
  BY <1>2, <1>8, ReadsFlat
<1>10. FlattenSeq(k) = g[N]
  BY <1>3, <1>5, FlattenIs
<1>11. Above(x, Seen(v, <<>>)) = x
  <2>1. Seen(v, <<>>) = <<>>
    BY DEF Seen
  <2>2. QED
    BY <2>1 DEF Above, Section
<1>12. st[0] = Append(r, x) /\ st[N] = Append(r, Above(x, Seen(v, FlattenSeq(k))))
  <2>1. 0 \in 0 .. N /\ N \in 0 .. N
    BY <1>1
  <2>2. QED
    BY <1>6, <1>7, <1>10, <1>11, <2>1
<1>13. QED
  BY <1>4, <1>9, <1>12

(* What the parser and the editing calls keep of a tree: comments are      *)
(* marked, raw lines are pairs without a value, and a section is one level *)
(* deeper than the one it stands in.                                       *)
TidyNode(x) ==
  /\ Marked(x.comments)
  /\ \A i \in 1 .. Len(x.raw) : IsRaw(x.raw[i])
  /\ \A i \in 1 .. Len(x.pairs) : Marked(x.pairs[i].comments)

Tidy(t) ==
  /\ t[Root].level = -1
  /\ \A n \in 1 .. Len(t) :
       /\ TidyNode(t[n])
       /\ t[n].parent # NoNode => t[n].level = t[t[n].parent].level + 1

PlainNode(x) ==
  /\ x.tag # <<>> => x.tag[1] # "/"
  /\ \A i \in 1 .. Len(x.pairs) : Plain(x.pairs[i].key)
  /\ \A i \in 1 .. Len(x.raw) : Plain(Front(x.raw[i]))

(* The lines of one section, between those that begin and end it.          *)
LEMMA ReadsInside ==
  ASSUME NEW V, NEW t, IsTree(t), Tidy(t), NEW v, IsView(t, {}, v),
         \A i \in 1 .. Len(t) : v[i] \in V, NEW text, NEW n \in 1 .. Len(t),
         PlainNode(t[n]), ChildrenRead(V, t, v, text, n),
         NEW r \in Seq(Section(V)), r # <<>>, NEW x \in Section(V),
         x.comments = <<>>, x.pairs = <<>>, x.children = <<>>,
         x.tag = t[n].tag, x.level = t[n].level
  PROVE  ReadsText(t[n].comments \o t[n].raw
                     \o FlattenSeq([i \in 1 .. Len(t[n].pairs) |-> PairLines(t[n].pairs[i])])
                     \o ChildLines(t, text, n),
                   Append(r, x), Append(r, v[n]))
<1> DEFINE c == t[n].comments
           raw == t[n].raw
           ps == t[n].pairs
           lines == FlattenSeq([i \in 1 .. Len(ps) |-> PairLines(ps[i])])
           kids == Seen(v, KidsBut(t, {}, n))
           x1 == Noted(x, c)
           x2 == Holding(x1, RawPairs(raw))
           x3 == Holding(x2, RawPairs(raw) \o ps)
           x4 == Above(x3, kids)
<1>1. c \in Comments /\ raw \in Comments /\ ps \in Pairs
  BY TreeIs
<1>2. /\ Marked(c) /\ \A i \in 1 .. Len(raw) : IsRaw(raw[i]) /\ Plain(Front(raw[i]))
      /\ \A i \in 1 .. Len(ps) : Plain(ps[i].key) /\ Marked(ps[i].comments)
  BY DEF Tidy, TidyNode, PlainNode
<1>3. lines \in Seq(Words) /\ ChildLines(t, text, n) \in Seq(Words)
  <2>1. \A i \in 1 .. Len(ps) : PairLines(ps[i]) \in Seq(Words)
    <3>1. ps \in Seq(PairType)
      BY <1>1 DEF Pairs, PairType
    <3> HIDE DEF ps
    <3>2. QED
      BY <3>1, PairLinesTyped DEF Comments
  <2>2. Len(ps) \in Nat
    BY <1>1 DEF Pairs
  <2>3. [i \in 1 .. Len(ps) |-> PairLines(ps[i])] \in Seq(Seq(Words))
    BY <2>1, <2>2
  <2>4. lines \in Seq(Words)
    BY <2>3, FlattenTyped
  <2>5. ChildLines(t, text, n) \in Seq(Words)
    BY ChildLinesTyped DEF ChildrenRead, Comments
  <2>6. QED
    BY <2>4, <2>5
<1>4. ReadsText(c, Append(r, x), Append(r, x1)) /\ x1 \in Section(V) /\ x1.pairs = <<>>
  <2>1. <<>> \o c = c
    BY <1>1, ConcatEmptySeq DEF Comments
  <2>2. ReadsText(c, Append(r, x), Append(r, Noted(x, x.comments \o c)))
    BY ONLY <1>1, <1>2, ReadsComments, r \in Seq(Section(V)), r # <<>>, x \in Section(V),
       x.pairs = <<>>
  <2>3. QED
    BY <1>1, <2>1, <2>2, SectionSet
<1>5. /\ ReadsText(raw, Append(r, x1), Append(r, x2))
      /\ x2 \in Section(V) /\ x2.pairs = RawPairs(raw) /\ RawPairs(raw) \in Pairs
  <2> HIDE DEF x1, raw
  <2>1. /\ RawPairs(raw) \in Pairs
        /\ ReadsText(raw, Append(r, x1), Append(r, Holding(x1, x1.pairs \o RawPairs(raw))))
    BY <1>1, <1>2, <1>4, ReadsRaw
  <2>2. <<>> \o RawPairs(raw) = RawPairs(raw)
    BY <2>1, ConcatEmptySeq DEF Pairs
  <2>3. QED
    BY <1>4, <2>1, <2>2, SectionSet
<1>6. /\ ReadsText(lines, Append(r, x2), Append(r, x3)) /\ x3 \in Section(V)
  <2> HIDE DEF x2, ps
  <2>1. ReadsText(lines, Append(r, x2), Append(r, Holding(x2, x2.pairs \o ps)))
    BY <1>1, <1>2, <1>5, ReadsPairs
  <2>2. RawPairs(raw) \o ps \in Pairs
    BY <1>1, <1>5, UpToPairs
  <2>3. QED
    BY <1>5, <2>1, <2>2, SectionSet
<1>7. x3 = [x EXCEPT !.comments = c, !.pairs = RawPairs(raw) \o ps]
  BY DEF Noted, Holding, Section
<1>8. x4 = v[n]
  <2>1. v[n] = Shown(t[n], kids)
    BY ViewOf
  <2>2. x4 = [x EXCEPT !.comments = c, !.pairs = RawPairs(raw) \o ps, !.children = kids]
    BY <1>7 DEF Above, Section
  <2> HIDE DEF c, raw, ps, kids, x4
  <2>3. x4 = [tag |-> x.tag, level |-> x.level, comments |-> c, pairs |-> RawPairs(raw) \o ps,
              children |-> kids]
    BY <2>2 DEF Section
  <2>4. QED
    BY <2>1, <2>3, Zenon DEF Shown, c, raw, ps
<1>9. x3.children = <<>> /\ x3.level = t[n].level
  <2> HIDE DEF x3
  <2>1. QED
    BY <1>7 DEF Section
<1> HIDE DEF x1, x2, x3, x4, kids, lines, ps, raw, c
<1>10. ReadsText(ChildLines(t, text, n), Append(r, x3), Append(r, x4))
  <2>1. \A i \in 1 .. Len(t) : t[i].parent = n => t[i].level = x3.level + 1
    <3>1. n # NoNode
      BY DEF NoNode
    <3>2. QED
      BY <1>9, <3>1 DEF Tidy
  <2>2. QED
    BY <1>6, <1>9, <2>1, ReadsChildren DEF x4, kids
<1>11. c \in Seq(Words) /\ raw \in Seq(Words)
  BY <1>1 DEF Comments
<1>12. ReadsText(c \o raw, Append(r, x), Append(r, x2)) /\ c \o raw \in Seq(Words)
  BY <1>4, <1>5, <1>11, ReadsBoth, ConcatProperties
<1>13. ReadsText(c \o raw \o lines, Append(r, x), Append(r, x3)) /\ c \o raw \o lines \in Seq(Words)
  BY <1>3, <1>6, <1>12, ReadsBoth, ConcatProperties
<1>14. ReadsText(c \o raw \o lines \o ChildLines(t, text, n), Append(r, x), Append(r, x4))
  BY <1>3, <1>10, <1>13, ReadsBoth
<1>15. QED
  BY <1>8, <1>14, Zenon DEF c, raw, lines, ps

LEMMA SectionReads ==
  ASSUME NEW V, NEW t, IsTree(t), Tidy(t), NEW v, IsView(t, {}, v),
         \A i \in 1 .. Len(t) : v[i] \in V, NEW text, NEW n \in 1 .. Len(t),
         text[n] = SectionLines(t, text, n),
         PlainNode(t[n]), ChildrenRead(V, t, v, text, n)
  PROVE  SectionReadsAs(V, t, v, text, n)
<1> SUFFICES ASSUME NEW r \in Seq(Section(V)), NEW x \in Section(V), x.level = t[n].level - 1
             PROVE  ReadsText(text[n], Append(r, x), Append(r, Enlarged(x, v[n])))
  BY DEF SectionReadsAs
<1> DEFINE tag == t[n].tag
           begin == <<"<">> \o tag \o <<">">>
           end == <<"<", "/">> \o tag \o <<">">>
           q == Append(r, x)
           y == Begun(x, tag)
           c == t[n].comments
           raw == t[n].raw
           lines == FlattenSeq([i \in 1 .. Len(t[n].pairs) |-> PairLines(t[n].pairs[i])])
           kids == ChildLines(t, text, n)
<1>1. tag \in Words /\ t[n].level \in Int /\ x.level \in Int
  BY TreeIs DEF Section
<1>2. q \in Seq(Section(V)) /\ q # <<>> /\ Front(q) = r /\ Last(q) = x
  BY OneMore
<1>3. /\ y \in Section(V) /\ y.tag = tag /\ y.level = t[n].level /\ y.comments = <<>>
      /\ y.pairs = <<>> /\ y.children = <<>>
  <2>1. t[n].level - 1 + 1 = t[n].level
    BY <1>1
  <2>2. y.level = t[n].level
    BY <2>1 DEF Begun
  <2>3. QED
    BY <1>1, <2>2, EmptyIsTyped DEF Begun, Section
<1>4. v[n] \in Section(V) /\ v[n].tag = tag
  <2>1. v[n] \in Section(V)
    BY ViewTyped
  <2>2. v[n] = Shown(t[n], Seen(v, KidsBut(t, {}, n)))
    BY ViewOf
  <2>3. QED
    BY <2>1, <2>2 DEF Shown
<1>5. begin \in Words /\ IsA(begin, "SECTION_BEGIN") /\ SubSeq(begin, 2, Len(begin) - 1) = tag
  BY <1>1, BeginLineIs DEF PlainNode
<1>6. end \in Words /\ IsA(end, "SECTION_END") /\ SubSeq(end, 3, Len(end) - 1) = tag
  BY <1>1, EndLineIs
<1> HIDE DEF q, y, begin, end
<1>7. ReadsText(<<begin>>, q, Append(q, y))
  <2>1. ReadsLine(q, begin, Append(q, y))
    BY <1>2, <1>5, Zenon DEF ReadsLine, y
  <2>2. QED
    BY <2>1, ReadsOne
<1>8. ReadsText(<<end>>, Append(q, v[n]), Append(r, Enlarged(x, v[n])))
  <2>1. Front(Append(q, v[n])) = q /\ Last(Append(q, v[n])) = v[n]
    BY <1>2, <1>4, OneMore
  <2>2. ReadsLine(Append(q, v[n]), end, Append(r, Enlarged(x, v[n])))
    BY <1>2, <1>4, <1>6, <2>1, Zenon DEF ReadsLine
  <2>3. QED
    BY <2>2, ReadsOne
<1>9. ReadsText(c \o raw \o lines \o kids, Append(q, y), Append(q, v[n]))
  BY <1>2, <1>3, ReadsInside
<1>10. /\ <<begin>> \in Seq(Words) /\ <<end>> \in Seq(Words) /\ c \in Seq(Words)
       /\ raw \in Seq(Words) /\ lines \in Seq(Words) /\ kids \in Seq(Words)
  <2>1. t[n].pairs \in Seq(PairType) /\ c \in Seq(Words) /\ raw \in Seq(Words)
    BY TreeIs DEF Comments, Pairs, PairType
  <2>2. \A i \in 1 .. Len(t[n].pairs) : PairLines(t[n].pairs[i]) \in Seq(Words)
    BY <2>1, PairLinesTyped DEF Comments
  <2>3. [i \in 1 .. Len(t[n].pairs) |-> PairLines(t[n].pairs[i])] \in Seq(Seq(Words))
    BY <2>1, <2>2
  <2>4. lines \in Seq(Words)
    BY <2>3, FlattenTyped
  <2>5. kids \in Seq(Words)
    BY ChildLinesTyped DEF ChildrenRead, Comments
  <2>6. \A w \in Words : <<w>> \in Seq(Words)
    OBVIOUS
  <2>7. QED
    BY <1>5, <1>6, <2>1, <2>4, <2>5, <2>6
<1> HIDE DEF c, raw, lines, kids
<1>11. text[n] = <<begin>> \o c \o raw \o lines \o kids \o <<end>>
  BY Zenon DEF SectionLines, begin, end, c, raw, lines, kids
<1> DEFINE z == c \o raw \o lines \o kids
<1>12. z \in Seq(Words) /\ text[n] = (<<begin>> \o z) \o <<end>>
  <2>1. z \in Seq(Words)
    BY <1>10, ConcatProperties
  <2>2. <<begin>> \o c \o raw \o lines \o kids = <<begin>> \o z
    <3>1. PICK b \in Seq(Words) : b = <<begin>>
      BY <1>10
    <3>2. b \o c \o raw \o lines \o kids = b \o (c \o raw \o lines \o kids)
      <4>1. PICK f \in Seq(Words) : f = c \o raw
        BY <1>10, ConcatProperties
      <4>2. PICK g \in Seq(Words) : g = f \o lines
        <5>1. lines \in Seq(Words)
          BY <1>10
        <5>2. f \o lines \in Seq(Words)
          BY ONLY <4>1, <5>1, ConcatProperties
        <5>3. QED
          BY ONLY <5>2, Zenon
      <4>3. b \o c \o raw = b \o f
        <5>1. b \in Seq(Words) /\ c \in Seq(Words) /\ raw \in Seq(Words)
          BY <1>10
        <5>2. b \o c \o raw = b \o (c \o raw)
          BY ONLY <5>1, SMTT(30)
        <5>3. QED
          BY ONLY <4>1, <5>2, Zenon
      <4>4. b \o f \o lines = b \o g
        <5>1. /\ b \in Seq(Words) /\ f \in Seq(Words) /\ lines \in Seq(Words)
          BY <1>10
        <5>2. b \o f \o lines = b \o (f \o lines)
          BY ONLY <5>1, SMTT(30)
        <5>3. QED
          BY ONLY <4>2, <5>2, Zenon
      <4>5. b \o g \o kids = b \o (g \o kids)
        <5>1. /\ b \in Seq(Words) /\ g \in Seq(Words) /\ kids \in Seq(Words)
          BY <1>10
        <5>2. QED
          BY ONLY <5>1, SMTT(30)
      <4>6. QED
        BY ONLY <4>1, <4>2, <4>3, <4>4, <4>5
    <3>3. QED
      BY <3>1, <3>2, Zenon
  <2>3. QED
    BY <1>11, <2>1, <2>2, Zenon
<1> HIDE DEF z
<1>13. ReadsText(<<begin>> \o z, q, Append(q, v[n])) /\ <<begin>> \o z \in Seq(Words)
  BY <1>7, <1>9, <1>10, <1>12, ReadsBoth, ConcatProperties DEF z
<1>14. ReadsText((<<begin>> \o z) \o <<end>>, q, Append(r, Enlarged(x, v[n])))
  BY <1>8, <1>10, <1>13, ReadsBoth
<1>15. QED
  BY <1>12, <1>14 DEF q

(* What is outside of all sections: RootNode with these children.          *)
Outer(c) ==
  [tag |-> <<>>, level |-> -1, comments |-> <<>>, pairs |-> <<>>, children |-> c]

IsWritten(t, W) ==
  /\ Root \in W /\ W \subseteq 1 .. Len(t)
  /\ \A n \in 1 .. Len(t) : t[n].parent \in W => n \in W
  /\ \A n \in W \ {Root} : PlainNode(t[n])

LEMMA WrittenExists ==
  ASSUME NEW t, IsTree(t), Writable(t)
  PROVE  \E W : IsWritten(t, W)
<1>1. DOMAIN t = 1 .. Len(t)
  BY TreeIs
<1>2. PICK W \in SUBSET DOMAIN t :
        /\ Root \in W
        /\ \A n \in DOMAIN t : t[n].parent \in W => n \in W
        /\ \A n \in W \ {Root} :
             /\ t[n].tag # <<>> => t[n].tag[1] # "/"
             /\ \A i \in DOMAIN t[n].pairs : Plain(t[n].pairs[i].key)
             /\ \A i \in DOMAIN t[n].raw : Plain(Front(t[n].raw[i]))
  BY DEF Writable
<1>3. ASSUME NEW n \in W \ {Root}
      PROVE  PlainNode(t[n])
  <2>1. t[n].pairs \in Pairs /\ t[n].raw \in Comments
    BY <1>1, <1>2, TreeIs
  <2>2. DOMAIN t[n].pairs = 1 .. Len(t[n].pairs) /\ DOMAIN t[n].raw = 1 .. Len(t[n].raw)
    BY <2>1 DEF Pairs, Comments
  <2>3. QED
    BY <1>2, <2>2 DEF PlainNode
<1>4. IsWritten(t, W)
  BY <1>1, <1>2, <1>3 DEF IsWritten
<1>5. QED
  BY <1>4

LEMMA WrittenReads ==
  ASSUME NEW t, IsTree(t), Tidy(t), NEW W, IsWritten(t, W), NEW v, IsView(t, {}, v),
         NEW V, \A i \in 1 .. Len(t) : v[i] \in V, NEW text, IsText(t, text, Len(t))
  PROVE  \A n \in W \ {Root} : SectionReadsAs(V, t, v, text, n)
<1> DEFINE N == Len(t)
           S == {k \in 0 .. N : \A n \in W \ {Root} : n > N - k => SectionReadsAs(V, t, v, text, n)}
<1>1. N \in Nat /\ \A i \in 1 .. N : t[i].parent < i /\ t[i].parent \in Nat
  BY TreeIs
<1>2. W \subseteq 1 .. N /\ Root \in W
  BY DEF IsWritten
<1>3. \A n \in 1 .. N : text[n] \in Comments /\ text[n] = SectionLines(t, text, n)
  BY <1>1 DEF IsText
<1>4. 0 \in S
  BY <1>1, <1>2
<1>5. ASSUME NEW k \in 1 .. N, k - 1 \in S
      PROVE  k \in S
  <2>1. \A n \in W \ {Root} : n > N - k + 1 => SectionReadsAs(V, t, v, text, n)
    BY <1>1, <1>5
  <2>2. ASSUME NEW n \in W \ {Root}, n > N - k
        PROVE  SectionReadsAs(V, t, v, text, n)
    <3>1. n \in 1 .. N /\ PlainNode(t[n])
      BY <1>2 DEF IsWritten
    <3>2. ASSUME NEW i \in 1 .. N, t[i].parent = n
          PROVE  text[i] \in Comments /\ SectionReadsAs(V, t, v, text, i)
      <4>1. i > N - k + 1 /\ i # Root
        BY <1>1, <2>2, <3>1, <3>2 DEF Root
      <4>2. i \in W
        BY <3>2 DEF IsWritten
      <4>3. QED
        BY <1>3, <2>1, <4>1, <4>2
    <3>3. ChildrenRead(V, t, v, text, n)
      BY <3>2 DEF ChildrenRead
    <3>4. QED
      BY <1>3, <3>1, <3>3, SectionReads
  <2>3. QED
    BY <2>2
<1> HIDE DEF S
<1>6. \A k \in 0 .. N : k \in S
  BY ONLY <1>1, <1>4, <1>5, Climb
<1>7. N \in S
  BY <1>1, <1>6
<1>8. QED
  BY <1>1, <1>2, <1>7 DEF S

LEMMA TextReads ==
  ASSUME NEW t, IsTree(t), Tidy(t), Writable(t)
  PROVE  ReadsText(Generate(t), <<Outer(<<>>)>>, <<Outer(View(t))>>)
<1>1. PICK W : IsWritten(t, W)
  BY WrittenExists
<1>2. PICK O : O = {}
  OBVIOUS
<1>3. PICK v : IsView(t, O, v)
  BY ViewExists
<1>4. IsView(t, {}, v)
  BY <1>2, <1>3
<1>5. PICK text : IsText(t, text, Len(t)) /\ Generate(t) = ChildLines(t, text, Root)
  BY GenerateIs
<1> DEFINE V == {v[i] : i \in 1 .. Len(t)}
           x == Outer(<<>>)
           kids == Seen(v, KidsBut(t, {}, Root))
<1>6. \A i \in 1 .. Len(t) : v[i] \in V
  OBVIOUS
<1>7. <<>> \in Seq(V) /\ <<>> \in Seq(Section(V)) /\ -1 \in Int
  OBVIOUS
<1> HIDE DEF V
<1>8. x \in Section(V) /\ x.children = <<>> /\ x.level = -1 /\ Above(x, kids) = Outer(kids)
  BY <1>7, EmptyIsTyped DEF Outer, Section, Above
<1>9. \A n \in W \ {Root} : SectionReadsAs(V, t, v, text, n)
  BY <1>1, <1>4, <1>5, <1>6, WrittenReads
<1>10. Root \in 1 .. Len(t) /\ Root # NoNode
  BY TreeIs DEF Root, NoNode
<1>11. ChildrenRead(V, t, v, text, Root)
  <2>1. ASSUME NEW i \in 1 .. Len(t), t[i].parent = Root
        PROVE  text[i] \in Comments /\ SectionReadsAs(V, t, v, text, i)
    <3>1. i # Root
      BY <2>1, TreeIs DEF Root
    <3>2. i \in W
      BY <1>1, <2>1 DEF IsWritten
    <3>3. QED
      BY <1>5, <1>9, <3>1, <3>2 DEF IsText
  <2>2. QED
    BY <2>1 DEF ChildrenRead
<1>12. \A i \in 1 .. Len(t) : t[i].parent = Root => t[i].level = x.level + 1
  BY <1>8, <1>10 DEF Tidy
<1> HIDE DEF x, kids
<1>13. ReadsText(ChildLines(t, text, Root), Append(<<>>, x), Append(<<>>, Above(x, kids)))
  BY <1>4, <1>6, <1>7, <1>8, <1>11, <1>12, ReadsChildren DEF kids
<1>14. View(t) = kids
  <2>1. View(t) = v[Root].children
    BY <1>4, ViewIs
  <2>2. v[Root] = Shown(t[Root], kids)
    BY <1>4, <1>10, ViewOf DEF kids
  <2>3. QED
    BY <2>1, <2>2 DEF Shown
<1>15. \A y : Append(<<>>, y) = <<y>>
  OBVIOUS
<1>16. QED
  BY <1>5, <1>8, <1>13, <1>14, <1>15, Zenon DEF x

-----------------------------------------------------------------------------
(* The parser as a reader: what it has read is the view of its nodes, in   *)
(* which the sections still open are not yet among the children.           *)

LEMMA SplitLast ==
  ASSUME NEW S, NEW s \in Seq(S), s # <<>>
  PROVE  s = Append(Front(s), Last(s))
<1>1. /\ Front(s) \in Seq(S) /\ Last(s) \in S
      /\ Len(s) \in Nat \ {0} /\ Len(Front(s)) = Len(s) - 1
      /\ \A i \in 1 .. Len(s) - 1 : Front(s)[i] = s[i]
  BY FrontLast
<1> DEFINE f == Front(s)
           e == Last(s)
           z == Append(f, e)
<1>2. e = s[Len(s)]
  BY DEF Last
<1> HIDE DEF f, e
<1>3. /\ z \in Seq(S) /\ Len(z) = Len(f) + 1 /\ z[Len(f) + 1] = e
      /\ \A i \in 1 .. Len(f) : z[i] = f[i]
  BY <1>1, AppendProperties DEF f, e
<1> HIDE DEF z
<1>4. Len(z) = Len(s) /\ \A i \in 1 .. Len(s) : z[i] = s[i]
  BY <1>1, <1>2, <1>3 DEF f
<1>5. z = s
  BY <1>3, <1>4, SeqEqual
<1>6. QED
  BY <1>5 DEF z, f, e

LEMMA SeenLast ==
  ASSUME NEW U, NEW calls \in Seq(U), calls # <<>>, NEW v
  PROVE  LET a == Seen(v, calls) IN
         /\ a = Append(Seen(v, Front(calls)), v[Last(calls)])
         /\ Front(a) = Seen(v, Front(calls)) /\ Last(a) = v[Last(calls)]
         /\ Front(a) # <<>> <=> Len(calls) > 1
<1> DEFINE a == Seen(v, calls)
           V == {v[i] : i \in U}
           b == Seen(v, Front(calls))
<1>1. /\ Front(calls) \in Seq(U) /\ Last(calls) \in U /\ calls = Append(Front(calls), Last(calls))
      /\ Len(calls) \in Nat \ {0} /\ Len(Front(calls)) = Len(calls) - 1
  BY FrontLast, SplitLast
<1>2. Seen(v, Append(Front(calls), Last(calls))) = Append(Seen(v, Front(calls)), v[Last(calls)])
  BY <1>1, SeenMore
<1>3. a = Append(b, v[Last(calls)])
  BY <1>1, <1>2, Zenon
<1>4. \A i \in U : v[i] \in V
  OBVIOUS
<1> HIDE DEF V
<1>5. b \in Seq(V) /\ v[Last(calls)] \in V
  BY <1>1, <1>4, SeenTyped
<1>6. DOMAIN Front(calls) = 1 .. Len(calls) - 1
  BY <1>1
<1>7. Len(b) = Len(calls) - 1
  <2>1. DOMAIN b = 1 .. Len(calls) - 1
    BY <1>6 DEF Seen
  <2> HIDE DEF b
  <2>2. QED
    BY <1>1, <1>5, <2>1
<1> HIDE DEF a, b
<1>8. Front(a) = b /\ Last(a) = v[Last(calls)]
  BY <1>3, <1>5, OneMore
<1>9. b # <<>> <=> Len(calls) > 1
  BY <1>1, <1>5, <1>7
<1>10. QED
  BY <1>3, <1>8, <1>9 DEF a, b

(* The children of a node, when the tree or the open sections change.      *)
LEMMA KidsSame ==
  ASSUME NEW t, NEW u, Len(u) = Len(t), NEW O, NEW Q, NEW n,
         \A i \in 1 .. Len(t) : /\ u[i].parent = t[i].parent
                                /\ t[i].parent = n => (i \in Q <=> i \in O)
  PROVE  KidsBut(u, Q, n) = KidsBut(t, O, n)
<1>1. [i \in 1 .. Len(t) |-> IF u[i].parent = n /\ i \notin Q THEN <<i>> ELSE <<>>]
        = [i \in 1 .. Len(t) |-> IF t[i].parent = n /\ i \notin O THEN <<i>> ELSE <<>>]
  <2>1. \A i \in 1 .. Len(t) : (u[i].parent = n /\ i \notin Q) <=> (t[i].parent = n /\ i \notin O)
    OBVIOUS
  <2>2. QED
    BY <2>1
<1>2. QED
  BY <1>1, Zenon DEF KidsBut

KidsOf(t, O, n) == [i \in 1 .. Len(t) |-> IF t[i].parent = n /\ i \notin O THEN <<i>> ELSE <<>>]

LEMMA KidsOfTyped ==
  ASSUME NEW t, NEW N \in Nat, Len(t) = N, NEW O, NEW n
  PROVE  /\ KidsOf(t, O, n) \in Seq(Seq(Nat)) /\ Len(KidsOf(t, O, n)) = N
         /\ \A i \in 1 .. N :
              KidsOf(t, O, n)[i] = IF t[i].parent = n /\ i \notin O THEN <<i>> ELSE <<>>
         /\ KidsBut(t, O, n) = FlattenSeq(KidsOf(t, O, n))
<1>1. <<>> \in Seq(Nat) /\ \A i \in 1 .. N : <<i>> \in Seq(Nat)
  OBVIOUS
<1>2. \A i \in 1 .. N :
        (IF t[i].parent = n /\ i \notin O THEN <<i>> ELSE <<>>) \in Seq(Nat)
  BY <1>1
<1>3. KidsBut(t, O, n) = FlattenSeq(KidsOf(t, O, n))
  BY Zenon DEF KidsBut, KidsOf
<1>4. KidsOf(t, O, n)
        = [i \in 1 .. N |-> IF t[i].parent = n /\ i \notin O THEN <<i>> ELSE <<>>]
  BY DEF KidsOf
<1>5. QED
  BY <1>2, <1>3, <1>4

LEMMA KidsMore ==
  ASSUME NEW t, NEW N \in Nat, Len(t) = N, NEW u, Len(u) = N + 1,
         \A i \in 1 .. N : u[i] = t[i], NEW O, NEW Q, N + 1 \in Q,
         \A i \in 1 .. N : i \in Q <=> i \in O, NEW n
  PROVE  KidsBut(u, Q, n) = KidsBut(t, O, n)
<1> DEFINE f == KidsOf(t, O, n)
           g == KidsOf(u, Q, n)
<1>1. N + 1 \in Nat
  OBVIOUS
<1>2. /\ f \in Seq(Seq(Nat)) /\ Len(f) = N /\ KidsBut(t, O, n) = FlattenSeq(f)
      /\ \A i \in 1 .. N : f[i] = IF t[i].parent = n /\ i \notin O THEN <<i>> ELSE <<>>
  BY KidsOfTyped
<1>3. /\ g \in Seq(Seq(Nat)) /\ Len(g) = N + 1 /\ KidsBut(u, Q, n) = FlattenSeq(g)
      /\ \A i \in 1 .. N + 1 : g[i] = IF u[i].parent = n /\ i \notin Q THEN <<i>> ELSE <<>>
  <2>1. PICK M \in Nat : M = N + 1
    BY <1>1
  <2>2. Len(u) = M
    BY <2>1
  <2>3. /\ g \in Seq(Seq(Nat)) /\ Len(g) = M /\ KidsBut(u, Q, n) = FlattenSeq(g)
        /\ \A i \in 1 .. M : g[i] = IF u[i].parent = n /\ i \notin Q THEN <<i>> ELSE <<>>
    BY <2>1, <2>2, KidsOfTyped
  <2> HIDE DEF g
  <2>4. QED
    BY <2>1, <2>3, Zenon
<1> HIDE DEF f, g
<1>4. g[N + 1] = <<>> /\ \A i \in 1 .. N : g[i] = f[i]
  <2>1. N + 1 \in 1 .. N + 1 /\ \A i \in 1 .. N : i \in 1 .. N + 1
    OBVIOUS
  <2>2. g[N + 1] = <<>>
    BY <1>3, <2>1
  <2>3. ASSUME NEW i \in 1 .. N
        PROVE  g[i] = f[i]
    <3>1. u[i] = t[i] /\ (i \in Q <=> i \in O)
      OBVIOUS
    <3>2. f[i] = IF t[i].parent = n /\ i \notin O THEN <<i>> ELSE <<>>
      BY <1>2
    <3>3. g[i] = IF u[i].parent = n /\ i \notin Q THEN <<i>> ELSE <<>>
      BY <1>3, <2>1
    <3>4. QED
      BY <3>1, <3>2, <3>3
  <2>4. QED
    BY <2>2, <2>3
<1> DEFINE z == Append(f, <<>>)
<1>5. <<>> \in Seq(Nat)
  OBVIOUS
<1>6. /\ z \in Seq(Seq(Nat)) /\ Len(z) = N + 1 /\ z[N + 1] = <<>>
      /\ \A i \in 1 .. N : z[i] = f[i]
  BY <1>2, <1>5, AppendProperties
<1> HIDE DEF z
<1>7. ASSUME NEW i \in 1 .. N + 1
      PROVE  g[i] = z[i]
  <2>1. i = N + 1 \/ i \in 1 .. N
    OBVIOUS
  <2>2. QED
    BY <1>4, <1>6, <2>1
<1>8. g = z
  BY <1>3, <1>6, <1>7, SeqEqual
<1>9. FlattenSeq(z) = FlattenSeq(f) \o <<>> /\ FlattenSeq(f) \in Seq(Nat)
  BY <1>2, <1>5, FlattenAppend, FlattenTyped DEF z
<1>10. FlattenSeq(f) \o <<>> = FlattenSeq(f)
  BY <1>9, ConcatEmptySeq
<1>11. QED
  BY <1>2, <1>3, <1>8, <1>9, <1>10

LEMMA KidsNone ==
  ASSUME NEW t, IsTree(t), NEW O, NEW n, \A i \in 1 .. Len(t) : t[i].parent # n
  PROVE  KidsBut(t, O, n) = <<>>
<1> DEFINE S == {i \in 1 .. Len(t) : t[i].parent = n /\ i \notin O}
<1>1. S = {}
  OBVIOUS
<1>2. KidsBut(t, O, n) \in Seq(S)
  BY KidsAre
<1> HIDE DEF S
<1>3. QED
  BY <1>1, <1>2

(* The section that is closed is the last child of its parent.             *)
LEMMA KidsClosed ==
  ASSUME NEW t, NEW N \in Nat, Len(t) = N, NEW O, NEW Q, NEW c \in 1 .. N, c \in O, c \notin Q,
         \A i \in 1 .. N : i # c => (i \in Q <=> i \in O),
         NEW p, t[c].parent = p, \A i \in 1 .. N : t[i].parent = p => i <= c
  PROVE  KidsBut(t, Q, p) = Append(KidsBut(t, O, p), c)
<1> DEFINE x == KidsOf(t, O, p)
           y == KidsOf(t, Q, p)
<1>1. c \in Nat
  OBVIOUS
<1>2. /\ x \in Seq(Seq(Nat)) /\ Len(x) = N /\ KidsBut(t, O, p) = FlattenSeq(x)
      /\ \A i \in 1 .. N : x[i] = IF t[i].parent = p /\ i \notin O THEN <<i>> ELSE <<>>
  BY KidsOfTyped
<1>3. /\ y \in Seq(Seq(Nat)) /\ Len(y) = N /\ KidsBut(t, Q, p) = FlattenSeq(y)
      /\ \A i \in 1 .. N : y[i] = IF t[i].parent = p /\ i \notin Q THEN <<i>> ELSE <<>>
  BY KidsOfTyped
<1> HIDE DEF x, y
<1>4. PICK f : IsFlat(f, x, Nat)
  BY <1>2, FlatExists
<1>5. PICK g : IsFlat(g, y, Nat)
  BY <1>3, FlatExists
<1>6. /\ f[0] = <<>> /\ \A i \in 0 .. N : f[i] \in Seq(Nat)
      /\ \A i \in 1 .. N : f[i] = f[i - 1] \o x[i]
  BY <1>2, <1>4 DEF IsFlat
<1>7. /\ g[0] = <<>> /\ \A i \in 0 .. N : g[i] \in Seq(Nat)
      /\ \A i \in 1 .. N : g[i] = g[i - 1] \o y[i]
  BY <1>3, <1>5 DEF IsFlat
<1> DEFINE S == {i \in 0 .. N : /\ i < c => g[i] = f[i]
                                /\ i >= c => g[i] = Append(f[i], c)}
<1>8. 0 \in S
  BY <1>1, <1>6, <1>7
<1>9. ASSUME NEW i \in 1 .. N, i - 1 \in S
      PROVE  i \in S
  <2>1. /\ i - 1 \in 0 .. N /\ i \in 0 .. N /\ f[i - 1] \in Seq(Nat) /\ g[i - 1] \in Seq(Nat)
        /\ f[i] = f[i - 1] \o x[i] /\ g[i] = g[i - 1] \o y[i] /\ c \in Nat
    <3>1. i - 1 \in 0 .. N /\ i \in 0 .. N
      OBVIOUS
    <3> HIDE DEF S
    <3>2. QED
      BY <1>1, <1>6, <1>7, <3>1
  <2>2. /\ i - 1 < c => g[i - 1] = f[i - 1]
        /\ i - 1 >= c => g[i - 1] = Append(f[i - 1], c)
    BY <1>9 DEF S
  <2>3. CASE i < c
    <3>1. x[i] = y[i]
      BY <1>2, <1>3, <2>3, SMTT(30)
    <3>2. g[i - 1] = f[i - 1]
      BY <2>1, <2>2, <2>3
    <3>3. g[i] = f[i] /\ ~(i >= c)
      BY <2>1, <2>3, <3>1, <3>2
    <3>4. QED
      BY <2>1, <3>3
  <2>4. CASE i = c
    <3>1. x[i] = <<>> /\ y[i] = <<c>>
      BY <1>2, <1>3, <2>4
    <3>2. g[i - 1] = f[i - 1]
      BY <2>1, <2>2, <2>4
    <3>3. f[i] = f[i - 1]
      BY <2>1, <3>1, ConcatEmptySeq
    <3>4. g[i] = Append(f[i], c)
      BY <2>1, <3>1, <3>2, <3>3, AppendIsConcat
    <3>5. ~(i < c)
      BY <2>4
    <3>6. QED
      BY <2>1, <3>4, <3>5
  <2>5. CASE i > c
    <3>1. x[i] = <<>> /\ y[i] = <<>>
      BY <1>2, <1>3, <2>1, <2>5
    <3>2. g[i - 1] = Append(f[i - 1], c)
      BY <2>1, <2>2, <2>5
    <3>3. f[i] = f[i - 1] /\ g[i] = g[i - 1]
      BY <2>1, <3>1, ConcatEmptySeq
    <3>4. g[i] = Append(f[i], c) /\ ~(i < c)
      <4>1. ~(i < c)
        BY <2>1, <2>5
      <4>2. QED
        BY <3>2, <3>3, <4>1, Zenon
    <3>5. QED
      BY <2>1, <3>4
  <2>6. QED
    BY <2>1, <2>3, <2>4, <2>5
<1> HIDE DEF S
<1>10. \A i \in 0 .. N : i \in S
  BY ONLY <1>1, <1>8, <1>9, Climb
<1>11. g[N] = Append(f[N], c)
  BY <1>1, <1>10, N \in 0 .. N DEF S
<1>12. FlattenSeq(x) = f[N] /\ FlattenSeq(y) = g[N]
  BY <1>2, <1>3, <1>4, <1>5, FlattenIs
<1>13. QED
  BY <1>2, <1>3, <1>11, <1>12

OpenSet(calls) == {calls[k] : k \in 1 .. Len(calls)}

(* The running ParseImpl calls go from the root down, each for the last    *)
(* child of the section before.                                            *)
Nested(t, calls) ==
  /\ calls \in Seq(1 .. Len(t)) /\ calls # <<>> /\ calls[1] = Root
  /\ \A i, j \in 1 .. Len(calls) : calls[i] = calls[j] => i = j
  /\ \A k \in 1 .. Len(calls) - 1 :
       /\ t[calls[k + 1]].parent = calls[k]
       /\ \A j \in 1 .. Len(t) : t[j].parent = calls[k] => j <= calls[k + 1]

LEMMA CallsAre ==
  ASSUME NEW t, NEW calls, Nested(t, calls)
  PROVE  LET d == Len(calls)
             m == Last(calls) IN
         /\ d \in Nat \ {0} /\ m = calls[d] /\ m \in 1 .. Len(t)
         /\ m \in OpenSet(calls) /\ OpenSet(calls) \subseteq 1 .. Len(t)
         /\ Front(calls) \in Seq(1 .. Len(t)) /\ Len(Front(calls)) = d - 1
         /\ \A k \in 1 .. d - 1 :
              /\ Front(calls)[k] = calls[k] /\ calls[k] # m
              /\ calls[k] \in 1 .. Len(t) /\ calls[k] \in OpenSet(calls)
         /\ OpenSet(calls) = OpenSet(Front(calls)) \union {m}
         /\ m \notin OpenSet(Front(calls))
<1> DEFINE d == Len(calls)
           m == Last(calls)
           f == Front(calls)
<1>1. /\ f \in Seq(1 .. Len(t)) /\ m \in 1 .. Len(t) /\ d \in Nat \ {0} /\ Len(f) = d - 1
      /\ \A k \in 1 .. d - 1 : f[k] = calls[k]
  BY FrontLast DEF Nested
<1>2. m = calls[d]
  BY DEF Last
<1>3. \A k \in 1 .. d : calls[k] \in 1 .. Len(t)
  BY DEF Nested
<1> HIDE DEF f, m, d
<1>4. \A k \in 1 .. d - 1 : k \in 1 .. d /\ k # d
  BY <1>1
<1>5. d \in 1 .. d
  BY <1>1
<1>6. \A k \in 1 .. d - 1 : calls[k] # m
  BY <1>2, <1>4, <1>5 DEF Nested, d
<1>7. \A k \in 1 .. d : k = d \/ k \in 1 .. d - 1
  BY <1>1
<1>8. OpenSet(calls) = OpenSet(f) \union {m}
  <2>1. OpenSet(calls) = {calls[k] : k \in 1 .. d} /\ OpenSet(f) = {f[k] : k \in 1 .. d - 1}
    BY <1>1 DEF OpenSet, d
  <2>2. QED
    BY <1>1, <1>2, <1>4, <1>5, <1>7, <2>1
<1>9. m \notin OpenSet(f)
  BY <1>1, <1>6 DEF OpenSet
<1>10. OpenSet(calls) \subseteq 1 .. Len(t) /\ \A k \in 1 .. d : calls[k] \in OpenSet(calls)
  BY <1>3 DEF OpenSet, d
<1>11. QED
  BY <1>1, <1>2, <1>3, <1>4, <1>5, <1>6, <1>8, <1>9, <1>10 DEF d, m, f

(* What is read of the open sections does not change the closed ones.      *)
LEMMA ViewsFollow ==
  ASSUME NEW t, IsTree(t), NEW u, IsTree(u), Len(t) <= Len(u), NEW O, NEW Q, NEW v, NEW w,
         IsView(t, O, v), IsView(u, Q, w),
         \A n \in 1 .. Len(t) : n \notin O =>
           u[n] = t[n] /\ KidsBut(u, Q, n) = KidsBut(t, O, n)
  PROVE  /\ \A n \in 1 .. Len(t) : n \notin O => w[n] = v[n]
         /\ \A n : Seen(w, KidsBut(t, O, n)) = Seen(v, KidsBut(t, O, n))
<1> DEFINE U == {n \in 1 .. Len(t) : n \notin O}
<1>1. \A n : KidsBut(t, O, n) \in Seq(U)
  <2> TAKE n
  <2> DEFINE K == {i \in 1 .. Len(t) : t[i].parent = n /\ i \notin O}
  <2>1. KidsBut(t, O, n) \in Seq(K)
    BY KidsAre
  <2>2. K \subseteq U
    OBVIOUS
  <2> HIDE DEF K, U
  <2>3. QED
    BY <2>1, <2>2, SeqMonotonic
<1>2. U \subseteq 1 .. Len(t) /\ 1 .. Len(t) \subseteq 1 .. Len(u)
  BY TreeIs
<1>3. \A n \in U : u[n] = t[n] /\ KidsBut(u, Q, n) = KidsBut(t, O, n)
  OBVIOUS
<1> HIDE DEF U
<1>4. Alike(t, O, u, Q, U)
  BY <1>1, <1>2, <1>3 DEF Alike
<1>5. \A n \in U : v[n] = w[n]
  BY <1>4, ViewsAgree
<1>6. \A n : Seen(w, KidsBut(t, O, n)) = Seen(v, KidsBut(t, O, n))
  BY <1>1, <1>5, SeenAgree
<1>7. \A n \in 1 .. Len(t) : n \notin O => w[n] = v[n]
  BY <1>5 DEF U
<1>8. QED
  BY <1>6, <1>7

LEMMA SeenFront ==
  ASSUME NEW calls, NEW S, calls \in Seq(S), NEW v, NEW w,
         \A k \in 1 .. Len(calls) : w[calls[k]] = v[calls[k]]
  PROVE  Seen(w, calls) = Seen(v, calls)
<1>1. DOMAIN calls = 1 .. Len(calls)
  OBVIOUS
<1>2. \A k \in DOMAIN calls : w[calls[k]] = v[calls[k]]
  BY <1>1
<1>3. QED
  BY <1>2, Zenon DEF Seen

(* The innermost section alone is changed.                                 *)
LEMMA TopChanged ==
  ASSUME NEW t, IsTree(t), NEW u, IsTree(u), Len(u) = Len(t), NEW calls, Nested(t, calls),
         \A i \in 1 .. Len(t) : u[i].parent = t[i].parent /\ (i # Last(calls) => u[i] = t[i]),
         NEW v, NEW w, IsView(t, OpenSet(calls), v), IsView(u, OpenSet(calls), w)
  PROVE  LET m == Last(calls)
             c == Seen(v, KidsBut(t, OpenSet(calls), m)) IN
         /\ v[m] = Shown(t[m], c)
         /\ Seen(w, calls) = Append(Front(Seen(v, calls)), Shown(u[m], c))
<1> DEFINE m == Last(calls)
           d == Len(calls)
           O == OpenSet(calls)
           c == Seen(v, KidsBut(t, O, m))
<1>1. /\ d \in Nat \ {0} /\ m \in 1 .. Len(t) /\ m \in O
      /\ Front(calls) \in Seq(1 .. Len(t)) /\ Len(Front(calls)) = d - 1
      /\ \A k \in 1 .. d - 1 :
           Front(calls)[k] = calls[k] /\ calls[k] # m /\ calls[k] \in 1 .. Len(t)
      /\ calls \in Seq(1 .. Len(t)) /\ calls # <<>>
  <2>1. calls \in Seq(1 .. Len(t)) /\ calls # <<>>
    BY DEF Nested
  <2>2. QED
    BY <2>1, CallsAre, SMTT(30)
<1> HIDE DEF m, d, O
<1>2. \A n : KidsBut(u, O, n) = KidsBut(t, O, n)
  BY KidsSame
<1>3. \A n \in 1 .. Len(t) : n \notin O => u[n] = t[n]
  BY <1>1 DEF m
<1>4. \A n : Seen(w, KidsBut(t, O, n)) = Seen(v, KidsBut(t, O, n))
  <2>1. IsView(t, O, v) /\ IsView(u, O, w) /\ Len(t) <= Len(u)
    BY TreeIs DEF O
  <2>2. QED
    BY <1>2, <1>3, <2>1, ViewsFollow
<1>5. \A n \in 1 .. Len(t) : /\ v[n] = Shown(t[n], Seen(v, KidsBut(t, O, n)))
                             /\ w[n] = Shown(u[n], Seen(v, KidsBut(t, O, n)))
  <2> TAKE n \in 1 .. Len(t)
  <2>1. v[n] = Shown(t[n], Seen(v, KidsBut(t, O, n)))
    BY ViewOf DEF O
  <2>2. w[n] = Shown(u[n], Seen(w, KidsBut(u, O, n)))
    BY ViewOf DEF O
  <2>3. QED
    BY <1>2, <1>4, <2>1, <2>2, Zenon
<1>6. \A k \in 1 .. d - 1 : w[Front(calls)[k]] = v[Front(calls)[k]]
  <2> TAKE k \in 1 .. d - 1
  <2>1. PICK n \in 1 .. Len(t) : n = Front(calls)[k] /\ n # m
    BY <1>1
  <2>2. u[n] = t[n]
    BY <2>1 DEF m
  <2>3. w[n] = v[n]
    BY <1>5, <2>1, <2>2, Zenon
  <2>4. QED
    BY <2>1, <2>3
<1>7. Seen(w, Front(calls)) = Seen(v, Front(calls))
  BY <1>1, <1>6, SeenFront
<1>8. /\ Seen(w, calls) = Append(Seen(w, Front(calls)), w[m])
      /\ Front(Seen(v, calls)) = Seen(v, Front(calls))
  BY <1>1, SeenLast DEF m
<1>9. w[m] = Shown(u[m], c) /\ v[m] = Shown(t[m], c)
  BY <1>1, <1>5, Zenon
<1>10. QED
  BY <1>7, <1>8, <1>9, Zenon DEF m, O

(* A section is opened.                                                    *)
Opens(t, u, N, calls, tag, w) ==
  /\ IsTree(t) /\ IsTree(u) /\ N \in Nat /\ Len(t) = N /\ Len(u) = N + 1
  /\ \A i \in 1 .. N : u[i] = t[i]
  /\ Nested(t, calls) /\ u[N + 1] = Node(tag, Last(calls), t[Last(calls)].level + 1)
  /\ IsView(u, OpenSet(Append(calls, N + 1)), w)

LEMMA SectionOpened ==
  ASSUME NEW t, NEW u, NEW N, NEW calls, NEW tag, NEW w, Opens(t, u, N, calls, tag, w),
         NEW v, IsView(t, OpenSet(calls), v)
  PROVE  Seen(w, Append(calls, N + 1)) = Append(Seen(v, calls), Begun(v[Last(calls)], tag))
<1>0. /\ IsTree(t) /\ IsTree(u) /\ N \in Nat /\ Len(t) = N /\ Len(u) = N + 1
      /\ \A i \in 1 .. N : u[i] = t[i]
      /\ Nested(t, calls) /\ u[N + 1] = Node(tag, Last(calls), t[Last(calls)].level + 1)
      /\ IsView(u, OpenSet(Append(calls, N + 1)), w)
  BY DEF Opens
<1> USE <1>0
<1> DEFINE m == Last(calls)
           d == Len(calls)
           O == OpenSet(calls)
           more == Append(calls, N + 1)
           Q == OpenSet(more)
<1>1. /\ d \in Nat \ {0} /\ m \in 1 .. N /\ O \subseteq 1 .. N /\ calls \in Seq(1 .. N)
      /\ \A k \in 1 .. d : calls[k] \in 1 .. N
  <2>1. calls \in Seq(1 .. N)
    BY DEF Nested
  <2>2. d \in Nat \ {0} /\ m \in 1 .. Len(t) /\ O \subseteq 1 .. Len(t)
    BY CallsAre
  <2>3. QED
    BY <2>1, <2>2
<1>2. /\ more \in Seq(1 .. N + 1) /\ more # <<>> /\ Last(more) = N + 1 /\ Front(more) = calls
      /\ Len(more) = d + 1 /\ more[d + 1] = N + 1 /\ \A k \in 1 .. d : more[k] = calls[k]
      /\ calls \in Seq(1 .. N + 1)
  <2>1. calls \in Seq(1 .. N + 1) /\ N + 1 \in 1 .. N + 1
    <3>1. 1 .. N \subseteq 1 .. N + 1
      OBVIOUS
    <3>2. QED
      BY <1>1, <3>1, SeqMonotonic
  <2>2. more # <<>> /\ more \in Seq(1 .. N + 1) /\ Last(more) = N + 1 /\ Front(more) = calls
    BY <2>1, OneMore
  <2>3. QED
    BY <2>1, <2>2, AppendProperties
<1>3. N + 1 \in Q /\ \A i \in 1 .. N : i \in Q <=> i \in O
  <2>1. \A k \in 1 .. d : k \in 1 .. d + 1
    BY <1>1
  <2>2. \A k \in 1 .. d + 1 : k = d + 1 \/ k \in 1 .. d
    BY <1>1
  <2>3. d + 1 \in 1 .. d + 1 /\ \A i \in 1 .. N : i # N + 1
    BY <1>1
  <2>4. Q = {more[k] : k \in 1 .. d + 1} /\ O = {calls[k] : k \in 1 .. d}
    BY <1>2 DEF OpenSet
  <2> HIDE DEF Q, O, more, d
  <2>5. N + 1 \in Q
    BY <1>2, <2>3, <2>4
  <2>6. \A i \in O : i \in Q
    BY <1>2, <2>1, <2>4
  <2>7. \A i \in Q : i = N + 1 \/ i \in O
    BY <1>2, <2>2, <2>4
  <2>8. QED
    BY <2>3, <2>5, <2>6, <2>7
<1> HIDE DEF more
<1> HIDE DEF m, d, O, Q
<1>4. \A n : KidsBut(u, Q, n) = KidsBut(t, O, n)
  BY <1>3, KidsMore
<1>5. IsView(t, O, v) /\ IsView(u, Q, w) /\ Len(t) <= Len(u)
  BY DEF O, Q, more
<1>6. /\ \A n \in 1 .. N : n \notin O => w[n] = v[n]
      /\ \A n : Seen(w, KidsBut(t, O, n)) = Seen(v, KidsBut(t, O, n))
  BY <1>4, <1>5, ViewsFollow
<1>7. \A n \in 1 .. N : w[n] = v[n]
  <2> TAKE n \in 1 .. N
  <2>1. n \in 1 .. Len(t) /\ n \in 1 .. Len(u)
    OBVIOUS
  <2>2. v[n] = Shown(t[n], Seen(v, KidsBut(t, O, n)))
    BY <1>5, <2>1, ViewOf
  <2>3. w[n] = Shown(u[n], Seen(w, KidsBut(u, Q, n)))
    BY <1>5, <2>1, ViewOf
  <2>4. u[n] = t[n]
    OBVIOUS
  <2>5. QED
    BY <1>4, <1>6, <2>2, <2>3, <2>4, Zenon
<1>8. Seen(w, calls) = Seen(v, calls)
  <2>1. \A k \in 1 .. Len(calls) : w[calls[k]] = v[calls[k]]
    BY <1>1, <1>7 DEF d
  <2>2. QED
    BY <1>1, <2>1, SeenFront
<1>9. Seen(w, more) = Append(Seen(v, calls), w[N + 1])
  BY <1>2, <1>8, SeenLast
<1>10. w[N + 1] = Begun(v[m], tag)
  <2>1. N + 1 \in 1 .. Len(u)
    OBVIOUS
  <2>2. w[N + 1] = Shown(u[N + 1], Seen(w, KidsBut(u, Q, N + 1)))
    BY <1>5, <2>1, ViewOf
  <2>3. KidsBut(t, O, N + 1) = <<>>
    <3>1. \A i \in 1 .. Len(t) : t[i].parent # N + 1
      <4>1. \A i \in 1 .. Len(t) : t[i].parent < i
        BY TreeIs
      <4>2. \A i \in 1 .. Len(t) : t[i].parent \in Nat
        BY TreeIs
      <4>3. QED
        BY <4>1, <4>2
    <3>2. QED
      BY <3>1, KidsNone
  <2>4. \A f : Seen(f, <<>>) = <<>>
    BY DEF Seen
  <2>5. Seen(w, KidsBut(u, Q, N + 1)) = <<>>
    BY <1>4, <2>3, <2>4, Zenon
  <2>6. RawPairs(<<>>) \o <<>> = <<>>
    BY DEF RawPairs
  <2>7. v[m].level = t[m].level
    <3>1. v[m] = Shown(t[m], Seen(v, KidsBut(t, O, m)))
      BY <1>1, <1>5, ViewOf
    <3>2. QED
      BY <3>1 DEF Shown
  <2>8. Shown(Node(tag, m, t[m].level + 1), <<>>)
          = [tag |-> tag, level |-> t[m].level + 1, comments |-> <<>>,
             pairs |-> RawPairs(<<>>) \o <<>>, children |-> <<>>]
    BY DEF Shown, Node
  <2>9. w[N + 1] = Shown(Node(tag, m, t[m].level + 1), <<>>)
    BY <2>2, <2>5, Zenon DEF m
  <2>10. QED
    BY <2>6, <2>7, <2>8, <2>9, Zenon DEF Begun
<1>11. QED
  BY <1>9, <1>10 DEF more, m

LEMMA ShownMore ==
  ASSUME NEW x, NEW k, NEW y
  PROVE  Enlarged(Shown(x, k), y) = Shown(x, Append(k, y))
<1>1. Shown(x, k).children = k
  BY DEF Shown
<1>2. \A l : Above(Shown(x, k), l) = Shown(x, l)
  <2> TAKE l
  <2>1. PICK p : p = RawPairs(x.raw) \o x.pairs
    OBVIOUS
  <2> DEFINE Rec(c) == [tag |-> x.tag, level |-> x.level, comments |-> x.comments,
                        pairs |-> p, children |-> c]
  <2>2. [Rec(k) EXCEPT !.children = l] = Rec(l)
    OBVIOUS
  <2>3. Shown(x, k) = Rec(k) /\ Shown(x, l) = Rec(l)
    BY <2>1, Zenon DEF Shown
  <2> HIDE DEF Rec
  <2>4. QED
    BY <2>2, <2>3, Zenon DEF Above
<1>3. QED
  BY <1>1, <1>2, Zenon DEF Enlarged

(* The innermost section is closed: it becomes the last child of the one   *)
(* it stands in.                                                           *)
LEMMA SectionClosed ==
  ASSUME NEW t, IsTree(t), NEW calls, Nested(t, calls), Len(calls) > 1,
         NEW v, NEW w, IsView(t, OpenSet(calls), v), IsView(t, OpenSet(Front(calls)), w)
  PROVE  LET a == Seen(v, calls) IN
         Seen(w, Front(calls)) = Append(Front(Front(a)), Enlarged(Last(Front(a)), Last(a)))
<1> DEFINE N == Len(t)
           a == Seen(v, calls)
           c == Last(calls)
           less == Front(calls)
           p == Last(less)
           d == Len(calls)
           O == OpenSet(calls)
           Q == OpenSet(less)
<1>1. /\ d \in Nat /\ c = calls[d] /\ c \in 1 .. N /\ c \in O
      /\ less \in Seq(1 .. N) /\ Len(less) = d - 1
      /\ \A k \in 1 .. d - 1 : less[k] = calls[k] /\ calls[k] \in 1 .. N /\ calls[k] \in O
      /\ O = Q \union {c} /\ c \notin Q
  BY CallsAre
<1>2. calls \in Seq(1 .. N) /\ calls # <<>> /\ d > 1 /\ N \in Nat
  BY TreeIs DEF Nested
<1> HIDE DEF less, d, c
<1>3. /\ less # <<>> /\ p = calls[d - 1] /\ p \in 1 .. N /\ p \in O
      /\ Front(less) \in Seq(1 .. N) /\ Len(Front(less)) = d - 2
      /\ \A k \in 1 .. d - 2 : Front(less)[k] = calls[k]
  <2>1. less # <<>>
    BY <1>1, <1>2
  <2>2. /\ Front(less) \in Seq(1 .. N) /\ Len(Front(less)) = Len(less) - 1
        /\ \A k \in 1 .. Len(less) - 1 : Front(less)[k] = less[k]
    BY <1>1, <2>1, FrontLast
  <2>3. p = less[d - 1] /\ d - 1 \in 1 .. d - 1
    BY <1>1, <1>2 DEF Last
  <2>4. Len(less) - 1 = d - 2
    BY <1>1, <1>2
  <2>5. ASSUME NEW k \in 1 .. d - 2
        PROVE  Front(less)[k] = calls[k]
    <3>1. k \in 1 .. d - 1 /\ k \in 1 .. Len(less) - 1
      BY <1>1, <1>2
    <3>2. QED
      BY <1>1, <2>2, <3>1
  <2>6. QED
    BY <1>1, <2>1, <2>2, <2>3, <2>4, <2>5
<1>4. /\ t[c].parent = p /\ \A j \in 1 .. N : t[j].parent = p => j <= c
  <2>1. d - 1 \in 1 .. d - 1 /\ d - 1 + 1 = d
    BY <1>1, <1>2
  <2>2. /\ t[calls[d - 1 + 1]].parent = calls[d - 1]
        /\ \A j \in 1 .. N : t[j].parent = calls[d - 1] => j <= calls[d - 1 + 1]
    BY <2>1 DEF Nested, d
  <2>3. QED
    BY <1>1, <1>3, <2>1, <2>2
<1>5. \A k \in 1 .. d - 2 : calls[k] # p /\ calls[k] \in 1 .. N
  <2>1. \A k \in 1 .. d - 2 : k \in 1 .. d /\ d - 1 \in 1 .. d /\ k # d - 1 /\ k \in 1 .. d - 1
    BY <1>2, <1>1
  <2>2. \A i, j \in 1 .. d : calls[i] = calls[j] => i = j
    BY DEF Nested, d
  <2>3. QED
    BY <1>1, <1>3, <2>1, <2>2
<1> HIDE DEF p, O, Q
<1>6. KidsBut(t, Q, p) = Append(KidsBut(t, O, p), c)
  <2>1. \A i \in 1 .. N : i # c => (i \in Q <=> i \in O)
    BY <1>1
  <2> HIDE DEF N
  <2>2. N \in Nat /\ Len(t) = N /\ c \in 1 .. N /\ c \in O /\ c \notin Q
    BY <1>1, <1>2 DEF N
  <2>3. QED
    BY ONLY <1>4, <2>1, <2>2, KidsClosed
<1>7. \A n : n # p => KidsBut(t, Q, n) = KidsBut(t, O, n)
  <2> TAKE n
  <2>1. ASSUME n # p
        PROVE  \A i \in 1 .. N : t[i].parent = n => (i \in Q <=> i \in O)
    BY <1>1, <1>4, <2>1
  <2>2. QED
    BY <2>1, KidsSame
<1>8. IsView(t, O, v) /\ IsView(t, Q, w) /\ Len(t) <= Len(t)
  BY <1>2 DEF O, Q, less
<1>9. /\ \A n \in 1 .. N : n \notin O => w[n] = v[n]
      /\ \A n : Seen(w, KidsBut(t, O, n)) = Seen(v, KidsBut(t, O, n))
  <2>1. \A n \in 1 .. N : n \notin O => KidsBut(t, Q, n) = KidsBut(t, O, n)
    BY <1>3, <1>7
  <2>2. QED
    BY <1>8, <2>1, ViewsFollow
<1>10. \A n \in 1 .. N : v[n] = Shown(t[n], Seen(v, KidsBut(t, O, n)))
  BY <1>8, ViewOf
<1>11. \A n \in 1 .. N : w[n] = Shown(t[n], Seen(w, KidsBut(t, Q, n)))
  BY <1>8, ViewOf
<1>12. \A n \in 1 .. N : n # p => w[n] = v[n]
  BY <1>7, <1>9, <1>10, <1>11, Zenon
<1>13. w[p] = Enlarged(v[p], v[c])
  <2> DEFINE kids == KidsBut(t, O, p)
  <2>1. kids \in Seq(1 .. N)
    <3> DEFINE K == {i \in 1 .. N : t[i].parent = p /\ i \notin O}
    <3>1. kids \in Seq(K)
      BY KidsAre
    <3>2. K \subseteq 1 .. N
      OBVIOUS
    <3> HIDE DEF K, kids
    <3>3. QED
      BY <3>1, <3>2, SeqMonotonic
  <2>2. Seen(w, Append(kids, c)) = Append(Seen(w, kids), w[c])
    <3>1. PICK U : U = 1 .. N
      OBVIOUS
    <3> HIDE DEF kids
    <3>2. kids \in Seq(U) /\ c \in U
      BY <1>1, <2>1, <3>1
    <3>3. QED
      BY <3>2, SeenMore
  <2>3. c # p
    <3>1. t[c].parent < c /\ c \in Nat
      BY <1>1, TreeIs
    <3>2. QED
      BY <1>4, <3>1
  <2>4. w[p] = Shown(t[p], Append(Seen(v, kids), v[c]))
    <3>1. w[c] = v[c]
      BY <1>1, <1>12, <2>3
    <3>2. w[p] = Shown(t[p], Seen(w, KidsBut(t, Q, p)))
      BY <1>3, <1>11
    <3>3. Seen(w, kids) = Seen(v, kids)
      BY <1>9
    <3> HIDE DEF kids
    <3>4. KidsBut(t, Q, p) = Append(kids, c)
      BY <1>6 DEF kids
    <3>5. QED
      BY <2>2, <3>1, <3>2, <3>3, <3>4, Zenon
  <2>5. v[p] = Shown(t[p], Seen(v, kids))
    BY <1>3, <1>10
  <2> HIDE DEF kids
  <2>6. PICK z, k, y : z = t[p] /\ k = Seen(v, kids) /\ y = v[c]
    OBVIOUS
  <2>7. w[p] = Shown(z, Append(k, y)) /\ v[p] = Shown(z, k)
    BY <2>4, <2>5, <2>6, Zenon
  <2>8. Enlarged(Shown(z, k), y) = Shown(z, Append(k, y))
    BY ShownMore
  <2>9. QED
    BY <2>6, <2>7, <2>8, Zenon
<1>14. Seen(w, Front(less)) = Seen(v, Front(less))
  <2>1. \A k \in 1 .. Len(Front(less)) : w[Front(less)[k]] = v[Front(less)[k]]
    BY <1>3, <1>5, <1>12
  <2>2. QED
    BY <1>3, <2>1, SeenFront
<1>15. Seen(w, less) = Append(Seen(w, Front(less)), w[p])
  BY <1>1, <1>3, SeenLast DEF p
<1>16. Front(a) = Seen(v, less) /\ Last(a) = v[c]
  BY <1>2, SeenLast DEF less, c
<1>17. Front(Seen(v, less)) = Seen(v, Front(less)) /\ Last(Seen(v, less)) = v[p]
  BY <1>1, <1>3, SeenLast DEF p
<1>18. QED
  BY <1>13, <1>14, <1>15, <1>16, <1>17, Zenon DEF less

LEMMA NestedSame ==
  ASSUME NEW t, NEW u, NEW calls, Nested(t, calls), Len(u) = Len(t),
         \A i \in 1 .. Len(t) : u[i].parent = t[i].parent
  PROVE  Nested(u, calls)
<1>1. \A k \in 1 .. Len(calls) - 1 : calls[k + 1] \in 1 .. Len(t)
  <2>1. calls \in Seq(1 .. Len(t)) /\ Len(calls) \in Nat
    BY DEF Nested
  <2>2. QED
    BY <2>1
<1>2. QED
  BY <1>1 DEF Nested

LEMMA NestedOpened ==
  ASSUME NEW t, IsTree(t), NEW u, NEW N \in Nat, Len(t) = N, Len(u) = N + 1,
         \A i \in 1 .. N : u[i] = t[i],
         NEW calls, Nested(t, calls), u[N + 1].parent = Last(calls)
  PROVE  Nested(u, Append(calls, N + 1))
<1> DEFINE d == Len(calls)
           more == Append(calls, N + 1)
<1>1. /\ d \in Nat \ {0} /\ calls \in Seq(1 .. N) /\ calls[1] = Root
      /\ \A i, j \in 1 .. d : calls[i] = calls[j] => i = j
      /\ \A k \in 1 .. d - 1 :
           /\ t[calls[k + 1]].parent = calls[k]
           /\ \A j \in 1 .. N : t[j].parent = calls[k] => j <= calls[k + 1]
  <2>1. calls \in Seq(1 .. N) /\ calls # <<>>
    BY DEF Nested
  <2>2. QED
    BY <2>1 DEF Nested
<1>2. \A k \in 1 .. d : calls[k] \in 1 .. N
  BY <1>1
<1>3. Last(calls) = calls[d]
  BY DEF Last
<1> HIDE DEF d
<1>4. /\ more \in Seq(1 .. N + 1) /\ more # <<>> /\ Len(more) = d + 1 /\ more[d + 1] = N + 1
      /\ \A k \in 1 .. d : more[k] = calls[k]
  <2>1. calls \in Seq(1 .. N + 1) /\ N + 1 \in 1 .. N + 1
    <3>1. 1 .. N \subseteq 1 .. N + 1
      OBVIOUS
    <3>2. QED
      BY <1>1, <3>1, SeqMonotonic
  <2>2. QED
    BY <2>1, AppendProperties DEF d
<1> HIDE DEF more
<1>5. more[1] = Root
  BY <1>1, <1>4
<1>6. ASSUME NEW i \in 1 .. d + 1, NEW j \in 1 .. d + 1, more[i] = more[j]
      PROVE  i = j
  <2>1. (i = d + 1 \/ i \in 1 .. d) /\ (j = d + 1 \/ j \in 1 .. d)
    BY <1>1
  <2>2. \A k \in 1 .. d : more[k] # N + 1
    BY <1>2, <1>4
  <2>3. QED
    BY <1>1, <1>4, <1>6, <2>1, <2>2
<1>7. ASSUME NEW k \in 1 .. d
      PROVE  /\ u[more[k + 1]].parent = more[k]
             /\ \A j \in 1 .. N + 1 : u[j].parent = more[k] => j <= more[k + 1]
  <2>1. CASE k = d
    <3>1. more[k + 1] = N + 1 /\ more[k] = calls[d]
      BY <1>4, <2>1
    <3>2. \A j \in 1 .. N + 1 : j <= N + 1
      OBVIOUS
    <3>3. QED
      BY <1>3, <3>1, <3>2
  <2>2. CASE k # d
    <3>1. k \in 1 .. d - 1 /\ k + 1 \in 1 .. d /\ d \in 1 .. d
      BY <1>1, <2>2
    <3>2. more[k + 1] = calls[k + 1] /\ more[k] = calls[k] /\ calls[k + 1] \in 1 .. N
      BY <1>2, <1>4, <3>1
    <3>3. u[more[k + 1]].parent = more[k]
      BY <1>1, <3>1, <3>2
    <3>4. calls[d] # calls[k]
      BY <1>1, <2>2, <3>1
    <3>5. ASSUME NEW j \in 1 .. N + 1, u[j].parent = more[k]
          PROVE  j <= more[k + 1]
      <4>1. j # N + 1
        BY <1>3, <3>2, <3>4, <3>5
      <4>2. j \in 1 .. N
        BY <4>1
      <4>3. t[j].parent = calls[k]
        BY <3>2, <3>5, <4>2
      <4>4. QED
        BY <1>1, <3>1, <3>2, <4>2, <4>3
    <3>6. QED
      BY <3>3, <3>5
  <2>3. QED
    BY <2>1, <2>2
<1>9. /\ more \in Seq(1 .. Len(u)) /\ more # <<>> /\ more[1] = Root
      /\ \A i, j \in 1 .. Len(more) : more[i] = more[j] => i = j
  BY <1>4, <1>5, <1>6
<1>10. \A k \in 1 .. Len(more) - 1 :
         /\ u[more[k + 1]].parent = more[k]
         /\ \A j \in 1 .. Len(u) : u[j].parent = more[k] => j <= more[k + 1]
  <2>1. Len(more) - 1 = d
    <3>1. Len(more) = d + 1
      BY <1>4
    <3>2. QED
      BY <1>1, <3>1
  <2>2. PICK K : K = 1 .. N + 1
    OBVIOUS
  <2>3. 1 .. Len(u) = K
    BY <2>2
  <2>4. \A k \in 1 .. d : /\ u[more[k + 1]].parent = more[k]
                         /\ \A j \in K : u[j].parent = more[k] => j <= more[k + 1]
    BY <1>7, <2>2, Zenon
  <2>5. QED
    BY <2>1, <2>3, <2>4, Zenon
<1>11. Nested(u, more)
  BY <1>9, <1>10 DEF Nested
<1>12. QED
  BY <1>11 DEF more

LEMMA NestedClosed ==
  ASSUME NEW t, NEW calls, Nested(t, calls), Len(calls) > 1
  PROVE  Nested(t, Front(calls))
<1> DEFINE d == Len(calls)
           less == Front(calls)
<1>1. /\ d \in Nat /\ less \in Seq(1 .. Len(t)) /\ Len(less) = d - 1
      /\ \A k \in 1 .. d - 1 : less[k] = calls[k]
  BY CallsAre
<1>2. /\ calls[1] = Root /\ d > 1
      /\ \A i, j \in 1 .. d : calls[i] = calls[j] => i = j
      /\ \A k \in 1 .. d - 1 :
           /\ t[calls[k + 1]].parent = calls[k]
           /\ \A j \in 1 .. Len(t) : t[j].parent = calls[k] => j <= calls[k + 1]
  BY DEF Nested
<1> HIDE DEF d, less
<1>3. 1 \in 1 .. d - 1 /\ \A k \in 1 .. d - 1 : k \in 1 .. d
  BY <1>1, <1>2
<1>4. \A k \in 1 .. d - 2 : k \in 1 .. d - 1 /\ k + 1 \in 1 .. d - 1
  BY <1>1
<1>5. less # <<>> /\ less[1] = Root
  BY <1>1, <1>2, <1>3
<1>6. \A i, j \in 1 .. d - 1 : less[i] = less[j] => i = j
  BY <1>1, <1>2, <1>3
<1>7. \A k \in 1 .. d - 2 :
        /\ t[less[k + 1]].parent = less[k]
        /\ \A j \in 1 .. Len(t) : t[j].parent = less[k] => j <= less[k + 1]
  BY <1>1, <1>2, <1>4
<1>8. d - 1 - 1 = d - 2
  BY <1>1
<1>9. QED
  BY <1>1, <1>5, <1>6, <1>7, <1>8 DEF Nested, less

-----------------------------------------------------------------------------
(* Every tree the parser and the editing calls make is tidy.               *)

LEMMA TidyChanged ==
  ASSUME NEW t, IsTree(t), Tidy(t), NEW u, Len(u) = Len(t), NEW n \in 1 .. Len(t),
         TidyNode(u[n]), u[n].level = t[n].level, u[n].parent = t[n].parent,
         \A i \in 1 .. Len(t) : i # n => u[i] = t[i]
  PROVE  Tidy(u)
<1>1. Root \in 1 .. Len(t)
  BY TreeIs DEF Root
<1>2. \A i \in 1 .. Len(t) : u[i].level = t[i].level /\ u[i].parent = t[i].parent /\ TidyNode(u[i])
  BY DEF Tidy
<1>3. \A i \in 1 .. Len(t) : t[i].parent # NoNode => t[i].parent \in 1 .. Len(t)
  BY TreeIs DEF NoNode
<1>4. QED
  BY <1>1, <1>2, <1>3 DEF Tidy

LEMMA TidyAdded ==
  ASSUME NEW t, IsTree(t), Tidy(t), NEW tag \in Words, NEW n \in 1 .. Len(t)
  PROVE  Tidy(Append(t, Node(tag, n, t[n].level + 1)))
<1> DEFINE x == Node(tag, n, t[n].level + 1)
           u == Append(t, x)
           N == Len(t)
<1>1. /\ Len(u) = N + 1 /\ u[N + 1] = x /\ \A i \in 1 .. N : u[i] = t[i]
  BY NodeAdded
<1>2. /\ x.parent = n /\ x.level = t[n].level + 1 /\ x.comments = <<>> /\ x.pairs = <<>>
      /\ x.raw = <<>>
  BY DEF Node
<1>3. N \in Nat /\ Root \in 1 .. N
  BY TreeIs DEF Root
<1> HIDE DEF x, u, N
<1>4. TidyNode(x)
  BY <1>2 DEF TidyNode, Marked
<1>5. ASSUME NEW i \in 1 .. N + 1
      PROVE  TidyNode(u[i]) /\ (u[i].parent # NoNode => u[i].level = u[u[i].parent].level + 1)
  <2>1. CASE i = N + 1
    BY <1>1, <1>2, <1>4, <2>1 DEF N
  <2>2. CASE i # N + 1
    <3>1. i \in 1 .. N
      BY <1>3, <2>2
    <3>2. t[i].parent # NoNode => t[i].parent \in 1 .. N
      BY <3>1, TreeIs DEF NoNode, N
    <3>3. TidyNode(t[i]) /\ (t[i].parent # NoNode => t[i].level = t[t[i].parent].level + 1)
      BY <3>1 DEF Tidy, N
    <3>4. QED
      BY <1>1, <3>1, <3>2, <3>3
  <2>3. QED
    BY <2>1, <2>2
<1>6. u[Root].level = -1
  BY <1>1, <1>3 DEF Tidy
<1>7. Tidy(u)
  BY <1>1, <1>5, <1>6 DEF Tidy
<1>8. QED
  BY <1>7 DEF u, x

LEMMA TidyTaken ==
  ASSUME NEW t, IsTree(t), Tidy(t), NEW gone
  PROVE  Tidy(Without(t, gone))
<1> DEFINE u == Without(t, gone)
<1>1. /\ Len(u) = Len(t)
      /\ \A i \in 1 .. Len(t) :
           /\ u[i].parent \in {t[i].parent, NoNode} /\ u[i].level = t[i].level
           /\ u[i].comments = t[i].comments /\ u[i].pairs = t[i].pairs /\ u[i].raw = t[i].raw
  BY NodesTaken
<1> HIDE DEF u
<1>2. /\ Root \in 1 .. Len(t)
      /\ \A i \in 1 .. Len(t) : t[i].parent # NoNode => t[i].parent \in 1 .. Len(t)
  BY TreeIs DEF Root, NoNode
<1>3. ASSUME NEW i \in 1 .. Len(t)
      PROVE  TidyNode(u[i]) /\ (u[i].parent # NoNode => u[i].level = u[u[i].parent].level + 1)
  <2>1. TidyNode(t[i]) /\ (t[i].parent # NoNode => t[i].level = t[t[i].parent].level + 1)
    BY DEF Tidy
  <2>2. TidyNode(u[i])
    BY <1>1, <2>1 DEF TidyNode
  <2>3. QED
    BY <1>1, <1>2, <2>1, <2>2
<1>4. Tidy(u)
  BY <1>1, <1>2, <1>3 DEF Tidy
<1>5. QED
  BY <1>4 DEF u

LEMMA EditTidy ==
  ASSUME NEW t, IsTree(t), Tidy(t), NEW u, EditLeaves(t, u)
  PROVE  Tidy(u)
<1>1. Marked(<<>>)
  BY DEF Marked
<1>2. ASSUME NEW n \in 1 .. Len(t), NEW p \in Pairs, CommentsFrom(p, t[n].pairs),
             u = WithPairs(t, n, p)
      PROVE  Tidy(u)
  <2>1. /\ Len(u) = Len(t) /\ u[n].pairs = p
        /\ u[n].parent = t[n].parent /\ u[n].comments = t[n].comments
        /\ u[n].level = t[n].level /\ u[n].raw = t[n].raw
        /\ \A i \in 1 .. Len(t) : i # n => u[i] = t[i]
    BY <1>2, PairsSet
  <2>2. TidyNode(t[n])
    BY DEF Tidy
  <2>3. \A i \in 1 .. Len(p) : Marked(p[i].comments)
    BY <1>1, <1>2, <2>2, Zenon DEF TidyNode, CommentsFrom
  <2>4. TidyNode(u[n])
    BY <2>1, <2>2, <2>3 DEF TidyNode
  <2>5. QED
    BY <2>1, <2>4, TidyChanged
<1>3. ASSUME NEW n \in 1 .. Len(t), NEW r \in Comments, RawFrom(r, t[n].raw),
             u = WithRaw(t, n, r)
      PROVE  Tidy(u)
  <2>1. /\ Len(u) = Len(t) /\ u[n].raw = r
        /\ u[n].parent = t[n].parent /\ u[n].comments = t[n].comments
        /\ u[n].level = t[n].level /\ u[n].pairs = t[n].pairs
        /\ \A i \in 1 .. Len(t) : i # n => u[i] = t[i]
    BY <1>3, RawSet
  <2>2. TidyNode(t[n])
    BY DEF Tidy
  <2>3. \A i \in 1 .. Len(r) : IsRaw(r[i])
    BY <1>3, <2>2, Zenon DEF TidyNode, RawFrom
  <2>4. TidyNode(u[n])
    BY <2>1, <2>2, <2>3 DEF TidyNode
  <2>5. QED
    BY <2>1, <2>4, TidyChanged
<1>4. ASSUME NEW n \in 1 .. Len(t), NEW tag \in Words, u = Append(t, Node(tag, n, t[n].level + 1))
      PROVE  Tidy(u)
  BY <1>4, TidyAdded
<1>5. ASSUME NEW gone, u = Without(t, gone)
      PROVE  Tidy(u)
  BY <1>5, TidyTaken
<1>6. QED
  BY <1>2, <1>3, <1>4, <1>5, Zenon DEF EditLeaves

(* No raw line is ever parsed.                                             *)
NoRaw(t) == \A i \in 1 .. Len(t) : t[i].raw = <<>>

LEMMA FreshTidy == Tidy(Fresh) /\ NoRaw(Fresh)
<1>1. Fresh = <<Node(<<>>, NoNode, -1)>>
  BY DEF Fresh
<1> DEFINE x == Node(<<>>, NoNode, -1)
<1>2. x.level = -1 /\ x.parent = NoNode /\ x.comments = <<>> /\ x.pairs = <<>> /\ x.raw = <<>>
  BY DEF Node
<1>3. Fresh[1] = x /\ Len(Fresh) = 1
  BY <1>1
<1> HIDE DEF x
<1>4. TidyNode(x)
  BY <1>2 DEF TidyNode, Marked
<1>5. \A i \in 1 .. 1 : i = 1
  OBVIOUS
<1>6. QED
  BY <1>2, <1>3, <1>4, <1>5 DEF Tidy, NoRaw, Root

LEMMA MarkedMore ==
  ASSUME NEW c \in Comments, Marked(c), NEW w \in Words, w # <<>>, w[1] = "#"
  PROVE  Append(c, w) \in Comments /\ Marked(Append(c, w))
<1> DEFINE d == Append(c, w)
<1>1. /\ d \in Comments /\ Len(c) \in Nat /\ Len(d) = Len(c) + 1 /\ d[Len(c) + 1] = w
      /\ \A i \in 1 .. Len(c) : d[i] = c[i]
  BY AppendProperties DEF Comments
<1> HIDE DEF d
<1>2. \A i \in 1 .. Len(d) : i = Len(c) + 1 \/ i \in 1 .. Len(c)
  BY <1>1
<1>3. Marked(d)
  BY <1>1, <1>2 DEF Marked
<1>4. QED
  BY <1>1, <1>3 DEF d

-----------------------------------------------------------------------------
(* The parser reads what the reader does.                                  *)

Sect(g, l, c, p, k) ==
  [tag |-> g, level |-> l, comments |-> c, pairs |-> p, children |-> k]

LEMMA ShownIs ==
  ASSUME NEW x, x.raw = <<>>, x.pairs \in Pairs, NEW k
  PROVE  Shown(x, k) = Sect(x.tag, x.level, x.comments, x.pairs, k)
<1>1. RawPairs(<<>>) = <<>>
  BY DEF RawPairs
<1>2. PICK p \in Pairs : p = x.pairs
  OBVIOUS
<1>3. <<>> \o p = p
  BY DEF Pairs
<1>4. RawPairs(x.raw) \o x.pairs = x.pairs
  BY <1>1, <1>2, <1>3, Zenon
<1>5. QED
  BY <1>4, Zenon DEF Shown, Sect

(* A comment, at a section without pairs and at the last pair.             *)
LEMMA ShownNoted ==
  ASSUME NEW x, x.raw = <<>>, x.pairs = <<>>, NEW y, y.raw = <<>>, y.pairs = <<>>,
         y.tag = x.tag, y.level = x.level, NEW w, y.comments = Append(x.comments, w), NEW k
  PROVE  Shown(y, k) = Commented(Shown(x, k), w)
<1>1. PICK g, l, c : g = x.tag /\ l = x.level /\ c = x.comments
  OBVIOUS
<1>2. Shown(x, k) = Sect(g, l, c, <<>>, k)
  BY <1>1, ShownIs, EmptyIsTyped
<1>3. PICK d : d = Append(c, w)
  OBVIOUS
<1>4. Shown(y, k) = Sect(g, l, d, <<>>, k)
  BY <1>1, <1>3, ShownIs, EmptyIsTyped
<1>5. PICK z : z = Sect(g, l, c, <<>>, k)
  OBVIOUS
<1>6. z.comments = c /\ z.pairs = <<>> /\ Noted(z, d) = Sect(g, l, d, <<>>, k)
  BY <1>5 DEF Sect, Noted
<1>7. Commented(z, w) = Noted(z, d)
  BY <1>3, <1>6, Zenon DEF Commented
<1>8. QED
  BY <1>2, <1>4, <1>5, <1>6, <1>7, Zenon

NotedLast(p, w) == Append(Front(p), Noted(Last(p), Append(Last(p).comments, w)))

LEMMA ShownPairNoted ==
  ASSUME NEW x, x.raw = <<>>, x.pairs \in Pairs, x.pairs # <<>>,
         NEW y, y.raw = <<>>, y.pairs \in Pairs,
         y.tag = x.tag, y.level = x.level, y.comments = x.comments, NEW w,
         y.pairs = NotedLast(x.pairs, w), NEW k
  PROVE  Shown(y, k) = Commented(Shown(x, k), w)
<1>1. PICK g, l, c, p : g = x.tag /\ l = x.level /\ c = x.comments /\ p = x.pairs
  OBVIOUS
<1>2. Shown(x, k) = Sect(g, l, c, p, k) /\ p # <<>>
  BY <1>1, ShownIs
<1>3. PICK q : q = NotedLast(p, w)
  OBVIOUS
<1>4. Shown(y, k) = Sect(g, l, c, q, k)
  BY <1>1, <1>3, ShownIs
<1>5. PICK z : z = Sect(g, l, c, p, k)
  OBVIOUS
<1>6. z.pairs = p /\ Holding(z, q) = Sect(g, l, c, q, k)
  BY <1>5 DEF Sect, Holding
<1>7. Commented(z, w) = Holding(z, q)
  BY <1>2, <1>3, <1>6, Zenon DEF Commented, NotedLast
<1>8. QED
  BY <1>2, <1>4, <1>5, <1>6, <1>7, Zenon

OnePairMore(p, e) == Append(p, e)

LEMMA ShownPaired ==
  ASSUME NEW x, x.raw = <<>>, x.pairs \in Pairs, NEW y, y.raw = <<>>, y.pairs \in Pairs,
         y.tag = x.tag, y.level = x.level, y.comments = x.comments, NEW e,
         y.pairs = OnePairMore(x.pairs, e), NEW k
  PROVE  Shown(y, k) = Paired(Shown(x, k), e)
<1>1. PICK g, l, c, p : g = x.tag /\ l = x.level /\ c = x.comments /\ p = x.pairs
  OBVIOUS
<1>2. Shown(x, k) = Sect(g, l, c, p, k)
  BY <1>1, ShownIs
<1>3. PICK q : q = OnePairMore(p, e)
  OBVIOUS
<1>4. Shown(y, k) = Sect(g, l, c, q, k)
  BY <1>1, <1>3, ShownIs
<1>5. PICK z : z = Sect(g, l, c, p, k)
  OBVIOUS
<1>6. z.pairs = p /\ Holding(z, q) = Sect(g, l, c, q, k)
  BY <1>5 DEF Sect, Holding
<1>7. Paired(z, e) = Holding(z, q)
  BY <1>3, <1>6, Zenon DEF Paired, OnePairMore
<1>8. QED
  BY <1>2, <1>4, <1>5, <1>6, <1>7, Zenon

(* What the reader does with a line of each kind.                          *)
LEMMA CommentReads ==
  ASSUME NEW a, NEW w, NEW b, ReadsLine(a, w, b), w # <<>>, w[1] = "#"
  PROVE  Front(a) # <<>> /\ b = Append(Front(a), Commented(Last(a), w))
BY DEF ReadsLine, IsA

LEMMA LineReads ==
  ASSUME NEW a, NEW w, NEW b, ReadsLine(a, w, b), w # <<>> => w[1] # "#"
  PROVE  /\ w # <<>>
         /\ DetectLineType(w) # "ERROR"
         /\ DetectLineType(w) = "KVPAIR" =>
              Front(a) # <<>> /\ b = Append(Front(a), Paired(Last(a), PairOf(w)))
         /\ DetectLineType(w) = "SECTION_BEGIN" =>
              b = Append(a, Begun(Last(a), SubSeq(w, 2, Len(w) - 1)))
         /\ DetectLineType(w) = "SECTION_END" =>
              /\ Front(a) # <<>> /\ SubSeq(w, 3, Len(w) - 1) = Last(a).tag
              /\ b = Append(Front(Front(a)), Enlarged(Last(Front(a)), Last(a)))
BY DEF ReadsLine, IsA

(* The calls of the parser and the reader's sections.                      *)
LEMMA OpenedIs ==
  ASSUME NEW t, NEW calls, Nested(t, calls), NEW v
  PROVE  LET a == Seen(v, calls) IN
         /\ Front(a) # <<>> <=> Len(calls) > 1
         /\ Last(a) = v[Last(calls)]
<1>1. calls \in Seq(1 .. Len(t)) /\ calls # <<>>
  BY DEF Nested
<1>2. PICK U : U = 1 .. Len(t)
  OBVIOUS
<1>3. calls \in Seq(U)
  BY <1>1, <1>2
<1>4. QED
  BY <1>1, <1>3, SeenLast

LEMMA NestedFirst ==
  ASSUME NEW t, IsTree(t)
  PROVE  Nested(t, <<Root>>)
<1>1. Root \in 1 .. Len(t)
  BY TreeIs DEF Root
<1>2. PICK U, r : U = 1 .. Len(t) /\ r = Root
  OBVIOUS
<1>3. r \in U
  BY <1>1, <1>2
<1>4. /\ <<r>> \in Seq(U) /\ <<r>> # <<>> /\ Len(<<r>>) = 1 /\ <<r>>[1] = r
  BY <1>3
<1>5. \A i, j \in 1 .. 1 : i = j
  OBVIOUS
<1>6. 1 .. 1 - 1 = {}
  OBVIOUS
<1>7. QED
  BY <1>2, <1>4, <1>5, <1>6 DEF Nested

(* What stays to be read when z is the whole.                              *)
ReadsOn(t, calls, lines, z) ==
  \E v : IsView(t, OpenSet(calls), v) /\ ReadsText(lines, Seen(v, calls), <<z>>)

LEMMA ReadsAtFirst ==
  ASSUME NEW lines, NEW z, ReadsText(lines, <<Outer(<<>>)>>, <<z>>)
  PROVE  ReadsOn(Fresh, <<Root>>, lines, z)
<1> DEFINE t == Fresh
           O == OpenSet(<<Root>>)
           kids == KidsBut(t, O, Root)
<1>1. IsTree(t) /\ Len(t) = 1
  BY FreshIs
<1>2. t[1] = Node(<<>>, NoNode, -1)
  BY DEF Fresh
<1> HIDE DEF t, O
<1>3. PICK v : IsView(t, O, v)
  BY <1>1, ViewExists
<1>4. kids = <<>>
  <2>1. \A i \in 1 .. Len(t) : i = 1
    BY <1>1
  <2>2. t[1].parent = 0
    BY <1>2 DEF Node, NoNode
  <2>3. \A i \in 1 .. Len(t) : t[i].parent # Root
    BY <2>1, <2>2 DEF Root
  <2>4. QED
    BY <1>1, <2>3, KidsNone
<1>5. v[Root] = Shown(t[Root], Seen(v, kids))
  BY <1>1, <1>3, ViewOf DEF Root
<1>6. Seen(v, <<>>) = <<>>
  BY DEF Seen
<1>7. t[Root] = Node(<<>>, NoNode, -1)
  BY <1>2 DEF Root
<1> HIDE DEF kids
<1>8. v[Root] = Shown(Node(<<>>, NoNode, -1), <<>>)
  BY <1>4, <1>5, <1>6, <1>7, Zenon
<1>9. Shown(Node(<<>>, NoNode, -1), <<>>) = Outer(<<>>)
  <2>1. PICK x : x = Node(<<>>, NoNode, -1)
    OBVIOUS
  <2>2. x.raw = <<>> /\ x.pairs = <<>> /\ x.tag = <<>> /\ x.level = -1 /\ x.comments = <<>>
    BY <2>1 DEF Node
  <2>3. Shown(x, <<>>) = Sect(<<>>, -1, <<>>, <<>>, <<>>)
    BY <2>2, ShownIs, EmptyIsTyped
  <2>4. QED
    BY <2>1, <2>3 DEF Sect, Outer
<1>10. Seen(v, <<Root>>) = <<v[Root]>>
  BY DEF Seen
<1>11. Seen(v, <<Root>>) = <<Outer(<<>>)>>
  BY <1>8, <1>9, <1>10, Zenon
<1>12. QED
  BY <1>3, <1>11, Zenon DEF ReadsOn, t, O

LEMMA ReadsAtLast ==
  ASSUME NEW t, IsTree(t), NEW calls, Nested(t, calls), NEW z, ReadsOn(t, calls, <<>>, Outer(z))
  PROVE  View(t) = z
<1> DEFINE O == OpenSet(calls)
<1>1. PICK v : IsView(t, O, v) /\ ReadsText(<<>>, Seen(v, calls), <<Outer(z)>>)
  BY DEF ReadsOn
<1>2. Seen(v, calls) = <<Outer(z)>>
  BY <1>1, ReadsEnded
<1>3. calls \in Seq(1 .. Len(t)) /\ calls # <<>> /\ calls[1] = Root
  BY DEF Nested
<1>4. Len(calls) = 1 /\ v[Root] = Outer(z)
  <2>1. DOMAIN Seen(v, calls) = 1 .. Len(calls) /\ Len(calls) \in Nat \ {0}
    BY <1>3 DEF Seen
  <2>2. DOMAIN <<Outer(z)>> = 1 .. 1
    OBVIOUS
  <2>3. 1 .. Len(calls) = 1 .. 1
    BY <1>2, <2>1, <2>2, Zenon
  <2>4. Len(calls) = 1
    <3>1. PICK m \in Nat \ {0} : m = Len(calls)
      BY <2>1
    <3>2. 1 .. m = 1 .. 1
      BY <2>3, <3>1
    <3>3. m \in 1 .. m /\ \A i \in 1 .. 1 : i = 1
      OBVIOUS
    <3>4. QED
      BY <3>1, <3>2, <3>3
  <2>5. Seen(v, calls)[1] = v[calls[1]]
    BY <2>1 DEF Seen
  <2>6. <<Outer(z)>>[1] = Outer(z)
    OBVIOUS
  <2>7. QED
    BY <1>2, <1>3, <2>4, <2>5, <2>6, Zenon
<1>5. O = {Root}
  BY <1>3, <1>4 DEF OpenSet
<1>6. PICK Q : Q = {}
  OBVIOUS
<1>7. ASSUME NEW n \in 1 .. Len(t)
      PROVE  KidsBut(t, Q, n) = KidsBut(t, O, n)
  <2>1. t[Root].parent # n
    BY TreeIs DEF Root
  <2>2. \A i \in 1 .. Len(t) : t[i].parent = n => (i \in Q <=> i \in O)
    BY <1>5, <1>6, <2>1
  <2> HIDE DEF O
  <2>3. QED
    BY <2>2, KidsSame
<1> HIDE DEF O
<1>8. \A n \in 1 .. Len(t) :
        Shown(t[n], Seen(v, KidsBut(t, Q, n))) = Shown(t[n], Seen(v, KidsBut(t, O, n)))
  BY <1>7, Zenon
<1>9. v = [n \in 1 .. Len(t) |-> Shown(t[n], Seen(v, KidsBut(t, O, n)))]
  BY <1>1 DEF IsView
<1>10. [n \in 1 .. Len(t) |-> Shown(t[n], Seen(v, KidsBut(t, Q, n)))]
         = [n \in 1 .. Len(t) |-> Shown(t[n], Seen(v, KidsBut(t, O, n)))]
  BY <1>8, Zenon
<1>11. IsView(t, Q, v)
  BY <1>9, <1>10, Zenon DEF IsView
<1>12. View(t) = v[Root].children
  BY <1>6, <1>11, ViewIs
<1>13. QED
  BY <1>4, <1>12 DEF Outer

(* A text is parsed, and the tree is what the parser makes.                *)
AtWork ==
  /\ CodecInv /\ status = "parsing"
  /\ Nested(nodes, open) /\ NoRaw(nodes) /\ Tidy(nodes)

(* A step of the parser goes on as the reader would, up to the end.        *)
Advances ==
  /\ Tidy(nodes')
  /\ status' = "parsing" => Nested(nodes', open') /\ NoRaw(nodes')
  /\ \A z : ReadsOn(nodes, open, file, Outer(z)) =>
       IF status' = "parsing" THEN ReadsOn(nodes', open', file', Outer(z))
       ELSE status' = "SUCCESS" /\ View(nodes') = z

LEMMA LineIsRead ==
  ASSUME CodecInv, file # <<>>, NEW t, NEW calls, NEW y, ReadsOn(t, calls, file, y)
  PROVE  \E v, b : /\ IsView(t, OpenSet(calls), v) /\ ReadsLine(Seen(v, calls), Line, b)
                   /\ ReadsText(Tail(file), b, <<y>>)
<1>1. PICK v : IsView(t, OpenSet(calls), v) /\ ReadsText(file, Seen(v, calls), <<y>>)
  BY DEF ReadsOn
<1>2. file \in Seq(Words)
  BY DEF CodecInv
<1>3. PICK b : ReadsLine(Seen(v, calls), Head(file), b) /\ ReadsText(Tail(file), b, <<y>>)
  BY <1>1, <1>2, ReadsFirst
<1>4. QED
  BY <1>1, <1>3, Zenon DEF Line

(* Outside of every section no comment, pair or end can be read.           *)
LEMMA StackIsThere ==
  ASSUME AtWork, NEW v, Front(Seen(v, open)) # <<>>
  PROVE  stack # <<>>
<1>1. Len(open) > 1
  BY OpenedIs DEF AtWork
<1>2. Len(open) = Len(stack) + 1
  BY Innermost DEF AtWork
<1>3. QED
  BY <1>1, <1>2

(* The innermost section alone is changed.                                 *)
LEMMA TopGoesOn ==
  ASSUME AtWork, NEW u, IsTree(u), Len(u) = Len(nodes),
         \A i \in 1 .. Len(nodes) :
           u[i].parent = nodes[i].parent /\ (i # Last(open) => u[i] = nodes[i]),
         NEW v, IsView(nodes, OpenSet(open), v), NEW lines, NEW b, NEW y,
         ReadsText(lines, b, <<y>>),
         \A k : v[Last(open)] = Shown(nodes[Last(open)], k)
                  => b = Append(Front(Seen(v, open)), Shown(u[Last(open)], k))
  PROVE  ReadsOn(u, open, lines, y)
<1>1. PICK w : IsView(u, OpenSet(open), w)
  BY ViewExists
<1> DEFINE c == Seen(v, KidsBut(nodes, OpenSet(open), Last(open)))
<1>2. /\ v[Last(open)] = Shown(nodes[Last(open)], c)
      /\ Seen(w, open) = Append(Front(Seen(v, open)), Shown(u[Last(open)], c))
  <2>1. IsTree(nodes) /\ Nested(nodes, open)
    BY DEF AtWork, CodecInv
  <2>2. QED
    BY <1>1, <2>1, TopChanged
<1> HIDE DEF c
<1>3. Seen(w, open) = b
  BY <1>2, Zenon
<1>4. QED
  BY <1>1, <1>3, Zenon DEF ReadsOn

LEMMA LastSet ==
  ASSUME NEW S, NEW s \in Seq(S), s # <<>>, NEW e \in S
  PROVE  [s EXCEPT ![Len(s)] = e] = Append(Front(s), e)
<1>1. /\ Front(s) \in Seq(S) /\ Len(s) \in Nat \ {0} /\ Len(Front(s)) = Len(s) - 1
      /\ \A i \in 1 .. Len(s) - 1 : Front(s)[i] = s[i]
  BY FrontLast
<1> DEFINE z == [s EXCEPT ![Len(s)] = e]
           y == Append(Front(s), e)
<1>2. Len(s) \in 1 .. Len(s)
  BY <1>1
<1>3. /\ z \in Seq(S) /\ Len(z) = Len(s) /\ z[Len(s)] = e
      /\ \A i \in 1 .. Len(s) : i # Len(s) => z[i] = s[i]
  BY <1>2, ExceptSeq
<1> HIDE DEF z
<1>4. /\ y \in Seq(S) /\ Len(y) = Len(Front(s)) + 1 /\ y[Len(Front(s)) + 1] = e
      /\ \A i \in 1 .. Len(Front(s)) : y[i] = Front(s)[i]
  BY <1>1, AppendProperties
<1> HIDE DEF y
<1>5. Len(y) = Len(s) /\ y[Len(s)] = e /\ \A i \in 1 .. Len(s) - 1 : y[i] = s[i]
  BY <1>1, <1>4
<1>6. \A i \in 1 .. Len(s) : i = Len(s) \/ (i # Len(s) /\ i \in 1 .. Len(s) - 1)
  BY <1>1
<1>7. \A i \in 1 .. Len(s) : z[i] = y[i]
  BY <1>3, <1>5, <1>6
<1>8. z = y
  BY <1>3, <1>4, <1>5, <1>7, SeqEqual
<1>9. QED
  BY <1>8 DEF z, y

(* What a comment, a pair or a section leaves of the innermost node.       *)
TopLeft(u) ==
  LET n == Last(open) IN
  /\ n \in 1 .. Len(nodes)
  /\ IsTree(u) /\ Len(u) = Len(nodes)
  /\ u[n].parent = nodes[n].parent /\ u[n].level = nodes[n].level
  /\ u[n].raw = <<>> /\ TidyNode(u[n])
  /\ \A i \in 1 .. Len(nodes) : i # n => u[i] = nodes[i]

LEMMA CommentLeaves ==
  ASSUME AtWork, ReadComment, stack # <<>>, Line \in Words, Line # <<>>, Line[1] = "#"
  PROVE  /\ TopLeft(nodes') /\ status' = "parsing"
         /\ \A k : Shown(nodes'[Last(open)], k) = Commented(Shown(nodes[Last(open)], k), Line)
<1> DEFINE n == Last(open)
           x == nodes[n]
           ps == x.pairs
<1>1. /\ CodecInv /\ status = "parsing" /\ NoRaw(nodes) /\ Tidy(nodes) /\ IsTree(nodes)
  BY DEF AtWork, CodecInv
<1>2. n \in 1 .. Len(nodes) /\ Last(stack) = LastIn(nodes, n)
  BY <1>1, Innermost
<1>3. Last(stack).node = n /\ Last(stack).pair = Len(ps)
  BY <1>2 DEF LastIn
<1>4. /\ ps \in Seq(PairType) /\ ps \in Pairs /\ x.comments \in Comments /\ Marked(x.comments)
      /\ x.raw = <<>> /\ \A i \in 1 .. Len(ps) : Marked(ps[i].comments)
  BY <1>1, <1>2, TreeIs DEF Pairs, PairType, NoRaw, Tidy, TidyNode
<1>5. /\ status' = "parsing"
      /\ nodes' = IF Len(ps) = 0
                  THEN [nodes EXCEPT ![n].comments = Append(@, Line)]
                  ELSE [nodes EXCEPT ![n].pairs[Len(ps)].comments = Append(@, Line)]
  BY <1>1, <1>3 DEF ReadComment
<1>6. CASE ps = <<>>
  <2> DEFINE c == Append(x.comments, Line)
  <2>1. c \in Comments /\ Marked(c)
    BY <1>4, MarkedMore
  <2>2. nodes' = WithComments(nodes, n, c)
    BY <1>5, <1>6 DEF WithComments
  <2> DEFINE u == WithComments(nodes, n, c)
  <2> HIDE DEF n
  <2>3. /\ IsTree(u) /\ Len(u) = Len(nodes) /\ u[n].comments = c
        /\ u[n].tag = x.tag /\ u[n].parent = x.parent /\ u[n].pairs = ps
        /\ u[n].level = x.level /\ u[n].raw = x.raw
        /\ \A i \in 1 .. Len(nodes) : i # n => u[i] = nodes[i]
    <3> HIDE DEF c
    <3>1. QED
      BY <1>1, <1>2, <2>1, CommentsSet
  <2> HIDE DEF u
  <2>4. TidyNode(u[n])
    BY <1>4, <2>1, <2>3 DEF TidyNode
  <2>5. \A k : Shown(u[n], k) = Commented(Shown(x, k), Line)
    BY <1>4, <1>6, <2>3, ShownNoted
  <2>6. TopLeft(u)
    BY <1>2, <1>4, <2>3, <2>4 DEF TopLeft, n
  <2>7. nodes' = u
    BY <2>2 DEF u
  <2>8. QED
    BY <1>5, <2>5, <2>6, <2>7, Zenon DEF n
<1>7. CASE ps # <<>>
  <2> DEFINE l == Last(ps)
             e == Noted(l, Append(l.comments, Line))
             p == Append(Front(ps), e)
  <2>1. Len(ps) \in 1 .. Len(ps) /\ l = ps[Len(ps)] /\ l \in PairType
    BY <1>4, <1>7 DEF Last
  <2>2. Marked(l.comments) /\ l.comments \in Comments
    BY <1>4, <2>1 DEF PairType
  <2>3. Append(l.comments, Line) \in Comments /\ Marked(Append(l.comments, Line))
    BY <2>2, MarkedMore
  <2>4. e \in PairType /\ e.comments = Append(l.comments, Line)
    <3> DEFINE d == Append(l.comments, Line)
    <3> HIDE DEF d, l
    <3>1. [l EXCEPT !.comments = d] \in PairType /\ [l EXCEPT !.comments = d].comments = d
      BY <2>1, <2>3 DEF PairType, d
    <3>2. QED
      BY <3>1 DEF Noted, d
  <2>5. nodes' = [nodes EXCEPT ![n].pairs = [ps EXCEPT ![Len(ps)] = e]]
    <3>1. Len(ps) # 0
      BY <2>1
    <3>2. nodes' = [nodes EXCEPT ![n].pairs[Len(ps)].comments = Append(@, Line)]
      BY <1>5, <3>1
    <3>3. QED
      BY <2>1, <3>2 DEF Noted
  <2> HIDE DEF e
  <2>6. [ps EXCEPT ![Len(ps)] = e] = p
    <3>1. PICK S, s, f : S = PairType /\ s = ps /\ f = e
      OBVIOUS
    <3>2. s \in Seq(S) /\ s # <<>> /\ f \in S
      BY <1>4, <1>7, <2>4, <3>1
    <3>3. [s EXCEPT ![Len(s)] = f] = Append(Front(s), f)
      BY <3>2, LastSet
    <3>4. QED
      BY <3>1, <3>3, Zenon
  <2>7. nodes' = WithPairs(nodes, n, p)
    BY <2>5, <2>6 DEF WithPairs
  <2>8. Front(ps) \in Seq(PairType) /\ Len(Front(ps)) = Len(ps) - 1
        /\ \A i \in 1 .. Len(ps) - 1 : Front(ps)[i] = ps[i]
    BY <1>4, <1>7, FrontLast
  <2>9. /\ p \in Seq(PairType) /\ Len(p) = Len(Front(ps)) + 1 /\ p[Len(Front(ps)) + 1] = e
        /\ \A i \in 1 .. Len(Front(ps)) : p[i] = Front(ps)[i]
    BY <2>4, <2>8, AppendProperties
  <2> HIDE DEF p
  <2>10. \A i \in 1 .. Len(p) : Marked(p[i].comments)
    <3>1. Len(p) = Len(ps) /\ p[Len(ps)] = e /\ \A i \in 1 .. Len(ps) - 1 : p[i] = ps[i]
      BY <2>1, <2>8, <2>9
    <3>2. \A i \in 1 .. Len(p) : i = Len(ps) \/ (i \in 1 .. Len(ps) - 1 /\ i \in 1 .. Len(ps))
      BY <2>1, <3>1
    <3>3. QED
      BY <1>4, <2>3, <2>4, <3>1, <3>2, Zenon
  <2>11. p \in Pairs
    BY <2>9 DEF Pairs, PairType
  <2> DEFINE u == WithPairs(nodes, n, p)
  <2> HIDE DEF n
  <2>12. /\ IsTree(u) /\ Len(u) = Len(nodes) /\ u[n].comments = x.comments
         /\ u[n].tag = x.tag /\ u[n].parent = x.parent /\ u[n].pairs = p
         /\ u[n].level = x.level /\ u[n].raw = x.raw
         /\ \A i \in 1 .. Len(nodes) : i # n => u[i] = nodes[i]
    BY <1>1, <1>2, <2>11, PairsSet
  <2> HIDE DEF u
  <2>13. TidyNode(u[n])
    BY <1>4, <2>10, <2>12 DEF TidyNode
  <2>14. ASSUME NEW k
         PROVE  Shown(u[n], k) = Commented(Shown(x, k), Line)
    <3>1. PICK y, z, w : y = u[n] /\ z = x /\ w = Line
      OBVIOUS
    <3>2. /\ z.raw = <<>> /\ z.pairs \in Pairs /\ z.pairs # <<>>
          /\ y.raw = <<>> /\ y.pairs \in Pairs
          /\ y.tag = z.tag /\ y.level = z.level /\ y.comments = z.comments
      BY <1>4, <1>7, <2>11, <2>12, <3>1
    <3>3. y.pairs = NotedLast(z.pairs, w)
      BY <2>12, <3>1, Zenon DEF p, e, NotedLast
    <3>4. Shown(y, k) = Commented(Shown(z, k), w)
      BY ONLY <3>2, <3>3, ShownPairNoted
    <3>5. QED
      BY <3>1, <3>4, Zenon
  <2>15. TopLeft(u)
    BY <1>2, <1>4, <2>12, <2>13 DEF TopLeft, n
  <2>16. nodes' = u
    BY <2>7 DEF u
  <2>17. QED
    BY <1>5, <2>14, <2>15, <2>16, Zenon DEF n
<1>8. QED
  BY <1>6, <1>7

LEMMA TopAdvances ==
  ASSUME AtWork, file # <<>>, file' = Tail(file), open' = open, status' = "parsing",
         TopLeft(nodes'),
         \A v, b : ReadsLine(Seen(v, open), Line, b) =>
           \A k : v[Last(open)] = Shown(nodes[Last(open)], k)
                    => b = Append(Front(Seen(v, open)), Shown(nodes'[Last(open)], k))
  PROVE  Advances
<1> DEFINE n == Last(open)
<1>1. /\ CodecInv /\ Nested(nodes, open) /\ NoRaw(nodes) /\ Tidy(nodes) /\ IsTree(nodes)
  BY DEF AtWork, CodecInv
<1>2. PICK u : u = nodes'
  OBVIOUS
<1>3. /\ n \in 1 .. Len(nodes) /\ IsTree(u) /\ Len(u) = Len(nodes)
      /\ u[n].parent = nodes[n].parent /\ u[n].level = nodes[n].level
      /\ u[n].raw = <<>> /\ TidyNode(u[n])
      /\ \A i \in 1 .. Len(nodes) : i # n => u[i] = nodes[i]
  BY <1>2 DEF TopLeft
<1>4. \A i \in 1 .. Len(nodes) : u[i].parent = nodes[i].parent /\ (i # n => u[i] = nodes[i])
  BY <1>3
<1>5. Tidy(u)
  BY <1>1, <1>3, TidyChanged
<1>6. NoRaw(u)
  BY <1>1, <1>3 DEF NoRaw
<1>7. Nested(u, open)
  BY <1>1, <1>3, <1>4, NestedSame
<1>8. ASSUME NEW z, ReadsOn(nodes, open, file, Outer(z))
      PROVE  ReadsOn(u, open, Tail(file), Outer(z))
  <2>1. PICK v, b : /\ IsView(nodes, OpenSet(open), v) /\ ReadsLine(Seen(v, open), Line, b)
                    /\ ReadsText(Tail(file), b, <<Outer(z)>>)
    BY <1>1, <1>8, LineIsRead
  <2>2. \A k : v[n] = Shown(nodes[n], k) => b = Append(Front(Seen(v, open)), Shown(u[n], k))
    BY <1>2, <2>1, Zenon
  <2>3. QED
    BY <1>3, <1>4, <2>1, <2>2, TopGoesOn
<1>9. QED
  BY <1>2, <1>5, <1>6, <1>7, <1>8, Zenon DEF Advances

LEMMA CommentAdvances ==
  ASSUME AtWork, ReadComment
  PROVE  Advances
<1> DEFINE n == Last(open)
<1>1. /\ CodecInv /\ status = "parsing" /\ Nested(nodes, open) /\ NoRaw(nodes) /\ Tidy(nodes)
      /\ IsTree(nodes)
  BY DEF AtWork, CodecInv
<1>2. /\ file # <<>> /\ Line = Head(file) /\ Line # <<>> /\ Line[1] = "#" /\ Line \in Words
      /\ file' = Tail(file) /\ open' = open
  <2>1. /\ file # <<>> /\ Line # <<>> /\ Line[1] = "#"
        /\ file' = Tail(file) /\ open' = open
    BY Zenon DEF ReadComment, Reading
  <2>2. file \in Seq(Words)
    BY <1>1 DEF CodecInv
  <2>3. file[1] \in Words
    BY <2>1, <2>2
  <2>4. Line = Head(file) /\ Line \in Words
    BY <2>1, <2>2, <2>3 DEF Line
  <2>5. QED
    BY <2>1, <2>4
<1>3. ASSUME NEW v, NEW b, ReadsLine(Seen(v, open), Line, b)
      PROVE  /\ stack # <<>> /\ Last(Seen(v, open)) = v[n]
             /\ b = Append(Front(Seen(v, open)), Commented(v[n], Line))
  <2>1. /\ Front(Seen(v, open)) # <<>>
        /\ b = Append(Front(Seen(v, open)), Commented(Last(Seen(v, open)), Line))
    BY <1>2, <1>3, CommentReads
  <2>2. stack # <<>>
    BY <2>1, StackIsThere
  <2>3. Last(Seen(v, open)) = v[n]
    BY <1>1, OpenedIs
  <2>4. QED
    BY <2>1, <2>2, <2>3, Zenon
<1>4. CASE stack = <<>>
  <2>1. nodes' = nodes /\ status' # "parsing"
    BY <1>4 DEF ReadComment
  <2>2. \A z : ~ReadsOn(nodes, open, file, Outer(z))
    BY <1>1, <1>2, <1>3, <1>4, LineIsRead, Zenon
  <2>3. QED
    BY <1>1, <2>1, <2>2, Zenon DEF Advances
<1>5. CASE stack # <<>>
  <2>1. /\ TopLeft(nodes') /\ status' = "parsing"
        /\ \A k : Shown(nodes'[n], k) = Commented(Shown(nodes[n], k), Line)
    BY <1>2, <1>5, CommentLeaves
  <2>2. ASSUME NEW v, NEW b, ReadsLine(Seen(v, open), Line, b)
        PROVE  \A k : v[n] = Shown(nodes[n], k)
                        => b = Append(Front(Seen(v, open)), Shown(nodes'[n], k))
    BY <1>3, <2>1, <2>2, Zenon
  <2>3. QED
    BY <1>1, <1>2, <2>1, <2>2, TopAdvances
<1>6. QED
  BY <1>4, <1>5

LEMMA PairLeaves ==
  ASSUME AtWork, ReadPair
  PROVE  /\ TopLeft(nodes')
         /\ \A k : Shown(nodes'[Last(open)], k) = Paired(Shown(nodes[Last(open)], k), PairOf(Line))
<1> DEFINE n == Last(open)
           x == nodes[n]
           e == PairOf(Line)
           p == Append(x.pairs, e)
<1>1. /\ CodecInv /\ status = "parsing" /\ NoRaw(nodes) /\ Tidy(nodes) /\ IsTree(nodes)
      /\ n \in 1 .. Len(nodes)
  BY Innermost DEF AtWork, CodecInv
<1>2. /\ x.pairs \in Seq(PairType) /\ x.pairs \in Pairs /\ x.raw = <<>> /\ TidyNode(x)
  BY <1>1, TreeIs DEF Pairs, PairType, NoRaw, Tidy
<1>3. Line \in Words
  BY <1>1 DEF ReadPair, IsLine, Reading, Line, CodecInv
<1>4. e \in PairType /\ e.comments = <<>>
  BY <1>3, PairOfTyped
<1>5. nodes' = WithPairs(nodes, n, p)
  BY DEF ReadPair, WithPairs, PairOf
<1> HIDE DEF e
<1>6. /\ p \in Pairs /\ Len(p) = Len(x.pairs) + 1 /\ p[Len(x.pairs) + 1] = e
      /\ Len(x.pairs) \in Nat /\ \A i \in 1 .. Len(x.pairs) : p[i] = x.pairs[i]
  BY <1>2, <1>4, AppendProperties DEF Pairs, PairType
<1> HIDE DEF p
<1>7. \A i \in 1 .. Len(p) : Marked(p[i].comments)
  <2>1. \A i \in 1 .. Len(p) : i = Len(x.pairs) + 1 \/ i \in 1 .. Len(x.pairs)
    BY <1>6
  <2>2. Marked(e.comments)
    BY <1>4 DEF Marked
  <2>3. \A i \in 1 .. Len(x.pairs) : Marked(x.pairs[i].comments)
    BY <1>2 DEF TidyNode
  <2> HIDE DEF x
  <2>4. QED
    BY <1>6, <2>1, <2>2, <2>3, Zenon
<1> DEFINE u == WithPairs(nodes, n, p)
<1> HIDE DEF n
<1>8. /\ IsTree(u) /\ Len(u) = Len(nodes) /\ u[n].comments = x.comments
      /\ u[n].tag = x.tag /\ u[n].parent = x.parent /\ u[n].pairs = p
      /\ u[n].level = x.level /\ u[n].raw = x.raw
      /\ \A i \in 1 .. Len(nodes) : i # n => u[i] = nodes[i]
  BY <1>1, <1>6, PairsSet
<1> HIDE DEF u
<1>9. TidyNode(u[n])
  BY <1>2, <1>7, <1>8 DEF TidyNode
<1>10. ASSUME NEW k
       PROVE  Shown(u[n], k) = Paired(Shown(x, k), e)
  <2>1. PICK y, z, f : y = u[n] /\ z = x /\ f = e
    OBVIOUS
  <2>2. /\ z.raw = <<>> /\ z.pairs \in Pairs /\ y.raw = <<>> /\ y.pairs \in Pairs
        /\ y.tag = z.tag /\ y.level = z.level /\ y.comments = z.comments
    BY <1>2, <1>6, <1>8, <2>1
  <2>3. y.pairs = OnePairMore(z.pairs, f)
    BY <1>8, <2>1, Zenon DEF p, OnePairMore
  <2>4. Shown(y, k) = Paired(Shown(z, k), f)
    BY ONLY <2>2, <2>3, ShownPaired
  <2>5. QED
    BY <2>1, <2>4, Zenon
<1>11. TopLeft(u)
  BY <1>1, <1>2, <1>8, <1>9 DEF TopLeft, n
<1>12. nodes' = u
  BY <1>5 DEF u
<1>13. QED
  BY <1>10, <1>11, <1>12, Zenon DEF n, e

LEMMA PairAdvances ==
  ASSUME AtWork, ReadPair
  PROVE  Advances
<1> DEFINE n == Last(open)
<1>1. /\ CodecInv /\ status = "parsing" /\ Nested(nodes, open) /\ NoRaw(nodes) /\ Tidy(nodes)
      /\ IsTree(nodes)
  BY DEF AtWork, CodecInv
<1>2. /\ file # <<>> /\ Line # <<>> /\ Line[1] # "#" /\ DetectLineType(Line) = "KVPAIR"
      /\ file' = Tail(file) /\ open' = open
  BY DEF ReadPair, IsLine, Reading
<1>3. ASSUME NEW v, NEW b, ReadsLine(Seen(v, open), Line, b)
      PROVE  /\ stack # <<>>
             /\ b = Append(Front(Seen(v, open)), Paired(v[n], PairOf(Line)))
  <2>1. /\ Front(Seen(v, open)) # <<>>
        /\ b = Append(Front(Seen(v, open)), Paired(Last(Seen(v, open)), PairOf(Line)))
    BY <1>2, <1>3, LineReads
  <2>2. stack # <<>>
    BY <2>1, StackIsThere
  <2>3. Last(Seen(v, open)) = v[n]
    BY <1>1, OpenedIs
  <2>4. QED
    BY <2>1, <2>2, <2>3, Zenon
<1>4. /\ TopLeft(nodes')
      /\ \A k : Shown(nodes'[n], k) = Paired(Shown(nodes[n], k), PairOf(Line))
  BY PairLeaves
<1>5. CASE stack = <<>>
  <2>1. status' # "parsing"
    BY <1>5 DEF ReadPair
  <2>2. \A z : ~ReadsOn(nodes, open, file, Outer(z))
    BY <1>1, <1>2, <1>3, <1>5, LineIsRead, Zenon
  <2>3. Tidy(nodes')
    <3>1. PICK u : u = nodes'
      OBVIOUS
    <3>2. /\ n \in 1 .. Len(nodes) /\ Len(u) = Len(nodes)
          /\ u[n].parent = nodes[n].parent /\ u[n].level = nodes[n].level
          /\ TidyNode(u[n]) /\ \A i \in 1 .. Len(nodes) : i # n => u[i] = nodes[i]
      BY <1>4, <3>1 DEF TopLeft
    <3>3. Tidy(u)
      BY <1>1, <3>2, TidyChanged
    <3>4. QED
      BY <3>1, <3>3
  <2>4. QED
    BY <2>1, <2>2, <2>3, Zenon DEF Advances
<1>6. CASE stack # <<>>
  <2>1. status' = "parsing"
    BY <1>1, <1>6 DEF ReadPair
  <2>2. ASSUME NEW v, NEW b, ReadsLine(Seen(v, open), Line, b)
        PROVE  \A k : v[n] = Shown(nodes[n], k)
                        => b = Append(Front(Seen(v, open)), Shown(nodes'[n], k))
    BY <1>3, <1>4, <2>2, Zenon
  <2>3. QED
    BY <1>2, <1>4, <2>1, <2>2, TopAdvances
<1>7. QED
  BY <1>5, <1>6

LEMMA BeginAdvances ==
  ASSUME AtWork, ReadBegin
  PROVE  Advances
<1> DEFINE n == Last(open)
           tag == SubSeq(Line, 2, Len(Line) - 1)
           x == Node(tag, n, nodes[n].level + 1)
<1>1. /\ CodecInv /\ status = "parsing" /\ Nested(nodes, open) /\ NoRaw(nodes) /\ Tidy(nodes)
      /\ IsTree(nodes) /\ n \in 1 .. Len(nodes)
  BY Innermost DEF AtWork, CodecInv
<1>2. /\ file # <<>> /\ Line # <<>> /\ Line[1] # "#" /\ DetectLineType(Line) = "SECTION_BEGIN"
      /\ file' = Tail(file) /\ open' = Append(open, Len(nodes) + 1) /\ status' = "parsing"
      /\ nodes' = Append(nodes, x)
  BY <1>1 DEF ReadBegin, IsLine, Reading
<1>3. tag \in Words
  <2>1. Line \in Seq(Symbols)
    BY <1>1, <1>2 DEF Line, CodecInv, Words
  <2>2. Len(Line) - 1 \in Int /\ Len(Line) - 1 <= Len(Line) /\ 2 \in Nat \ {0}
    BY <2>1
  <2>3. QED
    BY <2>1, <2>2, SubSeqTyped DEF Words
<1>4. PICK N \in Nat, u \in {nodes'} : N = Len(nodes) /\ u = nodes'
  BY <1>1, TreeIs
<1> HIDE DEF tag, n
<1>5. /\ IsTree(u) /\ Len(u) = N + 1 /\ u[N + 1] = x /\ \A i \in 1 .. N : u[i] = nodes[i]
      /\ Tidy(u)
  <2>1. u = Append(nodes, Node(tag, n, nodes[n].level + 1))
    BY <1>2, <1>4
  <2>2. QED
    BY <1>1, <1>3, <1>4, <2>1, NodeAdded, TidyAdded
<1>6. x.parent = n /\ x.raw = <<>>
  BY DEF Node
<1>7. NoRaw(u)
  <2>1. \A i \in 1 .. N + 1 : i = N + 1 \/ i \in 1 .. N
    OBVIOUS
  <2> HIDE DEF x
  <2>2. QED
    BY <1>1, <1>4, <1>5, <1>6, <2>1 DEF NoRaw
<1>8. Nested(u, Append(open, N + 1))
  <2>1. u[N + 1].parent = Last(open)
    BY <1>5, <1>6 DEF n
  <2>2. QED
    BY <1>1, <1>4, <1>5, <2>1, NestedOpened
<1>9. ASSUME NEW z, ReadsOn(nodes, open, file, Outer(z))
      PROVE  ReadsOn(u, Append(open, N + 1), Tail(file), Outer(z))
  <2>1. PICK v, b : /\ IsView(nodes, OpenSet(open), v) /\ ReadsLine(Seen(v, open), Line, b)
                    /\ ReadsText(Tail(file), b, <<Outer(z)>>)
    BY <1>1, <1>2, <1>9, LineIsRead
  <2>2. b = Append(Seen(v, open), Begun(Last(Seen(v, open)), tag))
    BY <1>2, <2>1, LineReads DEF tag
  <2>3. Last(Seen(v, open)) = v[n]
    BY <1>1, OpenedIs DEF n
  <2>4. PICK w : IsView(u, OpenSet(Append(open, N + 1)), w)
    BY <1>5, ViewExists
  <2>5. Seen(w, Append(open, N + 1)) = Append(Seen(v, open), Begun(v[n], tag))
    <3>1. u[N + 1] = Node(tag, Last(open), nodes[Last(open)].level + 1)
      BY <1>5 DEF n
    <3>2. PICK t, calls, g : t = nodes /\ calls = open /\ g = tag
      OBVIOUS
    <3>3. Opens(t, u, N, calls, g, w) /\ IsView(t, OpenSet(calls), v)
      BY <1>1, <1>4, <1>5, <2>1, <2>4, <3>1, <3>2 DEF Opens
    <3>4. Seen(w, Append(calls, N + 1)) = Append(Seen(v, calls), Begun(v[Last(calls)], g))
      BY ONLY <3>3, SectionOpened
    <3>5. QED
      BY <3>2, <3>4, Zenon DEF n
  <2>6. Seen(w, Append(open, N + 1)) = b
    BY <2>2, <2>3, <2>5, Zenon
  <2>7. QED
    BY <2>1, <2>4, <2>6, Zenon DEF ReadsOn
<1>10. QED
  BY <1>2, <1>4, <1>5, <1>7, <1>8, <1>9, Zenon DEF Advances

LEMMA EndAdvances ==
  ASSUME AtWork, ReadEnd
  PROVE  Advances
<1> DEFINE n == Last(open)
           tag == SubSeq(Line, 3, Len(Line) - 1)
<1>1. /\ CodecInv /\ status = "parsing" /\ Nested(nodes, open) /\ NoRaw(nodes) /\ Tidy(nodes)
      /\ IsTree(nodes) /\ n \in 1 .. Len(nodes)
  BY Innermost DEF AtWork, CodecInv
<1>2. /\ file # <<>> /\ Line # <<>> /\ Line[1] # "#" /\ DetectLineType(Line) = "SECTION_END"
      /\ file' = Tail(file) /\ nodes' = nodes
  BY <1>1 DEF ReadEnd, IsLine, Reading
<1>3. ASSUME NEW v, IsView(nodes, OpenSet(open), v), NEW b, ReadsLine(Seen(v, open), Line, b)
      PROVE  /\ stack # <<>> /\ tag = nodes[n].tag
             /\ b = Append(Front(Front(Seen(v, open))),
                           Enlarged(Last(Front(Seen(v, open))), Last(Seen(v, open))))
  <2>1. /\ Front(Seen(v, open)) # <<>> /\ tag = Last(Seen(v, open)).tag
        /\ b = Append(Front(Front(Seen(v, open))),
                      Enlarged(Last(Front(Seen(v, open))), Last(Seen(v, open))))
    BY <1>2, <1>3, LineReads
  <2>2. stack # <<>>
    BY <2>1, StackIsThere
  <2>3. Last(Seen(v, open)) = v[n]
    BY <1>1, OpenedIs
  <2>4. v[n] = Shown(nodes[n], Seen(v, KidsBut(nodes, OpenSet(open), n)))
    BY <1>1, <1>3, ViewOf
  <2>5. \A k : Shown(nodes[n], k).tag = nodes[n].tag
    BY DEF Shown
  <2>6. tag = nodes[n].tag
    BY <2>1, <2>3, <2>4, <2>5, Zenon
  <2>7. QED
    BY <2>1, <2>2, <2>6
<1>4. CASE stack = <<>> \/ tag # nodes[n].tag
  <2>1. status' # "parsing"
    BY <1>4 DEF ReadEnd
  <2>2. \A z : ~ReadsOn(nodes, open, file, Outer(z))
    BY <1>1, <1>2, <1>3, <1>4, LineIsRead, Zenon
  <2>3. QED
    BY <1>1, <1>2, <2>1, <2>2, Zenon DEF Advances
<1>5. CASE stack # <<>> /\ tag = nodes[n].tag
  <2>1. open' = Front(open) /\ status' = "parsing"
    BY <1>1, <1>5 DEF ReadEnd
  <2>2. Len(open) > 1
    BY <1>1, <1>5, Innermost
  <2>3. Nested(nodes, Front(open))
    BY <1>1, <2>2, NestedClosed
  <2>4. ASSUME NEW z, ReadsOn(nodes, open, file, Outer(z))
        PROVE  ReadsOn(nodes, Front(open), Tail(file), Outer(z))
    <3>1. PICK v, b : /\ IsView(nodes, OpenSet(open), v) /\ ReadsLine(Seen(v, open), Line, b)
                      /\ ReadsText(Tail(file), b, <<Outer(z)>>)
      BY <1>1, <1>2, <2>4, LineIsRead
    <3>2. b = Append(Front(Front(Seen(v, open))),
                     Enlarged(Last(Front(Seen(v, open))), Last(Seen(v, open))))
      BY <1>3, <3>1
    <3>3. PICK w : IsView(nodes, OpenSet(Front(open)), w)
      BY <1>1, ViewExists
    <3>4. Seen(w, Front(open))
            = Append(Front(Front(Seen(v, open))),
                     Enlarged(Last(Front(Seen(v, open))), Last(Seen(v, open))))
      BY <1>1, <2>2, <3>1, <3>3, SectionClosed
    <3>5. Seen(w, Front(open)) = b
      BY <3>2, <3>4, Zenon
    <3>6. QED
      BY <3>1, <3>3, <3>5, Zenon DEF ReadsOn
  <2>5. QED
    BY <1>1, <1>2, <2>1, <2>3, <2>4, Zenon DEF Advances
<1>6. QED
  BY <1>4, <1>5

(* Generate writes neither empty lines nor lines of no kind.               *)
LEMMA NothingElseReads ==
  ASSUME AtWork, ReadBlank \/ ReadError
  PROVE  Advances
<1>1. /\ CodecInv /\ Nested(nodes, open) /\ NoRaw(nodes) /\ Tidy(nodes) /\ status = "parsing"
  BY DEF AtWork
<1>2. file # <<>> /\ nodes' = nodes /\ open' = open
  BY DEF ReadBlank, ReadError, IsLine, Reading
<1>3. Line = <<>> \/ (Line # <<>> /\ Line[1] # "#" /\ DetectLineType(Line) = "ERROR")
  BY DEF ReadBlank, ReadError, IsLine
<1>4. \A a, b : ~ReadsLine(a, Line, b)
  BY <1>3, LineReads
<1>5. \A z : ~ReadsOn(nodes, open, file, Outer(z))
  BY <1>1, <1>2, <1>4, LineIsRead, Zenon
<1>6. QED
  BY <1>1, <1>2, <1>5, Zenon DEF Advances

LEMMA EndOfFile ==
  ASSUME AtWork, ReadNothing
  PROVE  Advances
<1>1. /\ Nested(nodes, open) /\ Tidy(nodes) /\ IsTree(nodes)
  BY DEF AtWork, CodecInv
<1>2. file = <<>> /\ nodes' = nodes /\ status' = "SUCCESS"
  BY DEF ReadNothing
<1>3. ASSUME NEW z, ReadsOn(nodes, open, file, Outer(z))
      PROVE  View(nodes) = z
  BY <1>1, <1>2, <1>3, ReadsAtLast
<1>4. QED
  BY <1>1, <1>2, <1>3 DEF Advances

LEMMA ParseAdvances ==
  ASSUME AtWork, ParseImpl
  PROVE  Advances
BY CommentAdvances, PairAdvances, BeginAdvances, EndAdvances, NothingElseReads, EndOfFile
   DEF ParseImpl

(* The invariant: what the parser has still to read of a generated text    *)
(* leads the reader to the view of the tree the text was written from.     *)
StillReads ==
  saved.done /\ Writable(saved.tree) =>
    IF status = "parsing" THEN ReadsOn(nodes, open, file, Outer(View(saved.tree)))
    ELSE status = "SUCCESS" /\ View(nodes) = View(saved.tree)

ReadBackInv ==
  /\ CodecInv
  /\ Tidy(nodes)
  /\ status = "parsing" => Nested(nodes, open) /\ NoRaw(nodes)
  /\ StillReads

LEMMA ReadBackInit ==
  ASSUME CodecInit
  PROVE  ReadBackInv
<1>1. nodes = Fresh /\ open = <<Root>> /\ ~saved.done
  BY DEF CodecInit
<1>2. Nested(Fresh, <<Root>>)
  BY FreshIs, NestedFirst
<1>3. QED
  BY <1>1, <1>2, CodecInvInit, FreshTidy, Zenon DEF ReadBackInv, StillReads

LEMMA ReadBackParse ==
  ASSUME ReadBackInv, ParseImpl
  PROVE  ReadBackInv'
<1>1. status = "parsing"
  BY DEF ParseImpl, ReadBlank, ReadComment, ReadPair, ReadBegin, ReadEnd, ReadError, ReadNothing,
         IsLine, Reading
<1>2. AtWork
  BY <1>1 DEF ReadBackInv, AtWork
<1>3. Advances
  BY <1>2, ParseAdvances
<1>4. saved' = saved
  BY DEF ParseImpl, ReadBlank, ReadComment, ReadPair, ReadBegin, ReadEnd, ReadError, ReadNothing
<1>5. CodecInv'
  BY ParseStep DEF ReadBackInv
<1>6. StillReads'
  <2>1. PICK z, done, w : z = View(saved.tree) /\ done = saved.done /\ w = Writable(saved.tree)
    OBVIOUS
  <2>2. View(saved'.tree) = z /\ saved'.done = done /\ Writable(saved'.tree) = w
    BY <1>4, <2>1, Zenon
  <2>3. done /\ w => ReadsOn(nodes, open, file, Outer(z))
    BY <1>1, <2>1, Zenon DEF ReadBackInv, StillReads
  <2>4. done /\ w => IF status' = "parsing" THEN ReadsOn(nodes', open', file', Outer(z))
                     ELSE status' = "SUCCESS" /\ View(nodes') = z
    BY <1>3, <2>3, Zenon DEF Advances
  <2>5. QED
    BY <2>2, <2>4, Zenon DEF StillReads
<1>7. QED
  BY <1>3, <1>5, <1>6, Zenon DEF ReadBackInv, Advances

LEMMA ReadBackGenerate ==
  ASSUME ReadBackInv, GenerateAndParse
  PROVE  ReadBackInv'
<1>1. /\ saved' = [done |-> TRUE, tree |-> nodes] /\ file' = Generate(nodes)
      /\ nodes' = Fresh /\ open' = <<Root>> /\ status' = "parsing"
  BY DEF GenerateAndParse
<1>2. IsTree(nodes) /\ Tidy(nodes)
  BY DEF ReadBackInv, CodecInv
<1>3. saved'.tree = nodes
  BY <1>1
<1>4. Nested(Fresh, <<Root>>)
  BY FreshIs, NestedFirst
<1>5. ASSUME Writable(nodes)
      PROVE  ReadsOn(Fresh, <<Root>>, Generate(nodes), Outer(View(nodes)))
  <2>1. ReadsText(Generate(nodes), <<Outer(<<>>)>>, <<Outer(View(nodes))>>)
    BY <1>2, <1>5, TextReads
  <2>2. PICK lines, z : lines = Generate(nodes) /\ z = Outer(View(nodes))
    OBVIOUS
  <2>3. ReadsText(lines, <<Outer(<<>>)>>, <<z>>)
    BY <2>1, <2>2, Zenon
  <2>4. ReadsOn(Fresh, <<Root>>, lines, z)
    BY <2>3, ReadsAtFirst
  <2>5. QED
    BY <2>2, <2>4, Zenon
<1>6. Writable(nodes) => ReadsOn(nodes', open', file', Outer(View(nodes)))
  BY <1>1, <1>5, Zenon
<1>7. StillReads'
  BY <1>1, <1>3, <1>6, Zenon DEF StillReads
<1>8. CodecInv'
  BY GenerateStep DEF ReadBackInv
<1>9. QED
  BY <1>1, <1>4, <1>7, <1>8, FreshTidy, Zenon DEF ReadBackInv

LEMMA ReadBackEdit ==
  ASSUME ReadBackInv, EditCall
  PROVE  ReadBackInv'
<1>1. PICK name, path, key, value, result, tree :
        Call(name, path, key, value, result, tree) /\ EditLeaves(nodes, tree)
  BY EditIs, Zenon DEF IsEdit, ReadBackInv
<1>2. /\ ~saved.done /\ saved' = saved /\ nodes' = tree /\ status' # "parsing"
  BY <1>1 DEF Call, Returned
<1>3. Tidy(tree)
  BY <1>1, EditTidy DEF ReadBackInv, CodecInv
<1>4. CodecInv'
  BY EditStep DEF ReadBackInv
<1>5. StillReads'
  BY <1>2, Zenon DEF StillReads
<1>6. QED
  BY <1>2, <1>3, <1>4, <1>5, Zenon DEF ReadBackInv

LEMMA ReadBackStep ==
  ASSUME ReadBackInv, [CodecNext]_codecVars
  PROVE  ReadBackInv'
<1>1. CASE UNCHANGED codecVars
  BY <1>1 DEF codecVars, ReadBackInv, CodecInv, StillReads
<1>2. CASE CodecNext
  BY <1>2, ReadBackParse, ReadBackGenerate, ReadBackEdit DEF CodecNext
<1>3. QED
  BY <1>1, <1>2

(* Text that Generate writes of any tree the parser and the editing calls  *)
(* can have made, after any text and any sequence of calls, is parsed      *)
(* without an error into a tree with the same sections, pairs and comments *)
(* in the same places, if what was written is Writable.                    *)
THEOREM GeneratedAlwaysReadsBack == CodecSpec => []GeneratedReadsBack
<1>1. CodecInit => ReadBackInv
  BY ReadBackInit
<1>2. ReadBackInv /\ [CodecNext]_codecVars => ReadBackInv'
  BY ReadBackStep
<1>3. ReadBackInv => GeneratedReadsBack
  BY DEF ReadBackInv, StillReads, GeneratedReadsBack
<1>4. QED
  BY <1>1, <1>2, <1>3, PTL DEF CodecSpec
=============================================================================
