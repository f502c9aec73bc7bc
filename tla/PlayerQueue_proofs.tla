------------------------- MODULE PlayerQueue_proofs -------------------------
(***************************************************************************)
(* Theorems about PlayerQueue, for any number of songs and queues of any   *)
(* length.  When requests do not overlap, the row stays consistent, the    *)
(* cursors stay at the song that plays, and the order of play changes by   *)
(* one song.  When they do, each column by itself stays sound.             *)
(***************************************************************************)
EXTENDS PlayerQueue, SequenceTheorems, FiniteSetTheorems, WellFoundedInduction, TLAPS

-----------------------------------------------------------------------------
(* Lists                                                                    *)

LEMMA NatMin ==
    ASSUME NEW T \in SUBSET Nat, T # {}
    PROVE  \E x \in T : \A y \in T : x =< y
<1> DEFINE R == OpToRel(<, Nat)
<1>1. IsWellFoundedOn(R, Nat)
  BY NatLessThanWellFounded
<1>2. \A x, y \in T : y < x => <<y, x>> \in R
  BY DEF OpToRel
<1> HIDE DEF R
<1>3. PICK x \in T : \A y \in T : ~ (<<y, x>> \in R)
  BY <1>1, WFMin
<1>4. \A y \in T : ~(y < x)
  BY <1>2, <1>3
<1> QED  BY <1>4

\* A set that holds 0 and, with each number, the next one holds all numbers.
LEMMA Climbing ==
    ASSUME NEW P, 0 \in P, \A n \in Nat : n \in P => n + 1 \in P
    PROVE  Nat \subseteq P
<1> DEFINE T == Nat \ P
<1>1. SUFFICES ASSUME T # {} PROVE FALSE
  OBVIOUS
<1>2. PICK x \in T : \A y \in T : x =< y
  BY <1>1, NatMin
<1>3. x # 0 /\ x \in Nat
  OBVIOUS
<1>4. x - 1 \in Nat /\ x - 1 \notin T
  BY <1>2, <1>3
<1>5. x - 1 + 1 \in P
  BY <1>4
<1> QED  BY <1>3, <1>5

\* The first element of a list, the second, and so on: a list is known by them.
LEMMA ListIs ==
    ASSUME NEW S, NEW n \in Nat, NEW q \in [1 .. n -> S]
    PROVE  q \in Seq(S) /\ Len(q) = n /\ DOMAIN q = 1 .. n
<1>1. q \in Seq(S)
  BY SeqDef
<1> QED  BY <1>1, LenProperties

LEMMA RemoveAtIs ==
    ASSUME NEW S, NEW q \in Seq(S), NEW k \in 1 .. Len(q)
    PROVE  /\ RemoveAt(q, k) \in Seq(S)
           /\ Len(RemoveAt(q, k)) = Len(q) - 1
           /\ \A i \in 1 .. Len(q) - 1 :
                 RemoveAt(q, k)[i] = q[IF i < k THEN i ELSE i + 1]
<1>0. Len(q) \in Nat /\ \A i \in 1 .. Len(q) : q[i] \in S
  BY LenProperties, ElementOfSeq
<1> DEFINE a == SubSeq(q, 1, k - 1)
           b == SubSeq(q, k + 1, Len(q))
<1>1. /\ a \in Seq(S) /\ Len(a) = k - 1
      /\ \A i \in 1 .. k - 1 : a[i] = q[i]
  <2>1. 1 \in Int /\ k - 1 \in Int /\ \A i \in 1 .. k - 1 : q[i] \in S
    BY <1>0
  <2>2. /\ SubSeq(q, 1, k - 1) \in Seq(S)
        /\ Len(SubSeq(q, 1, k - 1)) = IF 1 <= k - 1 THEN k - 1 - 1 + 1 ELSE 0
        /\ \A i \in 1 .. k - 1 - 1 + 1 : SubSeq(q, 1, k - 1)[i] = q[1 + i - 1]
    BY <2>1, SubSeqProperties
  <2> QED  BY <2>2
<1>2. /\ b \in Seq(S) /\ Len(b) = Len(q) - k
      /\ \A i \in 1 .. Len(q) - k : b[i] = q[k + i]
  <2>1. Len(q) \in Int /\ k + 1 \in Int /\ \A i \in k + 1 .. Len(q) : q[i] \in S
    BY <1>0
  <2>2. /\ SubSeq(q, k + 1, Len(q)) \in Seq(S)
        /\ Len(SubSeq(q, k + 1, Len(q))) = IF k + 1 <= Len(q) THEN Len(q) - (k + 1) + 1 ELSE 0
        /\ \A i \in 1 .. Len(q) - (k + 1) + 1 : SubSeq(q, k + 1, Len(q))[i] = q[k + 1 + i - 1]
    BY <2>1, SubSeqProperties
  <2> QED  BY <1>0, <2>2
<1> HIDE DEF a, b
<1>3. /\ a \o b \in Seq(S) /\ Len(a \o b) = Len(a) + Len(b)
      /\ \A i \in 1 .. Len(a) + Len(b) :
            (a \o b)[i] = IF i <= Len(a) THEN a[i] ELSE b[i - Len(a)]
  BY <1>1, <1>2, ConcatProperties
<1>4. ASSUME NEW i \in 1 .. Len(q) - 1
      PROVE  (a \o b)[i] = q[IF i < k THEN i ELSE i + 1]
  BY <1>0, <1>1, <1>2, <1>3
<1>5. RemoveAt(q, k) = a \o b
  BY DEF RemoveAt, a, b
<1>6. Len(a \o b) = Len(q) - 1
  BY <1>0, <1>1, <1>2, <1>3
<1> QED  BY <1>3, <1>4, <1>5, <1>6

LEMMA InsertAtIs ==
    ASSUME NEW S, NEW q \in Seq(S), NEW k \in 1 .. Len(q) + 1, NEW e \in S
    PROVE  /\ InsertAt(q, k, e) \in Seq(S)
           /\ Len(InsertAt(q, k, e)) = Len(q) + 1
           /\ InsertAt(q, k, e)[k] = e
           /\ \A i \in 1 .. k - 1 : InsertAt(q, k, e)[i] = q[i]
           /\ \A i \in k + 1 .. Len(q) + 1 : InsertAt(q, k, e)[i] = q[i - 1]
<1>0. Len(q) \in Nat /\ \A i \in 1 .. Len(q) : q[i] \in S
  BY LenProperties, ElementOfSeq
<1> DEFINE a == SubSeq(q, 1, k - 1)
           b == SubSeq(q, k, Len(q))
           o == <<e>>
<1>1. /\ a \in Seq(S) /\ Len(a) = k - 1
      /\ \A i \in 1 .. k - 1 : a[i] = q[i]
  <2>1. 1 \in Int /\ k - 1 \in Int /\ \A i \in 1 .. k - 1 : q[i] \in S
    BY <1>0
  <2>2. /\ SubSeq(q, 1, k - 1) \in Seq(S)
        /\ Len(SubSeq(q, 1, k - 1)) = IF 1 <= k - 1 THEN k - 1 - 1 + 1 ELSE 0
        /\ \A i \in 1 .. k - 1 - 1 + 1 : SubSeq(q, 1, k - 1)[i] = q[1 + i - 1]
    BY <2>1, SubSeqProperties
  <2> QED  BY <2>2
<1>2. /\ b \in Seq(S) /\ Len(b) = Len(q) + 1 - k
      /\ \A i \in 1 .. Len(q) + 1 - k : b[i] = q[k + i - 1]
  <2>1. Len(q) \in Int /\ k \in Int /\ \A i \in k .. Len(q) : q[i] \in S
    BY <1>0
  <2>2. /\ SubSeq(q, k, Len(q)) \in Seq(S)
        /\ Len(SubSeq(q, k, Len(q))) = IF k <= Len(q) THEN Len(q) - k + 1 ELSE 0
        /\ \A i \in 1 .. Len(q) - k + 1 : SubSeq(q, k, Len(q))[i] = q[k + i - 1]
    BY <2>1, SubSeqProperties
  <2> QED  BY <1>0, <2>2
<1>3. o \in Seq(S) /\ Len(o) = 1 /\ o[1] = e
  OBVIOUS
<1> HIDE DEF a, b, o
<1> DEFINE p == a \o o
<1>4. /\ p \in Seq(S) /\ Len(p) = k
      /\ \A i \in 1 .. k : p[i] = IF i = k THEN e ELSE q[i]
  <2>1. /\ p \in Seq(S) /\ Len(p) = Len(a) + Len(o)
        /\ \A i \in 1 .. Len(a) + Len(o) :
              p[i] = IF i <= Len(a) THEN a[i] ELSE o[i - Len(a)]
    BY <1>1, <1>3, ConcatProperties
  <2> HIDE DEF p
  <2>2. ASSUME NEW i \in 1 .. k PROVE p[i] = IF i = k THEN e ELSE q[i]
    <3>1. CASE i = k
      <4>1. i - Len(a) = 1 /\ ~(i <= Len(a))
        BY <1>1, <3>1
      <4>2. p[i] = o[i - Len(a)]
        BY <1>1, <1>3, <2>1, <4>1
      <4> QED  BY <1>3, <3>1, <4>1, <4>2
    <3>2. CASE i # k
      BY <1>1, <1>3, <2>1, <3>2
    <3> QED  BY <3>1, <3>2
  <2> QED  BY <1>1, <1>3, <2>1, <2>2
<1> HIDE DEF p
<1>5. /\ p \o b \in Seq(S) /\ Len(p \o b) = Len(p) + Len(b)
      /\ \A i \in 1 .. Len(p) + Len(b) :
            (p \o b)[i] = IF i <= Len(p) THEN p[i] ELSE b[i - Len(p)]
  BY <1>2, <1>4, ConcatProperties
<1>6. /\ (p \o b)[k] = e
      /\ \A i \in 1 .. k - 1 : (p \o b)[i] = q[i]
      /\ \A i \in k + 1 .. Len(q) + 1 : (p \o b)[i] = q[i - 1]
  BY <1>0, <1>2, <1>4, <1>5
<1>7. InsertAt(q, k, e) = p \o b
  BY DEF InsertAt, a, b, o, p
<1> QED  BY <1>0, <1>2, <1>4, <1>5, <1>6, <1>7

-----------------------------------------------------------------------------
(* A list without one of its elements                                       *)

\* The rest of a list without x, and the element after it.
Step(rest, y, x) == IF y = x THEN rest ELSE Append(rest, y)

\* h folds q over the subsets of 1 .. n.
Filters(h, q, x, n) ==
    h = [s \in SUBSET (1 .. n) |->
            IF s = {} THEN <<>> ELSE Step(h[s \ {Max(s)}], q[Max(s)], x)]

LEMMA WithoutIsFold ==
    ASSUME NEW S, NEW q \in Seq(S), NEW x
    PROVE  Without(q, x) = (CHOOSE h : Filters(h, q, x, Len(q)))[1 .. Len(q)]
<1>1. DOMAIN q = 1 .. Len(q)
  OBVIOUS
<1>2. Without(q, x) = (CHOOSE h : h = [s \in SUBSET DOMAIN q |->
            IF s = {} THEN <<>> ELSE Step(h[s \ {Max(s)}], q[Max(s)], x)])[DOMAIN q]
  BY Zenon DEF Without, FoldLeft, MapThenFoldSet, Step
<1> QED  BY <1>1, <1>2, Zenon DEF Filters

LEMMA MaxIs ==
    ASSUME NEW n \in Nat, NEW s \in SUBSET (1 .. n), n \in s
    PROVE  Max(s) = n
<1>1. \A y \in s : n >= y
  OBVIOUS
<1>2. \E z \in s : \A y \in s : z >= y
  BY <1>1
<1>3. Max(s) \in s /\ \A y \in s : Max(s) >= y
  BY <1>2, Zenon DEF Max
<1>4. Max(s) >= n /\ n >= Max(s) /\ Max(s) \in 1 .. n
  BY <1>1, <1>3
<1> QED  BY <1>4

\* The fold exists, however long the list is.
LEMMA FilterExists ==
    ASSUME NEW q, NEW x, NEW n \in Nat
    PROVE  \E h : Filters(h, q, x, n)
<1> DEFINE P == {m \in Nat : \E h : Filters(h, q, x, m)}
<1>1. 0 \in P
  <2> DEFINE h == [s \in SUBSET (1 .. 0) |-> <<>>]
  <2>1. 1 .. 0 = {}
    OBVIOUS
  <2>2. h = [s \in SUBSET (1 .. 0) |->
                IF s = {} THEN <<>> ELSE Step(h[s \ {Max(s)}], q[Max(s)], x)]
    BY <2>1
  <2> HIDE DEF h
  <2>3. Filters(h, q, x, 0)
    BY <2>2 DEF Filters
  <2> QED  BY <2>3
<1>2. ASSUME NEW m \in Nat, m \in P PROVE m + 1 \in P
  <2>1. PICK h : Filters(h, q, x, m)
    BY <1>2
  <2> DEFINE z == m + 1
             g == [s \in SUBSET (1 .. z) |-> IF z \in s THEN Step(h[s \ {z}], q[z], x)
                                                        ELSE h[s]]
  <2>2. \A s \in SUBSET (1 .. m) :
            h[s] = IF s = {} THEN <<>> ELSE Step(h[s \ {Max(s)}], q[Max(s)], x)
    BY <2>1 DEF Filters
  <2>3. z \in Nat /\ z \notin 1 .. m /\ (1 .. z) \ {z} = 1 .. m
    OBVIOUS
  <2> HIDE DEF z
  <2>4. \A s \in SUBSET (1 .. z) : z \notin s => s \in SUBSET (1 .. m) /\ g[s] = h[s]
    BY <2>3
  <2>5. \A s \in SUBSET (1 .. z) : z \in s => g[s] = Step(h[s \ {z}], q[z], x)
    OBVIOUS
  <2>6. g = [s \in SUBSET (1 .. z) |-> g[s]]
    OBVIOUS
  <2> HIDE DEF g
  <2>7. ASSUME NEW s \in SUBSET (1 .. z)
        PROVE  g[s] = IF s = {} THEN <<>> ELSE Step(g[s \ {Max(s)}], q[Max(s)], x)
    <3>1. CASE z \in s
      <4>1. Max(s) = z
        BY <2>3, <3>1, MaxIs
      <4>2. s \ {z} \in SUBSET (1 .. z) /\ z \notin s \ {z}
        OBVIOUS
      <4>3. g[s \ {z}] = h[s \ {z}]
        BY <2>4, <4>2
      <4>4. g[s] = Step(g[s \ {z}], q[z], x)
        BY <2>5, <3>1, <4>3
      <4> QED  BY <3>1, <4>1, <4>4
    <3>2. CASE z \notin s
      <4>1. s \ {Max(s)} \in SUBSET (1 .. z) /\ z \notin s \ {Max(s)}
        BY <3>2
      <4>2. g[s \ {Max(s)}] = h[s \ {Max(s)}] /\ g[s] = h[s] /\ s \in SUBSET (1 .. m)
        BY <2>4, <3>2, <4>1
      <4>3. h[s] = IF s = {} THEN <<>> ELSE Step(h[s \ {Max(s)}], q[Max(s)], x)
        BY <2>2, <4>2
      <4> QED  BY <4>2, <4>3
    <3> QED  BY <3>1, <3>2
  <2>8. Filters(g, q, x, z)
    BY <2>6, <2>7, Zenon DEF Filters
  <2> QED  BY <2>3, <2>8 DEF z
<1> HIDE DEF P
<1>3. n \in P
  BY <1>1, <1>2, Climbing
<1> QED  BY <1>3 DEF P

\* A list is filtered from its first element to its last.
LEMMA WithoutSteps ==
    ASSUME NEW S, NEW q \in Seq(S), NEW x
    PROVE  \E keep : /\ keep[0] = <<>>
                     /\ \A i \in 1 .. Len(q) : keep[i] = Step(keep[i - 1], q[i], x)
                     /\ Without(q, x) = keep[Len(q)]
<1>0. Len(q) \in Nat
  OBVIOUS
<1> DEFINE h == CHOOSE k : Filters(k, q, x, Len(q))
           keep == [i \in 0 .. Len(q) |-> h[1 .. i]]
<1>1. Filters(h, q, x, Len(q))
  BY <1>0, FilterExists
<1>2. Without(q, x) = h[1 .. Len(q)]
  BY WithoutIsFold
<1> HIDE DEF h
<1>3. \A s \in SUBSET (1 .. Len(q)) :
          h[s] = IF s = {} THEN <<>> ELSE Step(h[s \ {Max(s)}], q[Max(s)], x)
  BY <1>1 DEF Filters
<1>4. h[1 .. 0] = <<>>
  <2>1. 1 .. 0 = {}
    OBVIOUS
  <2>2. h[{}] = <<>>
    BY <1>3
  <2> QED  BY <2>1, <2>2
<1>5. ASSUME NEW i \in 1 .. Len(q)
      PROVE  h[1 .. i] = Step(h[1 .. (i - 1)], q[i], x)
  <2>1. 1 .. i \in SUBSET (1 .. Len(q)) /\ i \in 1 .. i /\ i \in Nat
    BY <1>0
  <2>2. Max(1 .. i) = i
    BY <2>1, MaxIs
  <2>3. (1 .. i) \ {i} = 1 .. (i - 1)
    BY <2>1
  <2>4. h[1 .. i] = Step(h[(1 .. i) \ {i}], q[i], x)
    BY <1>3, <2>1, <2>2
  <2> QED  BY <2>3, <2>4
<1>6. /\ keep[0] = <<>>
      /\ \A i \in 1 .. Len(q) : keep[i] = Step(keep[i - 1], q[i], x)
      /\ Without(q, x) = keep[Len(q)]
  BY <1>0, <1>2, <1>4, <1>5
<1> QED  BY <1>6

\* A list in which x is at place k and nowhere else, or nowhere when k is behind the
\* end.
LEMMA WithoutPlaces ==
    ASSUME NEW S, NEW q \in Seq(S), NEW x, NEW k \in 1 .. Len(q) + 1,
           \A i \in 1 .. Len(q) : q[i] = x <=> i = k
    PROVE  /\ Without(q, x) \in Seq(S)
           /\ Len(Without(q, x)) = IF k = Len(q) + 1 THEN Len(q) ELSE Len(q) - 1
           /\ \A j \in 1 .. Len(Without(q, x)) :
                 Without(q, x)[j] = q[IF j < k THEN j ELSE j + 1]
<1>0. Len(q) \in Nat /\ k \in Nat /\ \A i \in 1 .. Len(q) : q[i] \in S
  OBVIOUS
<1>1. PICK keep : /\ keep[0] = <<>>
                  /\ \A i \in 1 .. Len(q) : keep[i] = Step(keep[i - 1], q[i], x)
                  /\ Without(q, x) = keep[Len(q)]
  BY WithoutSteps
<1> DEFINE Kept(r, i) == /\ r \in Seq(S)
                         /\ Len(r) = IF i < k THEN i ELSE i - 1
                         /\ \A j \in 1 .. Len(r) : r[j] = q[IF j < k THEN j ELSE j + 1]
           P == {i \in Nat : i <= Len(q) => Kept(keep[i], i)}
<1>2. 0 \in P
  <2>1. <<>> \in Seq(S) /\ Len(<<>>) = 0 /\ 0 < k
    BY <1>0, EmptySeq
  <2>2. Kept(<<>>, 0)
    BY <2>1
  <2> QED  BY <1>1, <2>2
<1>3. ASSUME NEW i \in Nat, i \in P PROVE i + 1 \in P
  <2> SUFFICES ASSUME i + 1 <= Len(q) PROVE Kept(keep[i + 1], i + 1)
    OBVIOUS
  <2> DEFINE r == keep[i]
             y == q[i + 1]
  <2>1. Kept(r, i)
    BY <1>0, <1>3
  <2>2. keep[i + 1] = Step(r, y, x) /\ y \in S /\ (y = x <=> i + 1 = k)
    <3>1. i + 1 \in 1 .. Len(q) /\ i + 1 - 1 = i
      BY <1>0
    <3>2. keep[i + 1] = Step(keep[i + 1 - 1], q[i + 1], x)
      BY <1>1, <3>1
    <3> QED  BY <1>0, <3>1, <3>2
  <2>3. CASE y = x
    <3>1. keep[i + 1] = r /\ k = i + 1
      BY <2>2, <2>3 DEF Step
    <3> HIDE DEF r
    <3>2. Len(r) = i
      BY <2>1, <3>1
    <3> QED  BY <2>1, <3>1, <3>2
  <2>4. CASE y # x
    <3> DEFINE a == Append(r, y)
    <3>1. /\ a \in Seq(S) /\ Len(a) = Len(r) + 1
          /\ \A j \in 1 .. Len(r) : a[j] = r[j]
          /\ a[Len(r) + 1] = y
      BY <2>1, <2>2, AppendProperties
    <3>2. keep[i + 1] = a
      BY <2>2, <2>4 DEF Step
    <3> HIDE DEF a
    <3>3. Len(a) = IF i + 1 < k THEN i + 1 ELSE i
      BY <1>0, <2>1, <2>2, <2>4, <3>1
    <3>4. ASSUME NEW j \in 1 .. Len(a) PROVE a[j] = q[IF j < k THEN j ELSE j + 1]
      <4>1. CASE j \in 1 .. Len(r)
        BY <2>1, <3>1, <4>1
      <4>2. CASE j = Len(r) + 1
        BY <1>0, <2>1, <2>2, <2>4, <3>1, <4>2
      <4> QED  BY <2>1, <3>1, <4>1, <4>2
    <3> QED  BY <3>1, <3>2, <3>3, <3>4
  <2> QED  BY <2>3, <2>4
<1> HIDE DEF P
<1>4. Len(q) \in P
  BY <1>0, <1>2, <1>3, Climbing
<1>5. Kept(keep[Len(q)], Len(q))
  BY <1>0, <1>4 DEF P
<1> QED  BY <1>0, <1>1, <1>5

LEMMA WithoutIs ==
    ASSUME NEW S, NEW q \in Seq(S), NEW x
    PROVE  /\ x \notin ToSet(q) => Without(q, x) = q
           /\ \A k \in 1 .. Len(q) :
                 q[k] = x /\ IsInjective(q) => Without(q, x) = RemoveAt(q, k)
<1>0. Len(q) \in Nat /\ DOMAIN q = 1 .. Len(q)
  OBVIOUS
<1>1. ASSUME x \notin ToSet(q) PROVE Without(q, x) = q
  <2>1. Len(q) + 1 \in 1 .. Len(q) + 1
    BY <1>0
  <2>2. \A i \in 1 .. Len(q) : q[i] = x <=> i = Len(q) + 1
    BY <1>0, <1>1 DEF ToSet
  <2> DEFINE w == Without(q, x)
  <2>3. /\ w \in Seq(S) /\ Len(w) = Len(q)
        /\ \A j \in 1 .. Len(w) : w[j] = q[IF j < Len(q) + 1 THEN j ELSE j + 1]
    BY <2>1, <2>2, WithoutPlaces
  <2> HIDE DEF w
  <2>4. \A j \in 1 .. Len(w) : w[j] = q[j]
    BY <1>0, <2>3
  <2>5. w = q
    BY <2>3, <2>4, SeqEqual
  <2> QED  BY <2>5 DEF w
<1>2. ASSUME NEW k \in 1 .. Len(q), q[k] = x, IsInjective(q)
      PROVE  Without(q, x) = RemoveAt(q, k)
  <2>1. k \in 1 .. Len(q) + 1 /\ k # Len(q) + 1
    BY <1>0
  <2>2. \A i \in 1 .. Len(q) : q[i] = x <=> i = k
    BY <1>0, <1>2 DEF IsInjective
  <2> DEFINE w == Without(q, x)
             r == RemoveAt(q, k)
  <2>3. /\ w \in Seq(S) /\ Len(w) = Len(q) - 1
        /\ \A j \in 1 .. Len(w) : w[j] = q[IF j < k THEN j ELSE j + 1]
    BY <2>1, <2>2, WithoutPlaces
  <2>4. /\ r \in Seq(S) /\ Len(r) = Len(q) - 1
        /\ \A j \in 1 .. Len(q) - 1 : r[j] = q[IF j < k THEN j ELSE j + 1]
    BY RemoveAtIs
  <2> HIDE DEF w, r
  <2>5. w = r
    BY <2>3, <2>4, SeqEqual
  <2> QED  BY <2>5 DEF w, r
<1> QED  BY <1>1, <1>2

-----------------------------------------------------------------------------
(* Moving an element                                                        *)

\* Where the element at place i of Moved(q, from, to) comes from, and where the one
\* at place j of q goes to.
Source(from, to, i) ==
    IF i = to + 1 THEN from + 1
    ELSE LET h == IF i < to + 1 THEN i ELSE i - 1 IN IF h < from + 1 THEN h ELSE h + 1

Target(from, to, j) ==
    IF j = from + 1 THEN to + 1
    ELSE LET h == IF j < from + 1 THEN j ELSE j - 1 IN IF h < to + 1 THEN h ELSE h + 1

LEMMA SourceTarget ==
    ASSUME NEW n \in Nat, NEW from \in 0 .. n - 1, NEW to \in 0 .. n - 1, NEW i \in 1 .. n
    PROVE  /\ Source(from, to, i) \in 1 .. n /\ Target(from, to, i) \in 1 .. n
           /\ Source(from, to, Target(from, to, i)) = i
           /\ Target(from, to, Source(from, to, i)) = i
BY DEF Source, Target

LEMMA MovedIs ==
    ASSUME NEW S, NEW q \in Seq(S), NEW from \in Positions(q), NEW to \in Positions(q)
    PROVE  /\ Moved(q, from, to) \in Seq(S)
           /\ Len(Moved(q, from, to)) = Len(q)
           /\ \A i \in 1 .. Len(q) : Moved(q, from, to)[i] = q[Source(from, to, i)]
           /\ \A j \in 1 .. Len(q) : Moved(q, from, to)[Target(from, to, j)] = q[j]
           /\ RemoveAt(Moved(q, from, to), to + 1) = RemoveAt(q, from + 1)
<1>0. /\ Len(q) \in Nat /\ from \in 0 .. Len(q) - 1 /\ to \in 0 .. Len(q) - 1
      /\ from + 1 \in 1 .. Len(q) /\ to + 1 \in 1 .. Len(q)
      /\ q[from + 1] \in S
  BY DEF Positions
<1> DEFINE r == RemoveAt(q, from + 1)
           e == q[from + 1]
           m == InsertAt(r, to + 1, e)
<1>1. /\ r \in Seq(S) /\ Len(r) = Len(q) - 1
      /\ \A i \in 1 .. Len(q) - 1 : r[i] = q[IF i < from + 1 THEN i ELSE i + 1]
  BY <1>0, RemoveAtIs
<1> HIDE DEF r
<1>2. to + 1 \in 1 .. Len(r) + 1 /\ e \in S
  BY <1>0, <1>1
<1> HIDE DEF e
<1>3. /\ m \in Seq(S) /\ Len(m) = Len(r) + 1
      /\ \A i \in 1 .. Len(r) + 1 :
            m[i] = IF i = to + 1 THEN e ELSE r[IF i < to + 1 THEN i ELSE i - 1]
  <2> DEFINE k == to + 1
  <2>1. k \in 1 .. Len(r) + 1 /\ r \in Seq(S) /\ e \in S /\ Len(r) \in Nat
    BY <1>1, <1>2
  <2> HIDE DEF k
  <2>2. /\ InsertAt(r, k, e) \in Seq(S)
        /\ Len(InsertAt(r, k, e)) = Len(r) + 1
        /\ InsertAt(r, k, e)[k] = e
        /\ \A i \in 1 .. k - 1 : InsertAt(r, k, e)[i] = r[i]
        /\ \A i \in k + 1 .. Len(r) + 1 : InsertAt(r, k, e)[i] = r[i - 1]
    BY <2>1, InsertAtIs
  <2>4. m = InsertAt(r, k, e)
    BY DEF k
  <2> HIDE DEF m
  <2>3. ASSUME NEW i \in 1 .. Len(r) + 1
        PROVE  m[i] = IF i = k THEN e ELSE r[IF i < k THEN i ELSE i - 1]
    <3>1. CASE i < k
      BY <2>1, <2>2, <2>4, <3>1
    <3>2. CASE i > k
      BY <2>1, <2>2, <2>4, <3>2
    <3> QED  BY <2>1, <2>2, <2>4, <3>1, <3>2
  <2> QED  BY <2>2, <2>3, <2>4 DEF k
<1>4. Moved(q, from, to) = m
  BY DEF Moved, r, e
<1> HIDE DEF m
<1>5. ASSUME NEW i \in 1 .. Len(q)
      PROVE  m[i] = q[Source(from, to, i)]
  <2>1. CASE i = to + 1
    BY <1>0, <1>1, <1>3, <2>1 DEF Source, e
  <2>2. CASE i # to + 1
    <3> DEFINE h == IF i < to + 1 THEN i ELSE i - 1
    <3>1. h \in 1 .. Len(q) - 1
      BY <1>0, <2>2
    <3>2. m[i] = r[h]
      BY <1>0, <1>1, <1>3, <2>2
    <3>3. Source(from, to, i) = IF h < from + 1 THEN h ELSE h + 1
      BY <2>2 DEF Source
    <3> HIDE DEF h
    <3> QED  BY <1>1, <3>1, <3>2, <3>3
  <2> QED  BY <2>1, <2>2
<1>6. ASSUME NEW j \in 1 .. Len(q)
      PROVE  m[Target(from, to, j)] = q[j]
  BY <1>0, <1>5, SourceTarget
<1>7. RemoveAt(m, to + 1) = r
  <2>1. Len(m) = Len(q) /\ to + 1 \in 1 .. Len(m)
    BY <1>0, <1>1, <1>3
  <2> DEFINE u == RemoveAt(m, to + 1)
  <2>2. /\ u \in Seq(S) /\ Len(u) = Len(m) - 1
        /\ \A i \in 1 .. Len(m) - 1 : u[i] = m[IF i < to + 1 THEN i ELSE i + 1]
    BY <1>3, <2>1, RemoveAtIs
  <2> HIDE DEF u
  <2>3. ASSUME NEW i \in 1 .. Len(u) PROVE u[i] = r[i]
    <3>1. CASE i < to + 1
      <4>1. u[i] = m[i] /\ i \in 1 .. Len(r) + 1 /\ i # to + 1
        BY <1>0, <1>1, <2>1, <2>2, <3>1
      <4>2. m[i] = r[i]
        BY <1>3, <3>1, <4>1
      <4> QED  BY <4>1, <4>2
    <3>2. CASE ~(i < to + 1)
      <4>1. u[i] = m[i + 1] /\ i + 1 \in 1 .. Len(r) + 1 /\ i + 1 # to + 1 /\ ~(i + 1 < to + 1)
        BY <1>0, <1>1, <2>1, <2>2, <3>2
      <4>2. m[i + 1] = r[i + 1 - 1]
        BY <1>3, <4>1
      <4> QED  BY <4>1, <4>2
    <3> QED  BY <3>1, <3>2
  <2>4. u = r
    BY <1>1, <2>1, <2>2, <2>3, SeqEqual
  <2> QED  BY <2>4 DEF u
<1> QED  BY <1>0, <1>1, <1>3, <1>4, <1>5, <1>6, <1>7 DEF r

\* What is moved stays distinct, and nothing comes or goes.
LEMMA MovedKeeps ==
    ASSUME NEW S, NEW q \in Seq(S), NEW from \in Positions(q), NEW to \in Positions(q)
    PROVE  /\ ToSet(Moved(q, from, to)) = ToSet(q)
           /\ IsInjective(q) => IsInjective(Moved(q, from, to))
<1>0. Len(q) \in Nat /\ from \in 0 .. Len(q) - 1 /\ to \in 0 .. Len(q) - 1
  BY DEF Positions
<1> DEFINE m == Moved(q, from, to)
<1>1. /\ m \in Seq(S) /\ Len(m) = Len(q)
      /\ \A i \in 1 .. Len(q) : m[i] = q[Source(from, to, i)]
      /\ \A j \in 1 .. Len(q) : m[Target(from, to, j)] = q[j]
  BY MovedIs
<1> HIDE DEF m
<1>2. DOMAIN m = 1 .. Len(q) /\ DOMAIN q = 1 .. Len(q)
  BY <1>1
<1>3. \A i \in 1 .. Len(q) :
          /\ Source(from, to, i) \in 1 .. Len(q) /\ Target(from, to, i) \in 1 .. Len(q)
          /\ Target(from, to, Source(from, to, i)) = i
  BY <1>0, SourceTarget
<1>4. ToSet(m) = ToSet(q)
  BY <1>1, <1>2, <1>3 DEF ToSet
<1>5. IsInjective(q) => IsInjective(m)
  <2> SUFFICES ASSUME IsInjective(q), NEW a \in 1 .. Len(q), NEW b \in 1 .. Len(q), m[a] = m[b]
               PROVE  a = b
    BY <1>2 DEF IsInjective
  <2>1. Source(from, to, a) = Source(from, to, b)
    BY <1>1, <1>2, <1>3 DEF IsInjective
  <2> QED  BY <1>3, <2>1
<1> QED  BY <1>4, <1>5 DEF m

-----------------------------------------------------------------------------
(* Shuffled orders                                                          *)

\* The order names the positions of a queue of length n, each once.
Orders(o, n) == o \in Seq(Nat) /\ ToSet(o) = 0 .. n - 1 /\ IsInjective(o)

LEMMA PlaceOf ==
    ASSUME NEW n \in Nat, NEW o, Orders(o, n)
    PROVE  /\ \A v \in 0 .. n - 1 : \E k \in 1 .. Len(o) : o[k] = v
           /\ \A k \in 1 .. Len(o) : o[k] \in 0 .. n - 1
           /\ \A k, l \in 1 .. Len(o) : o[k] = o[l] => k = l
           /\ DOMAIN o = 1 .. Len(o) /\ Len(o) \in Nat
<1>1. /\ DOMAIN o = 1 .. Len(o) /\ Len(o) \in Nat
      /\ {o[i] : i \in DOMAIN o} = 0 .. n - 1
      /\ \A k, l \in DOMAIN o : o[k] = o[l] => k = l
  BY DEF Orders, ToSet, IsInjective
<1> QED  BY <1>1

LEMMA OrdersIs ==
    ASSUME NEW n \in Nat, NEW o \in Seq(Nat),
           \A v \in 0 .. n - 1 : \E k \in 1 .. Len(o) : o[k] = v,
           \A k \in 1 .. Len(o) : o[k] \in 0 .. n - 1,
           \A k, l \in 1 .. Len(o) : o[k] = o[l] => k = l
    PROVE  Orders(o, n)
<1>1. DOMAIN o = 1 .. Len(o)
  OBVIOUS
<1>2. ToSet(o) \subseteq 0 .. n - 1
  BY <1>1 DEF ToSet
<1>3. ASSUME NEW v \in 0 .. n - 1 PROVE v \in ToSet(o)
  BY <1>1 DEF ToSet
<1>4. ToSet(o) = 0 .. n - 1
  BY <1>2, <1>3
<1> QED  BY <1>1, <1>4 DEF Orders, IsInjective

\* What position y is called once there is another one at position v.
Raise(y, v) == IF y >= v THEN y + 1 ELSE y

LEMMA ShiftUpIs ==
    ASSUME NEW o \in Seq(Nat), NEW pos \in Nat
    PROVE  /\ ShiftUp(o, pos) \in Seq(Nat)
           /\ Len(ShiftUp(o, pos)) = Len(o) + 1
           /\ \A i \in 1 .. Len(o) : ShiftUp(o, pos)[i] = Raise(o[i], pos)
           /\ ShiftUp(o, pos)[Len(o) + 1] = pos
<1> DEFINE p == [i \in DOMAIN o |-> Raise(o[i], pos)]
<1>0. Len(o) \in Nat /\ DOMAIN o = 1 .. Len(o) /\ \A i \in 1 .. Len(o) : o[i] \in Nat
  OBVIOUS
<1>1. p \in [1 .. Len(o) -> Nat] /\ \A i \in 1 .. Len(o) : p[i] = Raise(o[i], pos)
  <2>1. \A y \in Nat : Raise(y, pos) \in Nat
    BY DEF Raise
  <2> QED  BY <1>0, <2>1
<1> HIDE DEF p
<1>2. p \in Seq(Nat) /\ Len(p) = Len(o)
  BY <1>0, <1>1, ListIs
<1>3. ShiftUp(o, pos) = Append(p, pos)
  BY Zenon DEF ShiftUp, Raise, p
<1> QED  BY <1>1, <1>2, <1>3, AppendProperties

LEMMA ShiftUpOrders ==
    ASSUME NEW n \in Nat, NEW o, Orders(o, n), NEW pos \in 0 .. n
    PROVE  Orders(ShiftUp(o, pos), n + 1)
<1> DEFINE u == ShiftUp(o, pos)
<1>0. o \in Seq(Nat) /\ pos \in Nat
  BY DEF Orders
<1>1. /\ \A v \in 0 .. n - 1 : \E k \in 1 .. Len(o) : o[k] = v
      /\ \A k \in 1 .. Len(o) : o[k] \in 0 .. n - 1
      /\ \A k, l \in 1 .. Len(o) : o[k] = o[l] => k = l
      /\ Len(o) \in Nat
  BY PlaceOf
<1>2. /\ u \in Seq(Nat) /\ Len(u) = Len(o) + 1
      /\ \A i \in 1 .. Len(o) : u[i] = Raise(o[i], pos)
      /\ u[Len(o) + 1] = pos
  BY <1>0, ShiftUpIs
<1> HIDE DEF u
<1>3. ASSUME NEW v \in 0 .. n PROVE \E k \in 1 .. Len(u) : u[k] = v
  <2>1. CASE v = pos
    <3>1. Len(o) + 1 \in 1 .. Len(u)
      BY <1>1, <1>2
    <3> QED  BY <1>2, <2>1, <3>1
  <2>2. CASE v < pos
    <3>1. PICK k \in 1 .. Len(o) : o[k] = v
      BY <1>1, <2>2
    <3>2. u[k] = v
      BY <1>2, <2>2, <3>1 DEF Raise
    <3> QED  BY <1>1, <1>2, <3>2
  <2>3. CASE v > pos
    <3>1. v - 1 \in 0 .. n - 1
      BY <2>3
    <3>2. PICK k \in 1 .. Len(o) : o[k] = v - 1
      BY <1>1, <3>1
    <3>3. u[k] = v
      BY <1>2, <2>3, <3>2 DEF Raise
    <3> QED  BY <1>1, <1>2, <3>3
  <2> QED  BY <2>1, <2>2, <2>3
<1>4. \A k \in 1 .. Len(u) : k \in 1 .. Len(o) \/ k = Len(o) + 1
  BY <1>1, <1>2
<1>5. ASSUME NEW k \in 1 .. Len(u) PROVE u[k] \in 0 .. n
  <2>1. CASE k \in 1 .. Len(o)
    <3>1. o[k] \in 0 .. n - 1 /\ u[k] = Raise(o[k], pos)
      BY <1>1, <1>2, <2>1
    <3> QED  BY <3>1 DEF Raise
  <2>2. CASE k = Len(o) + 1
    BY <1>2, <2>2
  <2> QED  BY <1>4, <2>1, <2>2
<1>6. ASSUME NEW k \in 1 .. Len(u), NEW l \in 1 .. Len(u), u[k] = u[l] PROVE k = l
  <2>1. ASSUME NEW i \in 1 .. Len(o)
        PROVE  /\ o[i] \in Nat
               /\ u[i] = Raise(o[i], pos)
               /\ u[i] # pos
    <3>1. o[i] \in Nat
      BY <1>1
    <3>2. u[i] = Raise(o[i], pos)
      BY <1>2
    <3> QED  BY <1>0, <3>1, <3>2 DEF Raise
  <2>2. CASE k \in 1 .. Len(o) /\ l \in 1 .. Len(o)
    <3>1. \A y, z \in Nat : Raise(y, pos) = Raise(z, pos) => y = z
      BY <1>0 DEF Raise
    <3>2. o[k] = o[l]
      BY <1>6, <2>1, <2>2, <3>1
    <3> QED  BY <1>1, <2>2, <3>2
  <2>3. CASE k = Len(o) + 1 \/ l = Len(o) + 1
    BY <1>2, <1>4, <1>6, <2>1, <2>3
  <2> QED  BY <1>4, <2>2, <2>3
<1>7. n + 1 \in Nat /\ 0 .. (n + 1) - 1 = 0 .. n
  OBVIOUS
<1>8. Orders(u, n + 1)
  BY <1>2, <1>3, <1>5, <1>6, <1>7, OrdersIs
<1> QED  BY <1>8 DEF u

\* What position y is called once position v is gone.
Lower(y, v) == IF y > v THEN y - 1 ELSE y

\* The order without position v, which was at place k.
LEMMA ShiftDownIs ==
    ASSUME NEW o \in Seq(Nat), IsInjective(o), NEW k \in 1 .. Len(o), NEW v, v = o[k]
    PROVE  /\ ShiftDown(o, v) \in Seq(Nat)
           /\ Len(ShiftDown(o, v)) = Len(o) - 1
           /\ \A i \in 1 .. Len(o) - 1 :
                 ShiftDown(o, v)[i] = Lower(o[IF i < k THEN i ELSE i + 1], v)
<1>0. Len(o) \in Nat /\ v \in Nat
  OBVIOUS
<1> DEFINE r == RemoveAt(o, k)
           d == [i \in DOMAIN r |-> Lower(r[i], v)]
<1>1. /\ r \in Seq(Nat) /\ Len(r) = Len(o) - 1
      /\ \A i \in 1 .. Len(o) - 1 : r[i] = o[IF i < k THEN i ELSE i + 1]
  BY RemoveAtIs
<1>2. Without(o, v) = r
  BY WithoutIs
<1>3. ShiftDown(o, v) = d
  BY <1>2, Zenon DEF ShiftDown, Lower
<1> HIDE DEF r
<1>4. DOMAIN r = 1 .. Len(o) - 1 /\ \A i \in 1 .. Len(o) - 1 : r[i] \in Nat
  BY <1>1
<1>5. \A i \in 1 .. Len(o) - 1 : d[i] = Lower(r[i], v)
  BY <1>4
<1>6. d \in [1 .. Len(o) - 1 -> Nat]
  <2>1. \A y \in Nat : Lower(y, v) \in Nat
    BY <1>0 DEF Lower
  <2> QED  BY <1>4, <2>1
<1> HIDE DEF d
<1>7. d \in Seq(Nat) /\ Len(d) = Len(o) - 1
  <2>1. Len(o) - 1 \in Nat
    BY <1>0
  <2> QED  BY <1>6, <2>1, ListIs
<1> QED  BY <1>1, <1>3, <1>5, <1>7

LEMMA ShiftDownOrders ==
    ASSUME NEW n \in Nat, NEW o, Orders(o, n), NEW v \in 0 .. n - 1
    PROVE  Orders(ShiftDown(o, v), n - 1)
<1> DEFINE d == ShiftDown(o, v)
<1>0. o \in Seq(Nat) /\ IsInjective(o) /\ n - 1 \in Nat
  BY DEF Orders
<1>1. /\ \A w \in 0 .. n - 1 : \E k \in 1 .. Len(o) : o[k] = w
      /\ \A k \in 1 .. Len(o) : o[k] \in 0 .. n - 1
      /\ \A k, l \in 1 .. Len(o) : o[k] = o[l] => k = l
      /\ Len(o) \in Nat
  BY PlaceOf
<1>2. PICK k \in 1 .. Len(o) : o[k] = v
  BY <1>1
<1>3. /\ d \in Seq(Nat) /\ Len(d) = Len(o) - 1
      /\ \A i \in 1 .. Len(o) - 1 :
            d[i] = Lower(o[IF i < k THEN i ELSE i + 1], v)
  BY <1>0, <1>2, ShiftDownIs
<1> HIDE DEF d
<1>4. ASSUME NEW l \in 1 .. Len(o), l # k
      PROVE  /\ (IF l < k THEN l ELSE l - 1) \in 1 .. Len(d)
             /\ d[IF l < k THEN l ELSE l - 1] = Lower(o[l], v)
  <2>1. CASE l < k
    <3>1. l \in 1 .. Len(o) - 1
      BY <1>1, <2>1
    <3> QED  BY <1>3, <2>1, <3>1
  <2>2. CASE l > k
    <3>1. l - 1 \in 1 .. Len(o) - 1 /\ ~(l - 1 < k) /\ l - 1 + 1 = l
      BY <1>1, <2>2
    <3>2. d[l - 1] = Lower(o[l - 1 + 1], v)
      BY <1>3, <3>1
    <3> QED  BY <1>3, <2>2, <3>1, <3>2
  <2> QED  BY <1>4, <2>1, <2>2
<1>5. ASSUME NEW i \in 1 .. Len(d)
      PROVE  /\ (IF i < k THEN i ELSE i + 1) \in 1 .. Len(o)
             /\ o[IF i < k THEN i ELSE i + 1] # v
             /\ o[IF i < k THEN i ELSE i + 1] \in 0 .. n - 1
  <2> DEFINE l == IF i < k THEN i ELSE i + 1
  <2>1. l \in 1 .. Len(o) /\ l # k
    BY <1>1, <1>3
  <2> HIDE DEF l
  <2>2. o[l] # v /\ o[l] \in 0 .. n - 1
    BY <1>1, <1>2, <2>1
  <2> QED  BY <2>1, <2>2 DEF l
<1>6. ASSUME NEW w \in 0 .. (n - 1) - 1 PROVE \E i \in 1 .. Len(d) : d[i] = w
  <2> DEFINE x == IF w < v THEN w ELSE w + 1
  <2>1. x \in 0 .. n - 1 /\ x # v
    OBVIOUS
  <2>2. PICK l \in 1 .. Len(o) : o[l] = x
    BY <1>1, <2>1
  <2>3. l # k
    BY <1>2, <2>1, <2>2
  <2>4. Lower(x, v) = w
    BY DEF Lower
  <2> HIDE DEF x
  <2> QED  BY <1>4, <2>2, <2>3, <2>4
<1>7. ASSUME NEW i \in 1 .. Len(d) PROVE d[i] \in 0 .. (n - 1) - 1
  <2>1. \A y \in 0 .. n - 1 : y # v => Lower(y, v) \in 0 .. (n - 1) - 1
    BY DEF Lower
  <2> QED  BY <1>3, <1>5, <2>1
<1>8. ASSUME NEW i \in 1 .. Len(d), NEW j \in 1 .. Len(d), d[i] = d[j] PROVE i = j
  <2> DEFINE a == IF i < k THEN i ELSE i + 1
             b == IF j < k THEN j ELSE j + 1
  <2>1. /\ a \in 1 .. Len(o) /\ o[a] # v /\ o[a] \in 0 .. n - 1
        /\ b \in 1 .. Len(o) /\ o[b] # v /\ o[b] \in 0 .. n - 1
    BY <1>5
  <2>2. d[i] = Lower(o[a], v) /\ d[j] = Lower(o[b], v)
    BY <1>3
  <2>3. a = b => i = j
    OBVIOUS
  <2> HIDE DEF a, b
  <2>4. o[a] = o[b]
    <3>1. \A y, z \in 0 .. n - 1 : y # v /\ z # v /\ Lower(y, v) = Lower(z, v) => y = z
      BY DEF Lower
    <3> QED  BY <1>8, <2>1, <2>2, <3>1
  <2> QED  BY <1>1, <2>1, <2>3, <2>4
<1>9. Orders(d, n - 1)
  BY <1>0, <1>3, <1>6, <1>7, <1>8, OrdersIs
<1> QED  BY <1>9 DEF d

LEMMA MovedOrders ==
    ASSUME NEW n \in Nat, NEW o, Orders(o, n), NEW from \in Positions(o), NEW to \in Positions(o)
    PROVE  Orders(Moved(o, from, to), n)
BY MovedIs, MovedKeeps DEF Orders

\* An order as long as the queue that names each position at most once names all.
LEMMA InjectionOrders ==
    ASSUME NEW n \in Nat, NEW o \in [1 .. n -> 0 .. n - 1], IsInjective(o)
    PROVE  Orders(o, n)
<1>1. o \in Seq(Nat) /\ DOMAIN o = 1 .. n
  <2>1. o \in [1 .. n -> Nat]
    OBVIOUS
  <2> QED  BY <2>1, ListIs
<1>2. o \in Injection(1 .. n, 0 .. n - 1)
  BY DEF IsInjective, Injection
<1>3. IsFiniteSet(0 .. n - 1) /\ Cardinality(0 .. n - 1) = n
  <2>1. 0 \in Int /\ n - 1 \in Int
    OBVIOUS
  <2>2. /\ IsFiniteSet(0 .. n - 1)
        /\ Cardinality(0 .. n - 1) = IF 0 > n - 1 THEN 0 ELSE n - 1 - 0 + 1
    BY <2>1, FS_Interval
  <2> QED  BY <2>2
<1>4. Cardinality(1 .. n) = n
  <2>1. 1 \in Int /\ n \in Int
    OBVIOUS
  <2>2. Cardinality(1 .. n) = IF 1 > n THEN 0 ELSE n - 1 + 1
    BY <2>1, FS_Interval
  <2> QED  BY <2>2
<1>5. o \in Surjection(1 .. n, 0 .. n - 1)
  BY <1>2, <1>3, <1>4, FS_Injection
<1>6. \A v \in 0 .. n - 1 : \E k \in 1 .. n : o[k] = v
  BY <1>5 DEF Surjection
<1> QED  BY <1>1, <1>6 DEF Orders, ToSet

-----------------------------------------------------------------------------
(* Rows                                                                     *)

Row == [shuffle : BOOLEAN, queue : Seq(Songs), index : Int, order : Seq(Nat) \cup {NULL},
        pos : Nat, manual : SUBSET Songs, current : Songs \cup {NULL}, sources : SUBSET Songs]

Good(s) ==
    /\ s \in Row /\ IsInjective(s.queue)
    /\ Shuffled(s) => Orders(s.order, Len(s.queue)) /\ s.pos \in 0 .. Len(s.order)
    /\ s.index \in -1 .. Len(s.queue)
    /\ s.manual \cup s.sources \subseteq ToSet(s.queue)

LEMMA InList ==
    ASSUME NEW S, NEW q \in Seq(S), NEW x
    PROVE  /\ Contains(q, x) <=> x \in ToSet(q)
           /\ x \in ToSet(q) <=> \E i \in 1 .. Len(q) : q[i] = x
<1>1. DOMAIN q = 1 .. Len(q)
  OBVIOUS
<1> QED  BY <1>1 DEF Contains, ToSet

LEMMA PositionIs ==
    ASSUME NEW S, NEW q \in Seq(S), IsInjective(q), NEW x
    PROVE  /\ \A i \in 1 .. Len(q) : q[i] = x => PositionOf(q, x) = i - 1
           /\ x \notin ToSet(q) => PositionOf(q, x) = -1
<1> DEFINE I == {i \in 1 .. Len(q) : q[i] = x}
<1>1. PositionOf(q, x) = (IF I # {} THEN Min(I) ELSE 0) - 1
  BY Zenon DEF PositionOf, SelectInSeq
<1>2. ASSUME NEW i \in 1 .. Len(q), q[i] = x PROVE PositionOf(q, x) = i - 1
  <2>1. I = {i}
    BY <1>2 DEF IsInjective
  <2>2. Min({i}) = i
    BY DEF Min
  <2> HIDE DEF I
  <2> QED  BY <1>1, <2>1, <2>2
<1>3. ASSUME x \notin ToSet(q) PROVE PositionOf(q, x) = -1
  <2>1. I = {}
    BY <1>3, InList
  <2> HIDE DEF I
  <2> QED  BY <1>1, <2>1
<1> QED  BY <1>2, <1>3

\* What is played is the queue, in some order.
LEMMA PlaysIs ==
    ASSUME NEW s, Good(s)
    PROVE  /\ PlayOrder(s) \in Seq(Songs) /\ IsInjective(PlayOrder(s))
           /\ ToSet(PlayOrder(s)) = ToSet(s.queue)
           /\ ~Shuffled(s) => PlayOrder(s) = s.queue
           /\ Shuffled(s) => /\ Len(PlayOrder(s)) = Len(s.order)
                             /\ \A i \in 1 .. Len(s.order) :
                                   /\ PlayOrder(s)[i] = s.queue[s.order[i] + 1]
                                   /\ s.order[i] + 1 \in 1 .. Len(s.queue)
<1>0. s.queue \in Seq(Songs) /\ Len(s.queue) \in Nat /\ IsInjective(s.queue)
      /\ DOMAIN s.queue = 1 .. Len(s.queue)
  BY DEF Good, Row
<1>1. CASE ~Shuffled(s)
  BY <1>0, <1>1 DEF PlayOrder
<1>2. CASE Shuffled(s)
  <2> DEFINE o == s.order
             q == s.queue
             p == [i \in DOMAIN o |-> q[o[i] + 1]]
  <2>1. PlayOrder(s) = p
    BY <1>2 DEF PlayOrder
  <2>2. Orders(o, Len(q))
    BY <1>2 DEF Good
  <2> HIDE DEF o, q
  <2>3. q \in Seq(Songs) /\ Len(q) \in Nat /\ IsInjective(q) /\ DOMAIN q = 1 .. Len(q)
    BY <1>0 DEF q
  <2>4. /\ \A v \in 0 .. Len(q) - 1 : \E k \in 1 .. Len(o) : o[k] = v
        /\ \A k \in 1 .. Len(o) : o[k] \in 0 .. Len(q) - 1
        /\ \A k, l \in 1 .. Len(o) : o[k] = o[l] => k = l
        /\ DOMAIN o = 1 .. Len(o) /\ Len(o) \in Nat
    BY <2>2, <2>3, PlaceOf
  <2>5. \A i \in 1 .. Len(o) : p[i] = q[o[i] + 1] /\ o[i] + 1 \in 1 .. Len(q)
    BY <2>4
  <2>6. p \in [1 .. Len(o) -> Songs]
    BY <2>3, <2>4
  <2> HIDE DEF p
  <2>7. p \in Seq(Songs) /\ Len(p) = Len(o) /\ DOMAIN p = 1 .. Len(o)
    BY <2>4, <2>6, ListIs
  <2>8. IsInjective(p)
    <3> SUFFICES ASSUME NEW a \in 1 .. Len(o), NEW b \in 1 .. Len(o), p[a] = p[b]
                 PROVE  a = b
      BY <2>7 DEF IsInjective
    <3>1. o[a] + 1 = o[b] + 1
      BY <2>3, <2>5 DEF IsInjective
    <3>2. o[a] = o[b]
      BY <2>4, <3>1
    <3> QED  BY <2>4, <3>2
  <2>9. ToSet(p) = ToSet(q)
    <3>1. ToSet(p) \subseteq ToSet(q)
      BY <2>3, <2>5, <2>7 DEF ToSet
    <3>2. ASSUME NEW j \in 1 .. Len(q) PROVE q[j] \in ToSet(p)
      <4>1. PICK k \in 1 .. Len(o) : o[k] = j - 1
        BY <2>3, <2>4
      <4>2. p[k] = q[j]
        BY <2>5, <4>1
      <4> QED  BY <2>7, <4>2 DEF ToSet
    <3>3. ToSet(q) \subseteq ToSet(p)
      BY <2>3, <3>2 DEF ToSet
    <3> QED  BY <3>1, <3>3
  <2> QED  BY <1>2, <2>1, <2>5, <2>7, <2>8, <2>9 DEF o, q
<1> QED  BY <1>1, <1>2

\* Both cursors are at the current song.
LEMMA AtIs ==
    ASSUME NEW s, Good(s)
    PROVE  AtCurrent(s) <=>
              /\ s.current # NULL
              /\ s.index + 1 \in 1 .. Len(s.queue) /\ s.queue[s.index + 1] = s.current
              /\ Shuffled(s) => /\ s.pos + 1 \in 1 .. Len(s.order)
                                /\ s.order[s.pos + 1] = s.index
<1> DEFINE q == s.queue
           o == s.order
           p == PlayOrder(s)
<1>0. /\ q \in Seq(Songs) /\ Len(q) \in Nat /\ IsInjective(q) /\ DOMAIN q = 1 .. Len(q)
      /\ s.index \in Int /\ s.pos \in Nat
  BY DEF Good, Row
<1>1. /\ p \in Seq(Songs) /\ DOMAIN p = 1 .. Len(p)
      /\ ToSet(p) = ToSet(q)
      /\ ~Shuffled(s) => p = q
      /\ Shuffled(s) => /\ Len(p) = Len(o)
                        /\ \A i \in 1 .. Len(o) : /\ p[i] = q[o[i] + 1]
                                                  /\ o[i] + 1 \in 1 .. Len(q)
  BY PlaysIs
<1>2. Shuffled(s) => o \in Seq(Nat)
  BY DEF Good, Orders
<1>3. Playing(s) = IF Cursor(s) + 1 \in DOMAIN p THEN p[Cursor(s) + 1] ELSE NULL
  BY DEF Playing
<1>4. Cursor(s) = IF Shuffled(s) THEN s.pos ELSE s.index
  BY DEF Cursor
<1>5. \A i \in 1 .. Len(q) : q[i] = s.current => PositionOf(q, s.current) = i - 1
  BY <1>0, PositionIs
<1> HIDE DEF p
<1>6. ASSUME AtCurrent(s)
      PROVE  /\ s.current # NULL
             /\ s.index + 1 \in 1 .. Len(q) /\ q[s.index + 1] = s.current
             /\ Shuffled(s) => /\ s.pos + 1 \in 1 .. Len(o)
                               /\ o[s.pos + 1] = s.index
  <2>1. /\ s.current # NULL /\ Playing(s) = s.current
        /\ s.index = PositionOf(q, s.current)
    BY <1>6 DEF AtCurrent
  <2>2. Cursor(s) + 1 \in 1 .. Len(p) /\ p[Cursor(s) + 1] = s.current
    BY <1>1, <1>3, <2>1
  <2>3. CASE ~Shuffled(s)
    BY <1>1, <1>4, <2>1, <2>2, <2>3
  <2>4. CASE Shuffled(s)
    <3>1. /\ s.pos + 1 \in 1 .. Len(o) /\ q[o[s.pos + 1] + 1] = s.current
          /\ o[s.pos + 1] + 1 \in 1 .. Len(q) /\ o[s.pos + 1] \in Nat
      <4> DEFINE k == s.pos + 1
      <4>1. k \in 1 .. Len(p) /\ p[k] = s.current
        BY <1>4, <2>2, <2>4
      <4>2. Len(p) = Len(o) /\ o \in Seq(Nat)
            /\ \A i \in 1 .. Len(o) : p[i] = q[o[i] + 1] /\ o[i] + 1 \in 1 .. Len(q)
        BY <1>1, <1>2, <2>4
      <4> HIDE DEF k, q, o
      <4>3. /\ k \in 1 .. Len(o) /\ q[o[k] + 1] = s.current
            /\ o[k] + 1 \in 1 .. Len(q) /\ o[k] \in Nat
        BY <4>1, <4>2
      <4> QED  BY <4>3 DEF k
    <3>2. s.index = o[s.pos + 1] + 1 - 1
      BY <1>5, <2>1, <3>1
    <3>3. s.index = o[s.pos + 1]
      BY <3>1, <3>2
    <3> QED  BY <2>1, <3>1, <3>3
  <2> QED  BY <2>3, <2>4
<1>7. ASSUME s.current # NULL,
             s.index + 1 \in 1 .. Len(q), q[s.index + 1] = s.current,
             Shuffled(s) => s.pos + 1 \in 1 .. Len(o) /\ o[s.pos + 1] = s.index
      PROVE  AtCurrent(s)
  <2>1. s.index = PositionOf(q, s.current)
    BY <1>0, <1>5, <1>7
  <2>2. Cursor(s) + 1 \in DOMAIN p /\ p[Cursor(s) + 1] = s.current
    BY <1>1, <1>4, <1>7
  <2> QED  BY <1>3, <1>7, <2>1, <2>2 DEF AtCurrent
<1> QED  BY <1>6, <1>7

\* The columns that changed are written over the row that was loaded: the row wanted.
LEMMA ColumnsIs ==
    ASSUME NEW s \in Row, NEW r \in Row
    PROVE  Columns(s, s, r) = r
<1>1. DOMAIN s = DOMAIN r
  BY DEF Row
<1>2. Columns(s, s, r) = [c \in DOMAIN r |-> r[c]]
  BY <1>1, Zenon DEF Columns
<1> QED  BY <1>2 DEF Row

-----------------------------------------------------------------------------
(* Rows that clients put                                                    *)

LEMMA BodiesAreGood ==
    ASSUME NEW s \in Bodies
    PROVE  Good(s)
<1>1. PICK q \in Distinct(Songs, MaxQueue) : s \in ListBodies(q) \cup ShuffledBodies(q)
  BY DEF Bodies
<1>2. PICK n \in 0 .. MaxQueue : q \in [1 .. n -> Songs]
  BY <1>1 DEF Distinct, SeqOf
<1>3. /\ n \in Nat /\ q \in Seq(Songs) /\ Len(q) = n /\ DOMAIN q = 1 .. n
      /\ IsInjective(q) /\ ToSet(q) \subseteq Songs
  <2>1. n \in Nat
    BY PlayerAssumption
  <2>2. q \in Seq(Songs) /\ Len(q) = n /\ DOMAIN q = 1 .. n
    BY <1>2, <2>1, ListIs
  <2> QED  BY <1>2, <2>1, <2>2 DEF Distinct, ToSet
<1>4. CASE s \in ListBodies(q)
  <2>1. PICK on \in BOOLEAN, i \in {-1} \cup Positions(q), m \in {{}, ToSet(q)} :
            s = [shuffle |-> on, queue |-> q, index |-> i, order |-> NULL, pos |-> 0,
                 manual |-> m, current |-> IF i = -1 THEN NULL ELSE q[i + 1],
                 sources |-> ToSet(q)]
    BY <1>4 DEF ListBodies
  <2>2. i \in -1 .. n - 1
    BY <1>3 DEF Positions
  <2>3. (IF i = -1 THEN NULL ELSE q[i + 1]) \in Songs \cup {NULL}
    BY <1>2, <1>3, <2>2
  <2>4. m \subseteq ToSet(q)
    OBVIOUS
  <2>5. s \in Row
    BY <1>3, <2>1, <2>2, <2>3, <2>4 DEF Row
  <2>6. ~Shuffled(s)
    BY <2>1 DEF Shuffled
  <2>7. s.queue = q /\ s.index = i /\ s.manual = m /\ s.sources = ToSet(q)
    BY <2>1
  <2> QED  BY <1>3, <2>2, <2>4, <2>5, <2>6, <2>7 DEF Good
<1>5. CASE s \in ShuffledBodies(q)
  <2>1. PICK o \in {o \in [DOMAIN q -> Positions(q)] : IsInjective(o)}, p \in Positions(q),
             m \in {{}, ToSet(q)} :
            s = [shuffle |-> TRUE, queue |-> q, index |-> o[p + 1], order |-> o, pos |-> p,
                 manual |-> m, current |-> q[o[p + 1] + 1], sources |-> ToSet(q)]
    BY <1>5 DEF ShuffledBodies
  <2>2. o \in [1 .. n -> 0 .. n - 1] /\ IsInjective(o) /\ p \in 0 .. n - 1
    BY <1>3 DEF Positions
  <2>3. Orders(o, n) /\ Len(o) = n /\ o \in Seq(Nat)
    <3>1. Orders(o, n)
      BY <1>3, <2>2, InjectionOrders
    <3> QED  BY <1>3, <2>2, <3>1, ListIs DEF Orders
  <2>4. o[p + 1] \in 0 .. n - 1 /\ q[o[p + 1] + 1] \in Songs
    <3>1. o[p + 1] \in 0 .. n - 1
      BY <1>3, <2>2
    <3> QED  BY <1>2, <1>3, <3>1
  <2>5. m \subseteq ToSet(q)
    OBVIOUS
  <2>6. s \in Row
    BY <1>3, <2>1, <2>2, <2>3, <2>4, <2>5 DEF Row
  <2>7. /\ s.queue = q /\ s.index = o[p + 1] /\ s.order = o /\ s.pos = p
        /\ s.manual = m /\ s.sources = ToSet(q)
    BY <2>1
  <2> QED  BY <1>3, <2>2, <2>3, <2>4, <2>5, <2>6, <2>7 DEF Good
<1> QED  BY <1>1, <1>4, <1>5

-----------------------------------------------------------------------------
(* queue_insert                                                             *)

\* What a song at place k of a list makes of the list.
Widened(q, a, k, song) ==
    /\ q \in Seq(Songs) /\ Len(q) = Len(a) + 1 /\ IsInjective(q)
    /\ ToSet(q) = ToSet(a) \cup {song}
    /\ q[k] = song
    /\ \A j \in 1 .. Len(a) : q[IF j < k THEN j ELSE j + 1] = a[j]

LEMMA Widening ==
    ASSUME NEW a \in Seq(Songs), IsInjective(a), NEW song \in Songs, song \notin ToSet(a),
           NEW k \in 1 .. Len(a) + 1
    PROVE  Widened(InsertAt(a, k, song), a, k, song)
<1> DEFINE q == InsertAt(a, k, song)
<1>1. Len(a) \in Nat /\ k \in Nat /\ DOMAIN a = 1 .. Len(a)
  OBVIOUS
<1>2. /\ q \in Seq(Songs) /\ Len(q) = Len(a) + 1
      /\ q[k] = song
      /\ \A i \in 1 .. k - 1 : q[i] = a[i]
      /\ \A i \in k + 1 .. Len(a) + 1 : q[i] = a[i - 1]
  <2>1. /\ InsertAt(a, k, song) \in Seq(Songs)
        /\ Len(InsertAt(a, k, song)) = Len(a) + 1
        /\ InsertAt(a, k, song)[k] = song
        /\ \A i \in 1 .. k - 1 : InsertAt(a, k, song)[i] = a[i]
        /\ \A i \in k + 1 .. Len(a) + 1 : InsertAt(a, k, song)[i] = a[i - 1]
    BY InsertAtIs
  <2> QED  BY <2>1
<1> HIDE DEF q
<1>3. DOMAIN q = 1 .. Len(a) + 1
  BY <1>2
<1>4. ASSUME NEW j \in 1 .. Len(a)
      PROVE  /\ q[IF j < k THEN j ELSE j + 1] = a[j]
             /\ (IF j < k THEN j ELSE j + 1) \in 1 .. Len(a) + 1
  <2>1. CASE j < k
    BY <1>1, <1>2, <2>1
  <2>2. CASE ~(j < k)
    <3>1. j + 1 \in k + 1 .. Len(a) + 1 /\ j + 1 - 1 = j
      BY <1>1, <2>2
    <3>2. q[j + 1] = a[j + 1 - 1]
      BY <1>2, <3>1
    <3> QED  BY <1>1, <2>2, <3>1, <3>2
  <2> QED  BY <2>1, <2>2
\* The place in the old list of what is at place i.
<1> DEFINE Old(i) == IF i < k THEN i ELSE i - 1
<1>5. ASSUME NEW i \in 1 .. Len(a) + 1, i # k
      PROVE  Old(i) \in 1 .. Len(a) /\ q[i] = a[Old(i)]
  <2>1. CASE i < k
    BY <1>1, <1>2, <2>1
  <2>2. CASE i > k
    BY <1>1, <1>2, <2>2
  <2> QED  BY <1>1, <1>5, <2>1, <2>2
<1>6. \A j \in 1 .. Len(a) : a[j] # song /\ a[j] \in ToSet(a)
  BY <1>1 DEF ToSet
<1>7. \A i, j \in 1 .. Len(a) + 1 : i # k /\ j # k /\ Old(i) = Old(j) => i = j
  BY <1>1
<1> HIDE DEF Old
<1>8. ToSet(q) = ToSet(a) \cup {song}
  <2>1. ToSet(q) \subseteq ToSet(a) \cup {song}
    BY <1>2, <1>3, <1>5, <1>6 DEF ToSet
  <2>2. ToSet(a) \subseteq ToSet(q)
    BY <1>1, <1>3, <1>4 DEF ToSet
  <2>3. song \in ToSet(q)
    BY <1>1, <1>2, <1>3 DEF ToSet
  <2> QED  BY <2>1, <2>2, <2>3
<1>9. IsInjective(q)
  <2> SUFFICES ASSUME NEW i \in 1 .. Len(a) + 1, NEW j \in 1 .. Len(a) + 1, q[i] = q[j]
               PROVE  i = j
    BY <1>3 DEF IsInjective
  <2>1. CASE i = k \/ j = k
    BY <1>2, <1>5, <1>6, <2>1
  <2>2. CASE i # k /\ j # k
    <3>1. Old(i) = Old(j)
      BY <1>1, <1>5, <2>2 DEF IsInjective
    <3> QED  BY <1>7, <2>2, <3>1
  <2> QED  BY <2>1, <2>2
<1>10. Widened(q, a, k, song)
  BY <1>2, <1>4, <1>8, <1>9 DEF Widened
<1> QED  BY <1>10 DEF q

\* r is the row s with the song at position p of the queue.
IsInserted(r, s, song, p) ==
    /\ r \in Row /\ r.pos = s.pos /\ r.current = s.current /\ r.manual = s.manual
    /\ r.sources \subseteq s.sources \cup {song}
    /\ r.index = IndexAfterInsert(s.index, p)
    /\ r.queue = InsertAt(s.queue, p + 1, song)
    /\ Shuffled(r) <=> Shuffled(s)
    /\ Shuffled(s) => r.order = ShiftUp(s.order, p)

LEMMA QueueInsertIs ==
    ASSUME NEW s, Good(s), NEW song \in Songs, NEW at \in {NULL} \cup Int,
           NEW labelled, NEW r, r = QueueInsert(s, song, at, labelled)
    PROVE  \/ song \in ToSet(s.queue) /\ r = s
           \/ song \notin ToSet(s.queue) /\ \E p \in 0 .. Len(s.queue) : IsInserted(r, s, song, p)
<1> DEFINE p == IF at = NULL THEN Len(s.queue) ELSE Clamp(at, Len(s.queue))
           q == InsertAt(s.queue, p + 1, song)
           o == IF Shuffled(s) THEN ShiftUp(s.order, p) ELSE s.order
           i == IndexAfterInsert(s.index, p)
           u == IF labelled THEN s.sources \cup {song} ELSE s.sources
<1>0. s \in Row /\ s.queue \in Seq(Songs) /\ Len(s.queue) \in Nat /\ s.index \in Int
  BY DEF Good, Row
<1>1. Known(s.queue, song) <=> song \in ToSet(s.queue)
  BY <1>0, InList DEF Known
<1>2. p \in 0 .. Len(s.queue)
  BY <1>0 DEF Clamp
<1>3. r = IF Known(s.queue, song) THEN s
          ELSE [s EXCEPT !.queue = q, !.order = o, !.index = i, !.sources = u]
  BY <1>0 DEF QueueInsert, Row
<1> HIDE DEF p
<1>4. q \in Seq(Songs)
  <2>1. p + 1 \in 1 .. Len(s.queue) + 1
    BY <1>0, <1>2
  <2> QED  BY <1>0, <2>1, InsertAtIs
<1>5. o \in Seq(Nat) \cup {NULL} /\ (Shuffled(s) => o \in Seq(Nat))
  <2>1. CASE Shuffled(s)
    <3>1. s.order \in Seq(Nat) /\ p \in Nat
      BY <1>0, <1>2, <2>1 DEF Good, Orders
    <3>2. ShiftUp(s.order, p) \in Seq(Nat)
      BY <3>1, ShiftUpIs
    <3> QED  BY <2>1, <3>2
  <2>2. CASE ~Shuffled(s)
    BY <1>0, <2>2 DEF Row
  <2> QED  BY <2>1, <2>2
<1>6. i \in Int
  BY <1>0, <1>2 DEF IndexAfterInsert
<1>7. u \in SUBSET Songs /\ u \subseteq s.sources \cup {song}
  BY <1>0 DEF Row
<1>8. (Shuffled(s) => o = ShiftUp(s.order, p)) /\ (~Shuffled(s) => o = s.order)
  OBVIOUS
<1> HIDE DEF q, o, i, u
<1>9. ASSUME song \notin ToSet(s.queue)
      PROVE  IsInserted(r, s, song, p)
  <2>1. /\ r.shuffle = s.shuffle /\ r.pos = s.pos
        /\ r.current = s.current /\ r.manual = s.manual
        /\ r.queue = q /\ r.order = o /\ r.index = i /\ r.sources = u
        /\ r \in Row
    BY <1>0, <1>1, <1>3, <1>4, <1>5, <1>6, <1>7, <1>9 DEF Row
  <2>2. Shuffled(r) <=> Shuffled(s)
    BY <1>5, <1>8, <2>1, PlayerAssumption DEF Shuffled
  <2> QED  BY <1>7, <1>8, <2>1, <2>2 DEF IsInserted, q, i
<1> QED  BY <1>1, <1>2, <1>3, <1>9

\* What the queue and the shuffled order are then.
LEMMA InsertedLists ==
    ASSUME NEW s, Good(s), NEW song \in Songs, song \notin ToSet(s.queue),
           NEW p \in 0 .. Len(s.queue), NEW r, IsInserted(r, s, song, p)
    PROVE  /\ Widened(r.queue, s.queue, p + 1, song)
           /\ Shuffled(s) =>
                /\ Orders(r.order, Len(r.queue)) /\ Len(r.order) = Len(s.order) + 1
                /\ \A j \in 1 .. Len(s.order) : r.order[j] = Raise(s.order[j], p)
                /\ r.order[Len(s.order) + 1] = p
<1> DEFINE a == s.queue
           o == s.order
           k == p + 1
<1>0. a \in Seq(Songs) /\ Len(a) \in Nat /\ IsInjective(a) /\ p \in Nat
  BY DEF Good, Row
<1>1. Widened(r.queue, a, k, song)
  <2>1. k \in 1 .. Len(a) + 1 /\ r.queue = InsertAt(a, k, song) /\ song \notin ToSet(a)
    BY <1>0 DEF IsInserted
  <2> HIDE DEF a, k
  <2> QED  BY <1>0, <2>1, Widening
<1>2. ASSUME Shuffled(s)
      PROVE  /\ Orders(r.order, Len(r.queue)) /\ Len(r.order) = Len(o) + 1
             /\ \A j \in 1 .. Len(o) : r.order[j] = Raise(o[j], p)
             /\ r.order[Len(o) + 1] = p
  <2>1. r.order = ShiftUp(o, p) /\ Orders(o, Len(a)) /\ o \in Seq(Nat) /\ p \in 0 .. Len(a)
    BY <1>0, <1>2 DEF Good, Orders, IsInserted
  <2>2. Len(r.queue) = Len(a) + 1
    BY <1>1 DEF Widened
  <2> DEFINE u == ShiftUp(o, p)
  <2>3. Orders(u, Len(a) + 1)
    BY <1>0, <2>1, ShiftUpOrders
  <2>4. /\ Len(u) = Len(o) + 1
        /\ \A j \in 1 .. Len(o) : u[j] = Raise(o[j], p)
        /\ u[Len(o) + 1] = p
    <3> HIDE DEF o, a
    <3> QED  BY <1>0, <2>1, ShiftUpIs
  <2> HIDE DEF u, o
  <2>5. r.order = u
    BY <2>1 DEF u
  <2> QED  BY <2>2, <2>3, <2>4, <2>5
<1> QED  BY <1>1, <1>2

LEMMA InsertedIsGood ==
    ASSUME NEW s, Good(s), NEW song \in Songs, song \notin ToSet(s.queue),
           NEW p \in 0 .. Len(s.queue), NEW r, IsInserted(r, s, song, p)
    PROVE  Good(r)
<1>0. /\ Len(s.queue) \in Nat /\ s.index \in -1 .. Len(s.queue)
      /\ s.manual \cup s.sources \subseteq ToSet(s.queue)
  BY DEF Good, Row
<1>1. /\ Len(r.queue) = Len(s.queue) + 1 /\ IsInjective(r.queue)
      /\ ToSet(r.queue) = ToSet(s.queue) \cup {song}
  <2>1. Widened(r.queue, s.queue, p + 1, song)
    BY InsertedLists
  <2> QED  BY <2>1 DEF Widened
<1>2. r.index \in -1 .. Len(r.queue)
  BY <1>0, <1>1 DEF IndexAfterInsert, IsInserted
<1>3. ASSUME Shuffled(s)
      PROVE  Orders(r.order, Len(r.queue)) /\ r.pos \in 0 .. Len(r.order)
  <2>1. s.order \in Seq(Nat) /\ Len(s.order) \in Nat /\ s.pos \in 0 .. Len(s.order)
    BY <1>3 DEF Good, Orders
  <2>2. Orders(r.order, Len(r.queue)) /\ Len(r.order) = Len(s.order) + 1
    BY <1>3, InsertedLists
  <2> QED  BY <2>1, <2>2 DEF IsInserted
<1>4. r.manual \cup r.sources \subseteq ToSet(r.queue)
  BY <1>0, <1>1 DEF IsInserted
<1> QED  BY <1>1, <1>2, <1>3, <1>4 DEF Good, IsInserted

LEMMA InsertedKeepsCurrent ==
    ASSUME NEW s, Good(s), NEW song \in Songs, song \notin ToSet(s.queue),
           NEW p \in 0 .. Len(s.queue), NEW r, IsInserted(r, s, song, p), AtCurrent(s)
    PROVE  AtCurrent(r)
<1> DEFINE a == s.queue
           q == r.queue
           j == s.index + 1
<1>0. /\ Len(a) \in Nat /\ s.index \in Int /\ s.pos \in Nat /\ p \in Nat
  BY DEF Good, Row
<1>1. /\ r.pos = s.pos /\ r.current = s.current
      /\ r.index = IndexAfterInsert(s.index, p)
      /\ Shuffled(r) <=> Shuffled(s)
  BY DEF IsInserted
<1>2. /\ s.current # NULL /\ j \in 1 .. Len(a) /\ a[j] = s.current
      /\ Shuffled(s) => s.pos + 1 \in 1 .. Len(s.order) /\ s.order[s.pos + 1] = s.index
  BY AtIs
<1>3. Len(q) = Len(a) + 1 /\ q[IF j < p + 1 THEN j ELSE j + 1] = a[j]
  <2>1. Widened(q, a, p + 1, song)
    BY InsertedLists
  <2> HIDE DEF a, q, j
  <2> QED  BY <1>2, <2>1 DEF Widened
<1>4. r.index + 1 = IF j < p + 1 THEN j ELSE j + 1
  BY <1>0, <1>1 DEF IndexAfterInsert
<1>5. r.index + 1 \in 1 .. Len(q) /\ q[r.index + 1] = r.current
  <2>1. Len(a) \in Nat /\ j \in 1 .. Len(a) /\ Len(q) = Len(a) + 1
    BY <1>0, <1>2, <1>3
  <2>2. (IF j < p + 1 THEN j ELSE j + 1) \in 1 .. Len(q)
    <3> HIDE DEF a, q, j
    <3> QED  BY <2>1
  <2>3. r.index + 1 \in 1 .. Len(q)
    <3> HIDE DEF a, q, j
    <3> QED  BY <1>4, <2>2
  <2>4. q[r.index + 1] = a[j]
    <3> HIDE DEF a, q, j
    <3> QED  BY <1>3, <1>4
  <2>5. a[j] = r.current
    <3> HIDE DEF a, q, j
    <3> QED  BY <1>1, <1>2
  <2> QED  BY <2>3, <2>4, <2>5
<1>6. ASSUME Shuffled(s)
      PROVE  r.pos + 1 \in 1 .. Len(r.order) /\ r.order[r.pos + 1] = r.index
  <2>1. /\ Len(r.order) = Len(s.order) + 1
        /\ \A i \in 1 .. Len(s.order) : r.order[i] = Raise(s.order[i], p)
    BY <1>6, InsertedLists
  <2>2. s.order \in Seq(Nat) /\ Len(s.order) \in Nat
    BY <1>6 DEF Good, Orders
  <2>3. r.order[s.pos + 1] = Raise(s.index, p)
    BY <1>2, <1>6, <2>1
  <2>4. Raise(s.index, p) = r.index
    BY <1>0, <1>1 DEF Raise, IndexAfterInsert
  <2> QED  BY <1>0, <1>1, <1>2, <1>6, <2>1, <2>2, <2>3, <2>4
<1>7. Good(r)
  BY InsertedIsGood
<1> QED  BY <1>1, <1>2, <1>5, <1>6, <1>7, AtIs

\* In the order of play the song is put in, and the others stay as they were.
LEMMA InsertedPlays ==
    ASSUME NEW s, Good(s), NEW song \in Songs, song \notin ToSet(s.queue),
           NEW p \in 0 .. Len(s.queue), NEW r, IsInserted(r, s, song, p)
    PROVE  Contains(PlayOrder(r), song) /\ Without(PlayOrder(r), song) = PlayOrder(s)
<1> DEFINE a == s.queue
           q == r.queue
           o == s.order
           u == r.order
           new == PlayOrder(r)
           old == PlayOrder(s)
<1>0. Len(a) \in Nat /\ p \in Nat
  BY DEF Good, Row
<1>1. Shuffled(r) <=> Shuffled(s)
  BY DEF IsInserted
<1>2. Widened(q, a, p + 1, song)
  BY InsertedLists
<1>3. Good(r)
  BY InsertedIsGood
<1>4. /\ new \in Seq(Songs) /\ IsInjective(new)
      /\ ToSet(new) = ToSet(q)
      /\ ~Shuffled(r) => new = q
      /\ Shuffled(r) => /\ Len(new) = Len(u)
                        /\ \A i \in 1 .. Len(u) : new[i] = q[u[i] + 1] /\ u[i] + 1 \in 1 .. Len(q)
  BY <1>3, PlaysIs
<1>5. /\ old \in Seq(Songs)
      /\ ~Shuffled(s) => old = a
      /\ Shuffled(s) => /\ Len(old) = Len(o)
                        /\ \A i \in 1 .. Len(o) : old[i] = a[o[i] + 1] /\ o[i] + 1 \in 1 .. Len(a)
  BY PlaysIs
<1>6. Shuffled(s) => /\ Len(u) = Len(o) + 1 /\ Len(o) \in Nat /\ o \in Seq(Nat)
                     /\ \A j \in 1 .. Len(o) : u[j] = Raise(o[j], p)
                     /\ u[Len(o) + 1] = p
  BY InsertedLists DEF Good, Orders
<1> HIDE DEF a, q, o, u, new, old
<1>7. /\ Len(q) = Len(a) + 1 /\ q[p + 1] = song /\ song \in ToSet(q)
      /\ \A j \in 1 .. Len(a) : q[IF j < p + 1 THEN j ELSE j + 1] = a[j]
  BY <1>2 DEF Widened
<1>8. Contains(new, song)
  BY <1>4, <1>7, InList
\* Where the song is in the order of play.
<1> DEFINE k == IF Shuffled(s) THEN Len(o) + 1 ELSE p + 1
<1>9. /\ k \in 1 .. Len(new) /\ new[k] = song /\ Len(new) = Len(old) + 1
      /\ \A j \in 1 .. Len(old) : new[IF j < k THEN j ELSE j + 1] = old[j]
  <2>1. CASE ~Shuffled(s)
    <3>1. new = q /\ old = a /\ k = p + 1
      BY <1>1, <1>4, <1>5, <2>1
    <3>2. p + 1 \in 1 .. Len(a) + 1
      BY <1>0 DEF a
    <3> QED  BY <1>7, <3>1, <3>2
  <2>2. CASE Shuffled(s)
    <3>1. k = Len(o) + 1 /\ k \in 1 .. Len(u) /\ Len(new) = Len(u) /\ Len(old) = Len(o)
      BY <1>1, <1>4, <1>5, <1>6, <2>2
    <3> HIDE DEF k
    <3>2. new[k] = song
      BY <1>1, <1>4, <1>6, <1>7, <2>2, <3>1
    <3>3. ASSUME NEW j \in 1 .. Len(o) PROVE new[j] = old[j] /\ j < k
      <4>1. /\ j \in 1 .. Len(u) /\ j < k
            /\ old[j] = a[o[j] + 1] /\ o[j] + 1 \in 1 .. Len(a) /\ o[j] \in Nat
        BY <1>5, <1>6, <2>2, <3>1
      <4>2. new[j] = q[u[j] + 1]
        BY <1>1, <1>4, <2>2, <4>1
      <4>3. u[j] + 1 = IF o[j] + 1 < p + 1 THEN o[j] + 1 ELSE o[j] + 1 + 1
        BY <1>0, <1>6, <2>2, <4>1 DEF Raise
      <4>4. q[u[j] + 1] = a[o[j] + 1]
        BY <1>7, <4>1, <4>3
      <4> QED  BY <4>1, <4>2, <4>4
    <3> QED  BY <1>6, <2>2, <3>1, <3>2, <3>3
  <2> QED  BY <2>1, <2>2
<1> HIDE DEF k
<1>10. Without(new, song) = RemoveAt(new, k)
  BY <1>4, <1>9, WithoutIs
<1>11. RemoveAt(new, k) = old
  <2>1. /\ RemoveAt(new, k) \in Seq(Songs) /\ Len(RemoveAt(new, k)) = Len(new) - 1
        /\ \A i \in 1 .. Len(new) - 1 : RemoveAt(new, k)[i] = new[IF i < k THEN i ELSE i + 1]
    BY <1>4, <1>9, RemoveAtIs
  <2>2. Len(old) \in Nat /\ Len(new) - 1 = Len(old)
    BY <1>5, <1>9
  <2> QED  BY <1>5, <1>9, <2>1, <2>2, SeqEqual
<1> QED  BY <1>8, <1>10, <1>11 DEF new, old

-----------------------------------------------------------------------------
(* queue_remove                                                             *)

\* What a list is without its place k.
Narrowed(q, a, k) ==
    /\ q \in Seq(Songs) /\ Len(q) = Len(a) - 1 /\ IsInjective(q)
    /\ ToSet(q) = ToSet(a) \ {a[k]}
    /\ \A j \in 1 .. Len(a) : j # k => q[IF j < k THEN j ELSE j - 1] = a[j]

LEMMA Narrowing ==
    ASSUME NEW a \in Seq(Songs), IsInjective(a), NEW k \in 1 .. Len(a)
    PROVE  Narrowed(RemoveAt(a, k), a, k)
<1> DEFINE q == RemoveAt(a, k)
           Old(i) == IF i < k THEN i ELSE i + 1
           New(j) == IF j < k THEN j ELSE j - 1
<1>1. Len(a) \in Nat /\ DOMAIN a = 1 .. Len(a)
  OBVIOUS
<1>2. /\ q \in Seq(Songs) /\ Len(q) = Len(a) - 1
      /\ \A i \in 1 .. Len(a) - 1 : q[i] = a[Old(i)]
  BY RemoveAtIs
<1> HIDE DEF q
<1>3. DOMAIN q = 1 .. Len(a) - 1
  BY <1>2
<1>4. \A i \in 1 .. Len(a) - 1 : Old(i) \in 1 .. Len(a) /\ Old(i) # k /\ New(Old(i)) = i
  BY <1>1
<1>5. \A j \in 1 .. Len(a) : j # k => New(j) \in 1 .. Len(a) - 1 /\ Old(New(j)) = j
  BY <1>1
<1> HIDE DEF Old, New
<1>6. \A j \in 1 .. Len(a) : j # k => q[New(j)] = a[j]
  BY <1>2, <1>5
<1>7. \A i, j \in 1 .. Len(a) : a[i] = a[j] => i = j
  BY <1>1 DEF IsInjective
<1>8. IsInjective(q)
  <2> SUFFICES ASSUME NEW i \in 1 .. Len(a) - 1, NEW j \in 1 .. Len(a) - 1, q[i] = q[j]
               PROVE  i = j
    BY <1>3 DEF IsInjective
  <2>1. Old(i) = Old(j)
    BY <1>2, <1>4, <1>7
  <2> QED  BY <1>4, <2>1
<1>9. ToSet(q) = ToSet(a) \ {a[k]}
  <2>1. ASSUME NEW i \in 1 .. Len(a) - 1 PROVE q[i] \in ToSet(a) \ {a[k]}
    BY <1>1, <1>2, <1>4, <1>7 DEF ToSet
  <2>2. ASSUME NEW j \in 1 .. Len(a), j # k PROVE a[j] \in ToSet(q)
    BY <1>3, <1>5, <1>6, <2>2 DEF ToSet
  <2>3. ToSet(q) \subseteq ToSet(a) \ {a[k]}
    BY <1>3, <2>1 DEF ToSet
  <2>4. ToSet(a) \ {a[k]} \subseteq ToSet(q)
    BY <1>1, <2>2 DEF ToSet
  <2> QED  BY <2>3, <2>4
<1>10. Narrowed(q, a, k)
  BY <1>2, <1>6, <1>8, <1>9 DEF Narrowed, New
<1> QED  BY <1>10 DEF q

\* What a shuffled order is without position n, which was at its place k.
Lowered(u, o, k, n) ==
    /\ k \in 1 .. Len(o) /\ o[k] = n /\ Len(u) = Len(o) - 1
    /\ \A j \in 1 .. Len(o) : j # k => /\ o[j] # n
                                       /\ u[IF j < k THEN j ELSE j - 1] = Lower(o[j], n)

LEMMA Lowering ==
    ASSUME NEW o \in Seq(Nat), IsInjective(o), NEW k \in 1 .. Len(o), NEW n, n = o[k]
    PROVE  Lowered(ShiftDown(o, n), o, k, n)
<1> DEFINE u == ShiftDown(o, n)
           Old(i) == IF i < k THEN i ELSE i + 1
           New(j) == IF j < k THEN j ELSE j - 1
<1>1. Len(o) \in Nat /\ DOMAIN o = 1 .. Len(o)
  OBVIOUS
<1>2. Len(u) = Len(o) - 1 /\ \A i \in 1 .. Len(o) - 1 : u[i] = Lower(o[Old(i)], n)
  BY ShiftDownIs
<1> HIDE DEF u
<1>3. \A j \in 1 .. Len(o) : j # k => New(j) \in 1 .. Len(o) - 1 /\ Old(New(j)) = j
  BY <1>1
<1> HIDE DEF Old, New
<1>4. \A j \in 1 .. Len(o) : j # k => o[j] # n
  BY <1>1 DEF IsInjective
<1>5. \A j \in 1 .. Len(o) : j # k => u[New(j)] = Lower(o[j], n)
  BY <1>2, <1>3
<1>6. Lowered(u, o, k, n)
  BY <1>2, <1>4, <1>5 DEF Lowered, New
<1> QED  BY <1>6 DEF u

\* r is the row s without the song, which was at position n of the queue.
IsRemoved(r, s, song, n) ==
    /\ r \in Row /\ r.current = s.current
    /\ n + 1 \in 1 .. Len(s.queue) /\ s.queue[n + 1] = song
    /\ r.manual = s.manual \ {song} /\ r.sources = s.sources \ {song}
    /\ r.index = IndexAfterRemove(s.index, n, Len(s.queue) - 2)
    /\ r.queue = RemoveAt(s.queue, n + 1)
    /\ Shuffled(r) <=> Shuffled(s)
    /\ Shuffled(s) =>
          /\ r.order = ShiftDown(s.order, n)
          /\ r.pos = IF \E i \in DOMAIN s.order : s.order[i] = n /\ i - 1 < s.pos
                     THEN s.pos - 1 ELSE s.pos

LEMMA QueueRemoveIs ==
    ASSUME NEW s, Good(s), NEW song \in Songs, NEW r, r = QueueRemove(s, song)
    PROVE  \/ song \notin ToSet(s.queue) /\ r = s
           \/ song \in ToSet(s.queue) /\ \E n \in 0 .. Len(s.queue) - 1 : IsRemoved(r, s, song, n)
<1> DEFINE n == PositionOf(s.queue, song)
           earlier == \E i \in DOMAIN s.order : s.order[i] = n /\ i - 1 < s.pos
           q == RemoveAt(s.queue, n + 1)
           o == IF Shuffled(s) THEN ShiftDown(s.order, n) ELSE s.order
           c == IF Shuffled(s) /\ earlier THEN s.pos - 1 ELSE s.pos
           i == IndexAfterRemove(s.index, n, Len(s.queue) - 2)
           m == s.manual \ {song}
           u == s.sources \ {song}
<1>0. /\ s \in Row /\ s.queue \in Seq(Songs) /\ Len(s.queue) \in Nat /\ IsInjective(s.queue)
      /\ s.index \in Int /\ s.pos \in Nat
  BY DEF Good, Row
<1>1. Contains(s.queue, song) <=> song \in ToSet(s.queue)
  BY <1>0, InList
<1>2. r = IF ~Contains(s.queue, song) THEN s
          ELSE [s EXCEPT !.queue = q, !.order = o, !.pos = c, !.index = i, !.manual = m,
                         !.sources = u]
  BY <1>0 DEF QueueRemove, Row, Forgotten
<1>3. SUFFICES ASSUME song \in ToSet(s.queue)
               PROVE  \E x \in 0 .. Len(s.queue) - 1 : IsRemoved(r, s, song, x)
  BY <1>1, <1>2
<1>4. n \in 0 .. Len(s.queue) - 1 /\ n + 1 \in 1 .. Len(s.queue) /\ s.queue[n + 1] = song
  <2>1. PICK k \in 1 .. Len(s.queue) : s.queue[k] = song
    BY <1>0, <1>3, InList
  <2>2. n = k - 1
    BY <1>0, <2>1, PositionIs
  <2> HIDE DEF n
  <2>3. n + 1 = k
    BY <1>0, <2>2
  <2> QED  BY <1>0, <2>1, <2>2, <2>3
<1> HIDE DEF n
<1>5. q \in Seq(Songs)
  BY <1>0, <1>4, RemoveAtIs
<1>6. o \in Seq(Nat) \cup {NULL} /\ (Shuffled(s) => o \in Seq(Nat))
  <2>1. CASE Shuffled(s)
    <3>1. Orders(s.order, Len(s.queue))
      BY <2>1 DEF Good
    <3>2. Orders(ShiftDown(s.order, n), Len(s.queue) - 1)
      BY <1>0, <1>4, <3>1, ShiftDownOrders
    <3> QED  BY <2>1, <3>2 DEF Orders
  <2>2. CASE ~Shuffled(s)
    BY <1>0, <2>2 DEF Row
  <2> QED  BY <2>1, <2>2
<1>7. c \in Nat
  <2>1. CASE Shuffled(s) /\ earlier
    <3>1. DOMAIN s.order \subseteq Nat \ {0}
      BY <2>1 DEF Good, Orders
    <3>2. s.pos # 0
      BY <1>0, <2>1, <3>1
    <3> QED  BY <1>0, <2>1, <3>2
  <2>2. CASE ~(Shuffled(s) /\ earlier)
    BY <1>0, <2>2
  <2> QED  BY <2>1, <2>2
<1>8. i \in Int
  BY <1>0, <1>4 DEF IndexAfterRemove, Clamp
<1>9. m \in SUBSET Songs /\ u \in SUBSET Songs
  BY <1>0 DEF Row
<1>10. /\ Shuffled(s) => o = ShiftDown(s.order, n) /\ c = IF earlier THEN s.pos - 1 ELSE s.pos
       /\ ~Shuffled(s) => o = s.order
  OBVIOUS
<1> HIDE DEF q, o, c, i, m, u
<1>11. /\ r.shuffle = s.shuffle /\ r.current = s.current
       /\ r.queue = q /\ r.order = o /\ r.pos = c /\ r.index = i /\ r.manual = m /\ r.sources = u
       /\ r \in Row
  BY <1>0, <1>1, <1>2, <1>3, <1>5, <1>6, <1>7, <1>8, <1>9 DEF Row
<1>12. Shuffled(r) <=> Shuffled(s)
  BY <1>6, <1>10, <1>11, PlayerAssumption DEF Shuffled
<1>13. IsRemoved(r, s, song, n)
  BY <1>4, <1>10, <1>11, <1>12 DEF IsRemoved, q, i, m, u
<1> QED  BY <1>4, <1>13

\* What the queue, the shuffled order and the position in it are then.
LEMMA RemovedLists ==
    ASSUME NEW s, Good(s), NEW song \in Songs, NEW n \in 0 .. Len(s.queue) - 1,
           NEW r, IsRemoved(r, s, song, n)
    PROVE  /\ Narrowed(r.queue, s.queue, n + 1)
           /\ Shuffled(s) =>
                /\ Orders(r.order, Len(r.queue))
                /\ \E k \in 1 .. Len(s.order) :
                      /\ Lowered(r.order, s.order, k, n)
                      /\ r.pos = IF k - 1 < s.pos THEN s.pos - 1 ELSE s.pos
<1> DEFINE a == s.queue
           o == s.order
<1>0. a \in Seq(Songs) /\ Len(a) \in Nat /\ IsInjective(a) /\ s.pos \in Nat
  BY DEF Good, Row
<1>1. n + 1 \in 1 .. Len(a) /\ r.queue = RemoveAt(a, n + 1)
  BY DEF IsRemoved
<1>2. Narrowed(r.queue, a, n + 1)
  BY <1>0, <1>1, Narrowing
<1>3. ASSUME Shuffled(s)
      PROVE  /\ Orders(r.order, Len(r.queue))
             /\ \E k \in 1 .. Len(o) : /\ Lowered(r.order, o, k, n)
                                       /\ r.pos = IF k - 1 < s.pos THEN s.pos - 1 ELSE s.pos
  <2>1. /\ r.order = ShiftDown(o, n) /\ Orders(o, Len(a)) /\ o \in Seq(Nat)
        /\ r.pos = IF \E i \in DOMAIN o : o[i] = n /\ i - 1 < s.pos
                   THEN s.pos - 1 ELSE s.pos
    BY <1>3 DEF Good, Orders, IsRemoved
  <2>2. Len(r.queue) = Len(a) - 1
    BY <1>2 DEF Narrowed
  <2> HIDE DEF o, a
  <2>3. Orders(ShiftDown(o, n), Len(a) - 1)
    BY <1>0, <2>1, ShiftDownOrders DEF a
  <2>4. /\ \A v \in 0 .. Len(a) - 1 : \E k \in 1 .. Len(o) : o[k] = v
        /\ \A k, l \in 1 .. Len(o) : o[k] = o[l] => k = l
        /\ DOMAIN o = 1 .. Len(o) /\ Len(o) \in Nat
    <3>1. Len(a) \in Nat /\ Orders(o, Len(a))
      BY <1>0, <2>1
    <3> QED  BY <3>1, PlaceOf
  <2>5. PICK k \in 1 .. Len(o) : o[k] = n
    BY <2>4 DEF a
  <2>6. Lowered(ShiftDown(o, n), o, k, n)
    BY <2>1, <2>5, Lowering DEF Orders
  <2>7. (\E i \in DOMAIN o : o[i] = n /\ i - 1 < s.pos) <=> k - 1 < s.pos
    BY <2>4, <2>5
  <2> QED  BY <2>1, <2>2, <2>3, <2>5, <2>6, <2>7
<1> QED  BY <1>2, <1>3

LEMMA RemovedIsGood ==
    ASSUME NEW s, Good(s), NEW song \in Songs, NEW n \in 0 .. Len(s.queue) - 1,
           NEW r, IsRemoved(r, s, song, n)
    PROVE  Good(r)
<1>0. /\ Len(s.queue) \in Nat /\ s.index \in -1 .. Len(s.queue) /\ s.pos \in Nat
      /\ s.manual \cup s.sources \subseteq ToSet(s.queue)
  BY DEF Good, Row
<1>1. /\ Len(r.queue) = Len(s.queue) - 1 /\ IsInjective(r.queue)
      /\ ToSet(r.queue) = ToSet(s.queue) \ {song}
  <2>1. Narrowed(r.queue, s.queue, n + 1) /\ s.queue[n + 1] = song
    BY RemovedLists DEF IsRemoved
  <2> QED  BY <2>1 DEF Narrowed
<1>2. r.index \in -1 .. Len(r.queue)
  <2>1. r.index = IndexAfterRemove(s.index, n, Len(s.queue) - 2)
    BY DEF IsRemoved
  <2>2. n < s.index => r.index = s.index - 1
    BY <1>0, <2>1 DEF IndexAfterRemove
  <2>3. n = s.index => r.index = Clamp(s.index, IF Len(s.queue) - 2 < 0 THEN 0
                                                 ELSE Len(s.queue) - 2)
    BY <1>0, <2>1 DEF IndexAfterRemove
  <2>4. n > s.index => r.index = s.index
    BY <1>0, <2>1 DEF IndexAfterRemove
  <2> QED  BY <1>0, <1>1, <2>2, <2>3, <2>4 DEF Clamp
<1>3. ASSUME Shuffled(s)
      PROVE  Orders(r.order, Len(r.queue)) /\ r.pos \in 0 .. Len(r.order)
  <2>1. s.order \in Seq(Nat) /\ Len(s.order) \in Nat /\ s.pos \in 0 .. Len(s.order)
    BY <1>3 DEF Good, Orders
  <2>2. Orders(r.order, Len(r.queue))
    BY <1>3, RemovedLists
  <2>3. PICK k \in 1 .. Len(s.order) : /\ Lowered(r.order, s.order, k, n)
                                       /\ r.pos = IF k - 1 < s.pos THEN s.pos - 1 ELSE s.pos
    BY <1>3, RemovedLists
  <2>4. Len(r.order) = Len(s.order) - 1
    BY <2>3 DEF Lowered
  <2> QED  BY <2>1, <2>2, <2>3, <2>4
<1>4. r.manual \cup r.sources \subseteq ToSet(r.queue)
  BY <1>0, <1>1 DEF IsRemoved
<1> QED  BY <1>1, <1>2, <1>3, <1>4 DEF Good, IsRemoved

LEMMA RemovedKeepsCurrent ==
    ASSUME NEW s, Good(s), NEW song \in Songs, NEW n \in 0 .. Len(s.queue) - 1,
           NEW r, IsRemoved(r, s, song, n), AtCurrent(s), s.current \in ToSet(r.queue)
    PROVE  AtCurrent(r)
<1> DEFINE a == s.queue
           q == r.queue
           j == s.index + 1
           i == r.index + 1
<1>0. Len(a) \in Nat /\ s.index \in Int /\ s.pos \in Nat /\ n \in Nat
  BY DEF Good, Row
<1>1. /\ r.current = s.current /\ a[n + 1] = song
      /\ r.index = IndexAfterRemove(s.index, n, Len(s.queue) - 2)
      /\ Shuffled(r) <=> Shuffled(s)
  BY DEF IsRemoved
<1>2. /\ s.current # NULL /\ j \in 1 .. Len(a) /\ a[j] = s.current
      /\ Shuffled(s) => s.pos + 1 \in 1 .. Len(s.order) /\ s.order[s.pos + 1] = s.index
  BY AtIs
<1>3. Narrowed(q, a, n + 1)
  BY RemovedLists
<1>4. s.index # n
  <2>1. s.current # song
    BY <1>1, <1>3 DEF Narrowed
  <2> QED  BY <1>1, <1>2, <2>1
<1>5. i = IF j < n + 1 THEN j ELSE j - 1
  BY <1>0, <1>1, <1>4 DEF IndexAfterRemove
<1>6. j # n + 1
  BY <1>0, <1>4
<1>7. i \in 1 .. Len(q) /\ q[i] = a[j]
  <2> HIDE DEF a, q, j, i
  <2>1. Len(q) = Len(a) - 1 /\ q[IF j < n + 1 THEN j ELSE j - 1] = a[j]
    BY <1>2, <1>3, <1>6 DEF Narrowed
  <2>2. n + 1 \in 1 .. Len(a)
    BY <1>0 DEF a
  <2> QED  BY <1>0, <1>2, <1>5, <1>6, <2>1, <2>2
<1>8. ASSUME Shuffled(s)
      PROVE  r.pos + 1 \in 1 .. Len(r.order) /\ r.order[r.pos + 1] = r.index
  <2> DEFINE o == s.order
             u == r.order
             l == s.pos + 1
  <2>1. Len(o) \in Nat
    BY <1>8 DEF Good, Orders
  <2>2. PICK k \in 1 .. Len(o) : /\ Lowered(u, o, k, n)
                                 /\ r.pos = IF k - 1 < s.pos THEN s.pos - 1 ELSE s.pos
    BY <1>8, RemovedLists
  <2>3. l \in 1 .. Len(o) /\ o[l] = s.index
    BY <1>2, <1>8
  <2>4. r.pos + 1 = IF l < k THEN l ELSE l - 1
    <3>1. l # k
      BY <1>4, <2>2, <2>3 DEF Lowered
    <3> QED  BY <1>0, <2>2, <3>1
  <2>5. r.index = Lower(s.index, n)
    BY <1>0, <1>1, <1>4 DEF IndexAfterRemove, Lower
  <2> HIDE DEF o, u, l
  <2>6. /\ l # k /\ Len(u) = Len(o) - 1
        /\ u[IF l < k THEN l ELSE l - 1] = Lower(s.index, n)
    BY <1>4, <2>2, <2>3 DEF Lowered
  <2>7. (IF l < k THEN l ELSE l - 1) \in 1 .. Len(u)
    BY <2>1, <2>3, <2>6
  <2> QED  BY <2>4, <2>5, <2>6, <2>7 DEF u
<1>9. Good(r)
  BY RemovedIsGood
<1> QED  BY <1>1, <1>2, <1>7, <1>8, <1>9, AtIs

\* In the order of play the song is taken out, and the others stay as they were.
LEMMA RemovedPlays ==
    ASSUME NEW s, Good(s), NEW song \in Songs, NEW n \in 0 .. Len(s.queue) - 1,
           NEW r, IsRemoved(r, s, song, n)
    PROVE  PlayOrder(r) = Without(PlayOrder(s), song)
<1> DEFINE a == s.queue
           q == r.queue
           o == s.order
           u == r.order
           new == PlayOrder(r)
           old == PlayOrder(s)
<1>0. Len(a) \in Nat /\ n \in Nat /\ n + 1 \in 1 .. Len(a)
  BY DEF Good, Row
<1>1. (Shuffled(r) <=> Shuffled(s)) /\ a[n + 1] = song
  BY DEF IsRemoved
<1>2. Narrowed(q, a, n + 1)
  BY RemovedLists
<1>3. Good(r)
  BY RemovedIsGood
<1>4. /\ new \in Seq(Songs)
      /\ ~Shuffled(r) => new = q
      /\ Shuffled(r) => /\ Len(new) = Len(u)
                        /\ \A i \in 1 .. Len(u) : new[i] = q[u[i] + 1] /\ u[i] + 1 \in 1 .. Len(q)
  BY <1>3, PlaysIs
<1>5. /\ old \in Seq(Songs) /\ IsInjective(old)
      /\ ~Shuffled(s) => old = a
      /\ Shuffled(s) => /\ Len(old) = Len(o)
                        /\ \A i \in 1 .. Len(o) : old[i] = a[o[i] + 1] /\ o[i] + 1 \in 1 .. Len(a)
  BY PlaysIs
<1>6. Shuffled(s) => Len(o) \in Nat /\ o \in Seq(Nat) /\ \E k \in 1 .. Len(o) : Lowered(u, o, k, n)
  BY RemovedLists DEF Good, Orders
<1> HIDE DEF a, q, o, u, new, old
<1>7. /\ Len(q) = Len(a) - 1
      /\ \A j \in 1 .. Len(a) : j # n + 1 => q[IF j < n + 1 THEN j ELSE j - 1] = a[j]
  BY <1>2 DEF Narrowed
<1>8. \E k \in 1 .. Len(old) :
         /\ old[k] = song /\ Len(new) = Len(old) - 1
         /\ \A j \in 1 .. Len(old) : j # k => new[IF j < k THEN j ELSE j - 1] = old[j]
  <2>1. CASE ~Shuffled(s)
    <3>1. new = q /\ old = a
      BY <1>1, <1>4, <1>5, <2>1
    <3> QED  BY <1>0, <1>1, <1>7, <3>1
  <2>2. CASE Shuffled(s)
    <3>1. PICK k \in 1 .. Len(o) : Lowered(u, o, k, n)
      BY <1>6, <2>2
    <3>2. /\ o[k] = n /\ Len(u) = Len(o) - 1
          /\ \A j \in 1 .. Len(o) : j # k => /\ o[j] # n
                                             /\ u[IF j < k THEN j ELSE j - 1] = Lower(o[j], n)
      BY <3>1 DEF Lowered
    <3>3. Len(new) = Len(u) /\ Len(old) = Len(o) /\ Len(o) \in Nat
      BY <1>1, <1>4, <1>5, <1>6, <2>2
    <3>4. old[k] = song
      BY <1>1, <1>5, <2>2, <3>2
    <3> DEFINE New(j) == IF j < k THEN j ELSE j - 1
    <3>5. \A j \in 1 .. Len(o) : j # k => New(j) \in 1 .. Len(u)
      BY <3>2, <3>3
    <3>6. \A j \in 1 .. Len(o) : j # k => o[j] # n /\ u[New(j)] = Lower(o[j], n)
      BY <3>2
    <3> HIDE DEF New
    <3>7. ASSUME NEW j \in 1 .. Len(o), j # k PROVE new[New(j)] = old[j]
      <4>1. /\ old[j] = a[o[j] + 1] /\ o[j] + 1 \in 1 .. Len(a) /\ o[j] \in Nat
        <5>1. \A i \in 1 .. Len(o) : old[i] = a[o[i] + 1] /\ o[i] + 1 \in 1 .. Len(a)
          BY <1>5, <2>2
        <5>2. o \in Seq(Nat)
          BY <1>6, <2>2
        <5>3. o[j] \in Nat
          BY <5>2
        <5> QED  BY <5>1, <5>3
      <4>2. new[New(j)] = q[u[New(j)] + 1]
        BY <1>1, <1>4, <2>2, <3>5, <3>7
      <4>3. u[New(j)] = Lower(o[j], n) /\ o[j] # n
        BY <3>6, <3>7
      <4>4. u[New(j)] + 1 = (IF o[j] + 1 < n + 1 THEN o[j] + 1 ELSE o[j] + 1 - 1)
            /\ o[j] + 1 # n + 1
        BY <1>0, <4>1, <4>3 DEF Lower
      <4>5. q[u[New(j)] + 1] = a[o[j] + 1]
        BY <1>7, <4>1, <4>4
      <4> QED  BY <4>1, <4>2, <4>5
    <3> QED  BY <3>2, <3>3, <3>4, <3>7 DEF New
  <2> QED  BY <2>1, <2>2
<1>9. PICK k \in 1 .. Len(old) :
         /\ old[k] = song /\ Len(new) = Len(old) - 1
         /\ \A j \in 1 .. Len(old) : j # k => new[IF j < k THEN j ELSE j - 1] = old[j]
  BY <1>8
<1>10. Without(old, song) = RemoveAt(old, k)
  BY <1>5, <1>9, WithoutIs
<1>11. RemoveAt(old, k) = new
  <2>1. /\ RemoveAt(old, k) \in Seq(Songs) /\ Len(RemoveAt(old, k)) = Len(old) - 1
        /\ \A i \in 1 .. Len(old) - 1 : RemoveAt(old, k)[i] = old[IF i < k THEN i ELSE i + 1]
    BY <1>5, <1>9, RemoveAtIs
  <2>2. ASSUME NEW i \in 1 .. Len(old) - 1 PROVE RemoveAt(old, k)[i] = new[i]
    <3> DEFINE j == IF i < k THEN i ELSE i + 1
    <3>1. /\ j \in 1 .. Len(old) /\ j # k
          /\ (IF j < k THEN j ELSE j - 1) = i
      BY <1>5
    <3> HIDE DEF j
    <3>2. new[i] = old[j]
      BY <1>9, <3>1
    <3> QED  BY <2>1, <3>2 DEF j
  <2> QED  BY <1>4, <1>9, <2>1, <2>2, SeqEqual
<1> QED  BY <1>10, <1>11 DEF new, old

-----------------------------------------------------------------------------
(* queue_reorder                                                            *)

\* Where queue_reorder says the index of the song that plays goes.
Followed(index, from, place) ==
    CASE index = from -> place
      [] from < index /\ index <= place -> index - 1
      [] place <= index /\ index < from -> index + 1
      [] OTHER -> index

LEMMA FollowedIs ==
    ASSUME NEW n \in Nat, NEW from \in 0 .. n - 1, NEW place \in 0 .. n - 1, NEW i \in -1 .. n
    PROVE  /\ Followed(i, from, place) \in -1 .. n
           /\ i \in 0 .. n - 1 => Followed(i, from, place) + 1 = Target(from, place, i + 1)
<1> DEFINE f == Followed(i, from, place)
<1>1. CASE i = from
  <2>1. f = place
    BY <1>1 DEF Followed
  <2> HIDE DEF f
  <2> QED  BY <1>1, <2>1 DEF Target, f
<1>2. CASE from < i /\ i <= place
  <2>1. f = i - 1
    BY <1>2 DEF Followed
  <2> HIDE DEF f
  <2> QED  BY <1>2, <2>1 DEF Target, f
<1>3. CASE place <= i /\ i < from
  <2>1. f = i + 1
    BY <1>3 DEF Followed
  <2> HIDE DEF f
  <2> QED  BY <1>3, <2>1 DEF Target, f
<1>4. CASE i # from /\ ~(from < i /\ i <= place) /\ ~(place <= i /\ i < from)
  <2>1. f = i
    BY <1>4 DEF Followed
  <2> HIDE DEF f
  <2> QED  BY <1>4, <2>1 DEF Target, f
<1> QED  BY <1>1, <1>2, <1>3, <1>4

\* What is dropped on another song lands right before it.
LEMMA LandingIs ==
    ASSUME NEW n \in Nat, NEW from \in 0 .. n - 1, NEW to \in Int, from \notin {to, to - 1}
    PROVE  /\ Landing(from, to, n) \in 0 .. n - 1
           /\ Target(from, Landing(from, to, n), from + 1) = Landing(from, to, n) + 1
           /\ to \in 0 .. n - 1 =>
                 Target(from, Landing(from, to, n), to + 1) = Landing(from, to, n) + 2
BY DEF Landing, Clamp, Target

\* Of a list without repetitions, one element moves.
LEMMA OneMoves ==
    ASSUME NEW S, NEW q \in Seq(S), IsInjective(q), NEW from \in Positions(q),
           NEW to \in Positions(q), from \notin {to, to - 1},
           NEW p, p = Landing(from, to, Len(q)),
           NEW x, x = q[from + 1], NEW y, y = q[to + 1]
    PROVE  /\ Without(Moved(q, from, p), x) = Without(q, x)
           /\ PositionOf(Moved(q, from, p), x) + 1 = PositionOf(Moved(q, from, p), y)
<1> DEFINE m == Moved(q, from, p)
           n == Len(q)
<1>1. n \in Nat /\ from \in 0 .. n - 1 /\ to \in 0 .. n - 1
      /\ from + 1 \in 1 .. n /\ to + 1 \in 1 .. n
  BY DEF Positions
<1> HIDE DEF n
<1>2. /\ p \in 0 .. n - 1
      /\ Target(from, p, from + 1) = p + 1
      /\ Target(from, p, to + 1) = p + 2
  BY <1>1, LandingIs DEF n
<1>3. p \in Positions(q)
  BY <1>2 DEF n, Positions
<1>4. /\ m \in Seq(S) /\ Len(m) = n
      /\ \A j \in 1 .. n : m[Target(from, p, j)] = q[j]
      /\ RemoveAt(m, p + 1) = RemoveAt(q, from + 1)
  BY <1>3, MovedIs DEF n
<1>5. IsInjective(m)
  BY <1>3, MovedKeeps
<1> HIDE DEF m
<1>6. m[p + 1] = x /\ m[p + 2] = y
  BY <1>1, <1>2, <1>4
<1>7. p + 1 \in 1 .. n /\ p + 2 \in 1 .. n
  <2>1. Target(from, p, from + 1) \in 1 .. n
    BY <1>1, <1>2, SourceTarget
  <2>2. Target(from, p, to + 1) \in 1 .. n
    BY <1>1, <1>2, SourceTarget
  <2> QED  BY <1>2, <2>1, <2>2
<1>8. Without(m, x) = Without(q, x)
  <2>1. Without(m, x) = RemoveAt(m, p + 1)
    BY <1>4, <1>5, <1>6, <1>7, WithoutIs
  <2>2. Without(q, x) = RemoveAt(q, from + 1)
    BY <1>1, WithoutIs DEF n
  <2> QED  BY <1>4, <2>1, <2>2
<1>9. PositionOf(m, x) = p + 1 - 1 /\ PositionOf(m, y) = p + 2 - 1
  <2>1. \A i \in 1 .. Len(m) : m[i] = x => PositionOf(m, x) = i - 1
    BY <1>4, <1>5, PositionIs
  <2>2. \A i \in 1 .. Len(m) : m[i] = y => PositionOf(m, y) = i - 1
    BY <1>4, <1>5, PositionIs
  <2>3. PositionOf(m, x) = p + 1 - 1
    BY <1>1, <1>2, <1>4, <1>6, <1>7, <2>1
  <2>4. PositionOf(m, y) = p + 2 - 1
    BY <1>1, <1>2, <1>4, <1>6, <1>7, <2>2
  <2> QED  BY <2>3, <2>4
<1>10. PositionOf(m, x) + 1 = PositionOf(m, y)
  BY <1>2, <1>9
<1> QED  BY <1>8, <1>10 DEF m

\* r is the row s with what is at `from`, of the order or of the queue, at `place`.
IsReordered(r, s, from, place) ==
    /\ r \in Row /\ r.current = s.current /\ r.manual = s.manual /\ r.sources = s.sources
    /\ Shuffled(r) <=> Shuffled(s)
    /\ Shuffled(s) =>
          /\ from \in Positions(s.order) /\ place \in Positions(s.order)
          /\ r.queue = s.queue /\ r.index = s.index
          /\ r.order = Moved(s.order, from, place)
          /\ r.pos = IF Contains(r.order, PositionOf(s.queue, s.current))
                     THEN PositionOf(r.order, PositionOf(s.queue, s.current)) ELSE s.pos
    /\ ~Shuffled(s) =>
          /\ from \in Positions(s.queue) /\ place \in Positions(s.queue)
          /\ r.queue = Moved(s.queue, from, place)
          /\ r.index = Followed(s.index, from, place)

LEMMA QueueReorderIs ==
    ASSUME NEW s, Good(s), NEW from \in Int, NEW to \in Int,
           NEW r, r = QueueReorder(s, from, to)
    PROVE  \/ r = s /\ (from \in {to, to - 1} \/ from \notin Positions(PlayOrder(s)))
           \/ /\ from \notin {to, to - 1} /\ from \in Positions(PlayOrder(s))
              /\ IsReordered(r, s, from, Landing(from, to, Len(PlayOrder(s))))
<1> DEFINE list == IF Shuffled(s) THEN s.order ELSE s.queue
           place == Landing(from, to, Len(list))
           order == Moved(s.order, from, place)
           queue == Moved(s.queue, from, place)
           current == PositionOf(s.queue, s.current)
           pos == IF Contains(order, current) THEN PositionOf(order, current) ELSE s.pos
           index == Followed(s.index, from, place)
<1>0. /\ s \in Row /\ s.queue \in Seq(Songs) /\ Len(s.queue) \in Nat
      /\ s.index \in -1 .. Len(s.queue) /\ s.pos \in Nat
      /\ Shuffled(s) => s.order \in Seq(Nat) /\ Len(s.order) \in Nat /\ IsInjective(s.order)
  BY DEF Good, Row, Orders
<1>1. Len(list) = Len(PlayOrder(s)) /\ Len(list) \in Nat
  BY <1>0, PlaysIs
<1>2. Positions(list) = Positions(PlayOrder(s))
  BY <1>1 DEF Positions
<1>3. r = IF from \in {to, to - 1} \/ from \notin Positions(list) THEN s
          ELSE IF Shuffled(s) THEN [s EXCEPT !.order = order, !.pos = pos]
          ELSE [s EXCEPT !.queue = queue, !.index = index]
  BY <1>0 DEF QueueReorder, Row, Followed
<1> HIDE DEF list
<1>4. SUFFICES ASSUME from \notin {to, to - 1}, from \in Positions(list)
               PROVE  IsReordered(r, s, from, place)
  BY <1>1, <1>2, <1>3
<1>5. place \in 0 .. Len(list) - 1
  <2>1. from \in 0 .. Len(list) - 1
    BY <1>4 DEF Positions
  <2> QED  BY <1>1, <1>4, <2>1, LandingIs
<1>6. place \in Positions(list)
  BY <1>5 DEF Positions
<1> HIDE DEF place
<1>7. CASE Shuffled(s)
  <2>1. list = s.order
    BY <1>7 DEF list
  <2>2. order \in Seq(Nat) /\ IsInjective(order)
    BY <1>0, <1>4, <1>6, <1>7, <2>1, MovedIs, MovedKeeps
  <2> HIDE DEF order, current
  <2>3. pos \in Nat
    <3>1. CASE Contains(order, current)
      <4>1. PICK k \in 1 .. Len(order) : order[k] = current
        BY <2>2, <3>1, InList
      <4>2. PositionOf(order, current) = k - 1
        BY <2>2, <4>1, PositionIs
      <4>3. k - 1 \in Nat
        BY <2>2
      <4> QED  BY <3>1, <4>2, <4>3
    <3>2. CASE ~Contains(order, current)
      BY <1>0, <3>2
    <3> QED  BY <3>1, <3>2
  <2> HIDE DEF pos
  <2>4. r = [s EXCEPT !.order = order, !.pos = pos]
    BY <1>3, <1>4, <1>7
  <2>5. /\ r.shuffle = s.shuffle /\ r.current = s.current /\ r.manual = s.manual
        /\ r.sources = s.sources /\ r.queue = s.queue /\ r.index = s.index
        /\ r.order = order /\ r.pos = pos /\ r \in Row
    BY <1>0, <2>2, <2>3, <2>4 DEF Row
  <2>6. Shuffled(r)
    BY <1>7, <2>2, <2>5, PlayerAssumption DEF Shuffled
  <2>7. pos = IF Contains(order, current) THEN PositionOf(order, current) ELSE s.pos
    BY DEF pos
  <2> QED  BY <1>4, <1>6, <1>7, <2>1, <2>5, <2>6, <2>7 DEF IsReordered, order, current
<1>8. CASE ~Shuffled(s)
  <2>1. list = s.queue
    BY <1>8 DEF list
  <2>2. queue \in Seq(Songs)
    BY <1>0, <1>4, <1>6, <2>1, MovedIs
  <2>3. index \in Int
    <3>1. from \in 0 .. Len(s.queue) - 1 /\ place \in 0 .. Len(s.queue) - 1
      BY <1>4, <1>5, <2>1 DEF Positions
    <3>2. Followed(s.index, from, place) \in -1 .. Len(s.queue)
      BY <1>0, <3>1, FollowedIs
    <3> QED  BY <3>2
  <2> HIDE DEF queue, index
  <2>4. r = [s EXCEPT !.queue = queue, !.index = index]
    BY <1>3, <1>4, <1>8
  <2>5. /\ r.shuffle = s.shuffle /\ r.current = s.current /\ r.manual = s.manual
        /\ r.sources = s.sources /\ r.queue = queue /\ r.index = index
        /\ r.order = s.order /\ r.pos = s.pos /\ r \in Row
    BY <1>0, <2>2, <2>3, <2>4 DEF Row
  <2>6. ~Shuffled(r)
    BY <1>8, <2>5 DEF Shuffled
  <2> QED  BY <1>4, <1>6, <1>8, <2>1, <2>5, <2>6 DEF IsReordered, queue, index
<1> QED  BY <1>7, <1>8

LEMMA ReorderedIsGood ==
    ASSUME NEW s, Good(s), NEW from \in Int, NEW place \in Int, NEW r,
           IsReordered(r, s, from, place)
    PROVE  Good(r)
<1>0. /\ s.queue \in Seq(Songs) /\ Len(s.queue) \in Nat /\ IsInjective(s.queue)
      /\ s.index \in -1 .. Len(s.queue) /\ r \in Row
      /\ s.manual \cup s.sources \subseteq ToSet(s.queue)
      /\ r.manual = s.manual /\ r.sources = s.sources
      /\ Shuffled(r) <=> Shuffled(s)
  BY DEF Good, Row, IsReordered
<1>1. CASE Shuffled(s)
  <2> DEFINE o == s.order
             u == r.order
             x == PositionOf(s.queue, s.current)
  <2>1. /\ from \in Positions(o) /\ place \in Positions(o)
        /\ r.queue = s.queue /\ r.index = s.index
        /\ u = Moved(o, from, place)
        /\ r.pos = IF Contains(u, x) THEN PositionOf(u, x) ELSE s.pos
    BY <1>1 DEF IsReordered
  <2>2. Orders(o, Len(s.queue)) /\ s.pos \in 0 .. Len(o)
    BY <1>1 DEF Good
  <2> HIDE DEF o, u, x
  <2>3. Orders(u, Len(s.queue)) /\ Len(u) = Len(o) /\ u \in Seq(Nat) /\ IsInjective(u)
    BY <1>0, <2>1, <2>2, MovedOrders, MovedIs DEF Orders
  <2>4. r.pos \in 0 .. Len(u)
    <3>1. CASE Contains(u, x)
      <4>1. PICK k \in 1 .. Len(u) : u[k] = x
        BY <2>3, <3>1, InList
      <4>2. PositionOf(u, x) = k - 1
        BY <2>3, <4>1, PositionIs
      <4>3. Len(u) \in Nat
        BY <2>3
      <4> QED  BY <2>1, <3>1, <4>2, <4>3
    <3>2. CASE ~Contains(u, x)
      BY <2>1, <2>2, <2>3, <3>2
    <3> QED  BY <3>1, <3>2
  <2> QED  BY <1>0, <1>1, <2>1, <2>3, <2>4 DEF Good, u
<1>2. CASE ~Shuffled(s)
  <2>1. /\ from \in Positions(s.queue) /\ place \in Positions(s.queue)
        /\ r.queue = Moved(s.queue, from, place)
        /\ r.index = Followed(s.index, from, place)
    BY <1>2 DEF IsReordered
  <2>2. /\ Len(r.queue) = Len(s.queue) /\ IsInjective(r.queue)
        /\ ToSet(r.queue) = ToSet(s.queue)
    BY <1>0, <2>1, MovedIs, MovedKeeps
  <2>3. r.index \in -1 .. Len(r.queue)
    <3>1. from \in 0 .. Len(s.queue) - 1 /\ place \in 0 .. Len(s.queue) - 1
      BY <2>1 DEF Positions
    <3> QED  BY <1>0, <2>1, <2>2, <3>1, FollowedIs
  <2> QED  BY <1>0, <1>2, <2>2, <2>3 DEF Good
<1> QED  BY <1>1, <1>2

LEMMA ReorderedKeepsCurrent ==
    ASSUME NEW s, Good(s), NEW from \in Int, NEW place \in Int, NEW r,
           IsReordered(r, s, from, place), AtCurrent(s)
    PROVE  AtCurrent(r)
<1>0. /\ s.queue \in Seq(Songs) /\ Len(s.queue) \in Nat /\ IsInjective(s.queue)
      /\ s.index \in Int /\ r.current = s.current
      /\ Shuffled(r) <=> Shuffled(s)
  BY DEF Good, Row, IsReordered
<1>1. /\ s.current # NULL
      /\ s.index + 1 \in 1 .. Len(s.queue) /\ s.queue[s.index + 1] = s.current
      /\ Shuffled(s) => s.pos + 1 \in 1 .. Len(s.order) /\ s.order[s.pos + 1] = s.index
  BY AtIs
<1>2. CASE Shuffled(s)
  <2> DEFINE o == s.order
             u == r.order
  <2>1. /\ from \in Positions(o) /\ place \in Positions(o)
        /\ r.queue = s.queue /\ r.index = s.index
        /\ u = Moved(o, from, place)
        /\ r.pos = IF Contains(u, PositionOf(s.queue, s.current))
                   THEN PositionOf(u, PositionOf(s.queue, s.current)) ELSE s.pos
    BY <1>2 DEF IsReordered
  <2>2. PositionOf(s.queue, s.current) = s.index
    <3>1. PositionOf(s.queue, s.current) = s.index + 1 - 1
      BY <1>0, <1>1, PositionIs
    <3> QED  BY <1>0, <3>1
  <2>3. o \in Seq(Nat) /\ IsInjective(o)
    BY <1>2 DEF Good, Orders
  <2>4. s.index \in ToSet(o)
    BY <1>1, <1>2, <2>3, InList
  <2> HIDE DEF o, u
  <2>5. u \in Seq(Nat) /\ IsInjective(u) /\ ToSet(u) = ToSet(o)
    BY <2>1, <2>3, MovedIs, MovedKeeps
  <2>6. PICK k \in 1 .. Len(u) : u[k] = s.index
    BY <2>4, <2>5, InList
  <2>7. Contains(u, s.index) /\ PositionOf(u, s.index) = k - 1
    BY <2>5, <2>6, InList, PositionIs
  <2>8. r.pos + 1 = k
    <3>1. r.pos = k - 1
      BY <2>1, <2>2, <2>7
    <3>2. k \in Int
      OBVIOUS
    <3> QED  BY <3>1, <3>2
  <2> QED  BY <1>0, <1>1, <1>2, <2>1, <2>6, <2>8, ReorderedIsGood, AtIs DEF u
<1>3. CASE ~Shuffled(s)
  <2> DEFINE q == s.queue
             m == r.queue
             j == s.index + 1
  <2>1. /\ from \in Positions(q) /\ place \in Positions(q)
        /\ m = Moved(q, from, place)
        /\ r.index = Followed(s.index, from, place)
    BY <1>3 DEF IsReordered
  <2>2. from \in 0 .. Len(q) - 1 /\ place \in 0 .. Len(q) - 1 /\ s.index \in 0 .. Len(q) - 1
    BY <1>0, <1>1, <2>1 DEF Positions
  <2>3. r.index + 1 = Target(from, place, j)
    <3>1. s.index \in -1 .. Len(q) /\ Len(q) \in Nat
      BY <1>0, <2>2
    <3>2. Followed(s.index, from, place) + 1 = Target(from, place, s.index + 1)
      BY <2>2, <3>1, FollowedIs
    <3> QED  BY <2>1, <3>2
  <2>4. q \in Seq(Songs) /\ Len(q) \in Nat /\ j \in 1 .. Len(q) /\ q[j] = s.current
    BY <1>0, <1>1
  <2> HIDE DEF q, m, j
  <2>5. Len(m) = Len(q) /\ m[Target(from, place, j)] = q[j]
    BY <2>1, <2>4, MovedIs
  <2>6. Target(from, place, j) \in 1 .. Len(q)
    BY <2>2, <2>4, SourceTarget
  <2>7. r.index + 1 \in 1 .. Len(m) /\ m[r.index + 1] = s.current
    BY <2>3, <2>4, <2>5, <2>6
  <2> QED  BY <1>0, <1>1, <1>3, <2>7, ReorderedIsGood, AtIs DEF m
<1> QED  BY <1>2, <1>3

\* The order of play is the old one with one song moved.
LEMMA ReorderedPlays ==
    ASSUME NEW s, Good(s), NEW from \in Int, NEW place \in Int, NEW r,
           IsReordered(r, s, from, place)
    PROVE  PlayOrder(r) = Moved(PlayOrder(s), from, place)
<1>0. Good(r) /\ (Shuffled(r) <=> Shuffled(s))
  BY ReorderedIsGood DEF IsReordered
<1>1. CASE ~Shuffled(s)
  <2>1. r.queue = Moved(s.queue, from, place)
    BY <1>1 DEF IsReordered
  <2> QED  BY <1>0, <1>1, <2>1, PlaysIs
<1>2. CASE Shuffled(s)
  <2> DEFINE o == s.order
             u == r.order
             q == s.queue
             new == PlayOrder(r)
             old == PlayOrder(s)
             m == Moved(old, from, place)
  <2>1. /\ from \in Positions(o) /\ place \in Positions(o)
        /\ r.queue = q /\ u = Moved(o, from, place)
    BY <1>2 DEF IsReordered
  <2>2. /\ new \in Seq(Songs) /\ Len(new) = Len(u)
        /\ \A i \in 1 .. Len(u) : new[i] = r.queue[u[i] + 1]
    BY <1>0, <1>2, PlaysIs
  <2>3. /\ old \in Seq(Songs) /\ Len(old) = Len(o)
        /\ \A i \in 1 .. Len(o) : old[i] = q[o[i] + 1]
    BY <1>2, PlaysIs
  <2>4. o \in Seq(Nat) /\ Len(o) \in Nat
    BY <1>2 DEF Good, Orders
  <2> HIDE DEF o, u, q, new, old
  <2>5. Len(u) = Len(o) /\ \A i \in 1 .. Len(o) : u[i] = o[Source(from, place, i)]
    BY <2>1, <2>4, MovedIs
  <2>6. /\ m \in Seq(Songs) /\ Len(m) = Len(old)
        /\ \A i \in 1 .. Len(old) : m[i] = old[Source(from, place, i)]
    <3>1. from \in Positions(old) /\ place \in Positions(old)
      BY <2>1, <2>3 DEF Positions
    <3> QED  BY <2>3, <3>1, MovedIs
  <2> HIDE DEF m
  <2>7. \A i \in 1 .. Len(o) : Source(from, place, i) \in 1 .. Len(o)
    BY <2>1, <2>4, SourceTarget DEF Positions
  <2>8. ASSUME NEW i \in 1 .. Len(new) PROVE new[i] = m[i]
    BY <2>1, <2>2, <2>3, <2>5, <2>6, <2>7
  <2>9. new = m
    BY <2>2, <2>3, <2>5, <2>6, <2>8, SeqEqual
  <2> QED  BY <2>9 DEF new, old, m
<1> QED  BY <1>1, <1>2

-----------------------------------------------------------------------------
(* Requests that do not overlap                                             *)

\* What a request carries.
Carries(c) ==
    \/ c.op = "put"
    \/ c.op = "insert" /\ c.song \in Songs /\ c.at \in {NULL} \cup Int
    \/ c.op = "remove" /\ c.song \in Songs
    \/ c.op = "reorder" /\ c.at \in Int /\ c.to \in Int

\* The row is sound, and the only request in flight has seen it as it is.
SerialInv ==
    /\ state # NULL => Good(state)
    /\ call = [t \in Calls |-> call[t]]
    /\ \A t \in Calls : call[t] # NULL => Carries(call[t]) /\ call[t].seen = state
    /\ \A t, u \in Calls : call[t] # NULL /\ call[u] # NULL => t = u

\* What the requests make of a row.
Inserted(r, s, c) == c.op = "insert" /\ r = QueueInsert(s, c.song, c.at, c.labelled)
Removed(r, s, c) == c.op = "remove" /\ r = QueueRemove(s, c.song)
Reordered(r, s, c) == c.op = "reorder" /\ r = QueueReorder(s, c.at, c.to)

LEMMA InsertedAll ==
    ASSUME NEW s, Good(s), NEW c, Carries(c), NEW r, Inserted(r, s, c)
    PROVE  /\ Good(r)
           /\ AtCurrent(s) => AtCurrent(r)
           /\ IF Contains(PlayOrder(s), c.song) THEN PlayOrder(r) = PlayOrder(s)
              ELSE /\ Contains(PlayOrder(r), c.song)
                   /\ Without(PlayOrder(r), c.song) = PlayOrder(s)
<1>1. /\ c.song \in Songs /\ c.at \in {NULL} \cup Int
      /\ r = QueueInsert(s, c.song, c.at, c.labelled)
  BY DEF Carries, Inserted
<1>2. Contains(PlayOrder(s), c.song) <=> c.song \in ToSet(s.queue)
  BY PlaysIs, InList
<1>3. \/ c.song \in ToSet(s.queue) /\ r = s
      \/ /\ c.song \notin ToSet(s.queue)
         /\ \E p \in 0 .. Len(s.queue) : IsInserted(r, s, c.song, p)
  <2> DEFINE song == c.song
             at == c.at
  <2> HIDE DEF song, at
  <2>1. song \in Songs /\ at \in {NULL} \cup Int /\ r = QueueInsert(s, song, at, c.labelled)
    BY <1>1 DEF song, at
  <2>2. \/ song \in ToSet(s.queue) /\ r = s
        \/ song \notin ToSet(s.queue) /\ \E p \in 0 .. Len(s.queue) : IsInserted(r, s, song, p)
    BY <2>1, QueueInsertIs
  <2> QED  BY <2>2 DEF song
<1>4. CASE c.song \in ToSet(s.queue) /\ r = s
  BY <1>2, <1>4
<1>5. ASSUME c.song \notin ToSet(s.queue), NEW p \in 0 .. Len(s.queue),
             IsInserted(r, s, c.song, p)
      PROVE  /\ Good(r)
             /\ AtCurrent(s) => AtCurrent(r)
             /\ Contains(PlayOrder(r), c.song) /\ Without(PlayOrder(r), c.song) = PlayOrder(s)
  BY <1>1, <1>5, InsertedIsGood, InsertedKeepsCurrent, InsertedPlays
<1> QED  BY <1>2, <1>3, <1>4, <1>5

LEMMA RemovedAll ==
    ASSUME NEW s, Good(s), NEW c, Carries(c), NEW r, Removed(r, s, c)
    PROVE  /\ Good(r)
           /\ AtCurrent(s) /\ s.current \in ToSet(r.queue) => AtCurrent(r)
           /\ PlayOrder(r) = Without(PlayOrder(s), c.song)
<1>1. c.song \in Songs /\ r = QueueRemove(s, c.song)
  BY DEF Carries, Removed
<1>2. \/ c.song \notin ToSet(s.queue) /\ r = s
      \/ /\ c.song \in ToSet(s.queue)
         /\ \E n \in 0 .. Len(s.queue) - 1 : IsRemoved(r, s, c.song, n)
  BY <1>1, QueueRemoveIs
<1>3. CASE c.song \notin ToSet(s.queue) /\ r = s
  <2>1. c.song \notin ToSet(PlayOrder(s)) /\ PlayOrder(s) \in Seq(Songs)
    BY <1>3, PlaysIs
  <2>2. Without(PlayOrder(s), c.song) = PlayOrder(s)
    BY <2>1, WithoutIs
  <2> QED  BY <1>3, <2>2
<1>4. ASSUME NEW n \in 0 .. Len(s.queue) - 1, IsRemoved(r, s, c.song, n)
      PROVE  /\ Good(r)
             /\ AtCurrent(s) /\ s.current \in ToSet(r.queue) => AtCurrent(r)
             /\ PlayOrder(r) = Without(PlayOrder(s), c.song)
  BY <1>1, <1>4, RemovedIsGood, RemovedKeepsCurrent, RemovedPlays
<1> QED  BY <1>2, <1>3, <1>4

LEMMA ReorderedAll ==
    ASSUME NEW s, Good(s), NEW c, Carries(c), NEW r, Reordered(r, s, c)
    PROVE  /\ Good(r)
           /\ AtCurrent(s) => AtCurrent(r)
           /\ c.at \in Positions(PlayOrder(s)) /\ c.to \in Positions(PlayOrder(s)) =>
                 LET x == PlayOrder(s)[c.at + 1]
                     y == PlayOrder(s)[c.to + 1]
                 IN  /\ Without(PlayOrder(r), x) = Without(PlayOrder(s), x)
                     /\ x # y => PositionOf(PlayOrder(r), x) + 1 = PositionOf(PlayOrder(r), y)
<1> DEFINE q == PlayOrder(s)
           m == PlayOrder(r)
           from == c.at
           to == c.to
           x == q[from + 1]
           y == q[to + 1]
           place == Landing(from, to, Len(q))
<1>1. from \in Int /\ to \in Int /\ r = QueueReorder(s, from, to)
  BY DEF Carries, Reordered
<1>2. \/ r = s /\ (from \in {to, to - 1} \/ from \notin Positions(q))
      \/ /\ from \notin {to, to - 1} /\ from \in Positions(q)
         /\ IsReordered(r, s, from, place)
  BY <1>1, QueueReorderIs
<1>3. q \in Seq(Songs) /\ IsInjective(q)
  BY PlaysIs
<1>4. CASE r = s /\ (from \in {to, to - 1} \/ from \notin Positions(q))
  <2>1. ASSUME from \in Positions(q), to \in Positions(q), x # y
        PROVE  PositionOf(q, x) + 1 = PositionOf(q, y)
    <3> HIDE DEF q, from, to
    <3>1. from = to - 1
      BY <1>1, <1>4, <2>1
    <3>2. /\ from + 1 \in 1 .. Len(q) /\ to + 1 \in 1 .. Len(q)
          /\ from \in Int /\ to \in Int
      BY <1>1, <2>1 DEF Positions
    <3>3. \A i \in 1 .. Len(q) : q[i] = x => PositionOf(q, x) = i - 1
      BY <1>3, PositionIs
    <3>4. \A i \in 1 .. Len(q) : q[i] = y => PositionOf(q, y) = i - 1
      BY <1>3, PositionIs
    <3> HIDE DEF x, y
    <3>5. q[from + 1] = x /\ q[to + 1] = y
      BY DEF x, y
    <3>6. PositionOf(q, x) = from + 1 - 1
      BY <3>2, <3>3, <3>5
    <3>7. PositionOf(q, y) = to + 1 - 1
      BY <3>2, <3>4, <3>5
    <3> QED  BY <3>1, <3>2, <3>6, <3>7
  <2> QED  BY <1>4, <2>1
<1>5. CASE /\ from \notin {to, to - 1} /\ from \in Positions(q)
           /\ IsReordered(r, s, from, place)
  <2>1. place \in 0 .. Len(q) - 1
    <3>1. from \in 0 .. Len(q) - 1 /\ Len(q) \in Nat
      BY <1>3, <1>5 DEF Positions
    <3> HIDE DEF q, from, to
    <3> QED  BY <1>1, <1>5, <3>1, LandingIs
  <2>2. place \in Int
    BY <2>1
  <2>3. Good(r) /\ (AtCurrent(s) => AtCurrent(r)) /\ m = Moved(q, from, place)
    <3> HIDE DEF place, from, q
    <3> QED  BY <1>1, <1>5, <2>2, ReorderedIsGood, ReorderedKeepsCurrent, ReorderedPlays DEF q
  <2>4. ASSUME from \in Positions(q), to \in Positions(q)
        PROVE  Without(m, x) = Without(q, x) /\ PositionOf(m, x) + 1 = PositionOf(m, y)
    <3> HIDE DEF q, from, to, m, place
    <3>1. place = Landing(from, to, Len(q))
      BY DEF place
    <3> QED  BY <1>3, <1>5, <2>3, <2>4, <3>1, OneMoves
  <2> QED  BY <2>3, <2>4
<1> QED  BY <1>2, <1>4, <1>5

\* What a request that is answered made of the row it saw.
LEMMA WriteIs ==
    ASSUME SerialInv, NEW t \in Calls, Write(t)
    PROVE  /\ call[t] # NULL /\ Carries(call[t]) /\ call[t].seen = state
           /\ call' = [call EXCEPT ![t] = NULL]
           /\ \/ call[t].op = "put" /\ state' \in Bodies
              \/ /\ state # NULL /\ Good(state)
                 /\ \/ Inserted(state', state, call[t])
                    \/ Removed(state', state, call[t])
                    \/ Reordered(state', state, call[t])
              \/ state = NULL /\ state' = state
<1> DEFINE c == call[t]
<1>1. /\ c # NULL /\ call' = [call EXCEPT ![t] = NULL]
      /\ IF c.seen # NULL
         THEN \E row \in Wanted(c) : state' = Columns(state, c.seen, row)
         ELSE IF c.op = "put" /\ state = NULL THEN state' \in Bodies
         ELSE UNCHANGED state
  BY DEF Write
<1>2. Carries(c) /\ c.seen = state /\ (state # NULL => Good(state))
  BY <1>1 DEF SerialInv
<1> HIDE DEF c
<1>3. CASE state = NULL
  BY <1>1, <1>2, <1>3 DEF c
<1>4. CASE state # NULL
  <2>1. PICK row \in Wanted(c) : state' = Columns(state, state, row)
    BY <1>1, <1>2, <1>4
  <2>2. Good(state) /\ state \in Row
    BY <1>2, <1>4 DEF Good
  <2>3. Good(row) => state' = row
    BY <2>1, <2>2, ColumnsIs DEF Good
  <2>4. CASE c.op = "put"
    <3>1. row \in Bodies
      BY <2>1, <2>4 DEF Wanted
    <3> QED  BY <1>1, <1>2, <2>3, <2>4, <3>1, BodiesAreGood DEF c
  <2>5. CASE c.op = "insert"
    <3>1. Inserted(row, state, c)
      <4>1. row \in {QueueInsert(c.seen, c.song, c.at, c.labelled)}
        BY <2>1, <2>5 DEF Wanted
      <4> QED  BY <1>2, <2>5, <4>1 DEF Inserted
    <3>2. Good(row)
      BY <1>2, <2>2, <3>1, InsertedAll
    <3> QED  BY <1>1, <1>2, <1>4, <2>2, <2>3, <3>1, <3>2 DEF c
  <2>6. CASE c.op = "remove"
    <3>1. Removed(row, state, c)
      <4>1. row \in {QueueRemove(c.seen, c.song)}
        BY <2>1, <2>6 DEF Wanted
      <4> QED  BY <1>2, <2>6, <4>1 DEF Removed
    <3>2. Good(row)
      BY <1>2, <2>2, <3>1, RemovedAll
    <3> QED  BY <1>1, <1>2, <1>4, <2>2, <2>3, <3>1, <3>2 DEF c
  <2>7. CASE c.op = "reorder"
    <3>1. Reordered(row, state, c)
      <4>1. row \in {QueueReorder(c.seen, c.at, c.to)}
        BY <2>1, <2>7 DEF Wanted
      <4> QED  BY <1>2, <2>7, <4>1 DEF Reordered
    <3>2. Good(row)
      BY <1>2, <2>2, <3>1, ReorderedAll
    <3> QED  BY <1>1, <1>2, <1>4, <2>2, <2>3, <3>1, <3>2 DEF c
  <2>8. c.op \in {"put", "insert", "remove", "reorder"}
    BY <1>2 DEF Carries
  <2> QED  BY <2>4, <2>5, <2>6, <2>7, <2>8
<1> QED  BY <1>3, <1>4

LEMMA WrittenIsGood ==
    ASSUME SerialInv, NEW t \in Calls, Write(t), state' # NULL
    PROVE  Good(state')
<1>1. CASE state' \in Bodies
  BY <1>1, BodiesAreGood
<1>2. CASE /\ Good(state) /\ Carries(call[t])
           /\ \/ Inserted(state', state, call[t])
              \/ Removed(state', state, call[t])
              \/ Reordered(state', state, call[t])
  BY <1>2, InsertedAll, RemovedAll, ReorderedAll
<1>3. CASE state' = state
  BY <1>3 DEF SerialInv
<1> QED  BY <1>1, <1>2, <1>3, WriteIs

LEMMA LoadedKeeps ==
    ASSUME ~Overlap, SerialInv, NEW t \in Calls, NEW c, Carries(c), c.seen = state, Load(t, c)
    PROVE  SerialInv'
<1>1. /\ \A u \in Calls : call[u] = NULL
      /\ call' = [call EXCEPT ![t] = c] /\ state' = state
  BY DEF Load
<1>2. call = [u \in Calls |-> call[u]]
  BY DEF SerialInv
<1>3. call' = [u \in Calls |-> IF u = t THEN c ELSE NULL]
  BY <1>1, <1>2
<1>4. \A u \in Calls : call'[u] # NULL => u = t /\ call'[u] = c
  BY <1>3
<1>5. call' = [u \in Calls |-> call'[u]]
  BY <1>3
<1>6. state # NULL => Good(state)
  BY DEF SerialInv
<1> QED  BY <1>1, <1>4, <1>5, <1>6 DEF SerialInv

LEMMA WrittenKeeps ==
    ASSUME SerialInv, NEW t \in Calls, Write(t)
    PROVE  SerialInv'
<1>1. call[t] # NULL /\ call' = [call EXCEPT ![t] = NULL]
  BY WriteIs
<1>2. call = [u \in Calls |-> call[u]]
  BY DEF SerialInv
<1>3. \A u \in Calls : u # t => call[u] = NULL
  BY <1>1 DEF SerialInv
<1>4. call' = [u \in Calls |-> NULL]
  BY <1>1, <1>2, <1>3
<1>5. \A u \in Calls : call'[u] = NULL
  BY <1>4
<1>6. call' = [u \in Calls |-> call'[u]]
  BY <1>4
<1>7. state' # NULL => Good(state')
  BY WrittenIsGood
<1> QED  BY <1>5, <1>6, <1>7 DEF SerialInv

LEMMA SerialStep ==
    ASSUME ~Overlap, SerialInv, [Next]_vars
    PROVE  SerialInv'
<1>1. ASSUME NEW t \in Calls, UpdateState(t) PROVE SerialInv'
  <2> DEFINE c == [op |-> "put", seen |-> state]
  <2>1. Load(t, c)
    BY <1>1 DEF UpdateState
  <2>2. Carries(c) /\ c.seen = state
    BY DEF Carries
  <2> HIDE DEF c
  <2> QED  BY <2>1, <2>2, LoadedKeeps
<1>2. ASSUME NEW t \in Calls, InsertSong(t) PROVE SerialInv'
  <2>1. PICK song \in Songs, at \in {NULL} \cup -1 .. MaxQueue, labelled \in BOOLEAN :
            Load(t, [op |-> "insert", seen |-> state, song |-> song, at |-> at,
                     labelled |-> labelled])
    BY <1>2 DEF InsertSong
  <2> DEFINE c == [op |-> "insert", seen |-> state, song |-> song, at |-> at,
                   labelled |-> labelled]
  <2>2. Carries(c) /\ c.seen = state
    BY DEF Carries
  <2>3. Load(t, c)
    BY <2>1
  <2> HIDE DEF c
  <2> QED  BY <2>2, <2>3, LoadedKeeps
<1>3. ASSUME NEW t \in Calls, RemoveSong(t) PROVE SerialInv'
  <2>1. PICK song \in Songs : Load(t, [op |-> "remove", seen |-> state, song |-> song])
    BY <1>3 DEF RemoveSong
  <2> DEFINE c == [op |-> "remove", seen |-> state, song |-> song]
  <2>2. Carries(c) /\ c.seen = state
    BY DEF Carries
  <2>3. Load(t, c)
    BY <2>1
  <2> HIDE DEF c
  <2> QED  BY <2>2, <2>3, LoadedKeeps
<1>4. ASSUME NEW t \in Calls, ReorderSong(t) PROVE SerialInv'
  <2>1. PICK from \in -1 .. MaxQueue + 1, to \in -1 .. MaxQueue + 2 :
            Load(t, [op |-> "reorder", seen |-> state, at |-> from, to |-> to])
    BY <1>4 DEF ReorderSong
  <2> DEFINE c == [op |-> "reorder", seen |-> state, at |-> from, to |-> to]
  <2>2. Carries(c) /\ c.seen = state
    BY DEF Carries
  <2>3. Load(t, c)
    BY <2>1
  <2> HIDE DEF c
  <2> QED  BY <2>2, <2>3, LoadedKeeps
<1>5. ASSUME NEW t \in Calls, Write(t) PROVE SerialInv'
  BY <1>5, WrittenKeeps
<1>6. CASE UNCHANGED vars
  BY <1>6 DEF SerialInv, vars
<1> QED  BY <1>1, <1>2, <1>3, <1>4, <1>5, <1>6 DEF Next

LEMMA SerialInit ==
    Init => SerialInv
BY DEF Init, SerialInv

LEMMA SerialAlways ==
    ASSUME ~Overlap
    PROVE  Spec => []SerialInv
<1>1. SerialInv /\ [Next]_vars => SerialInv'
  BY SerialStep
<1> QED  BY <1>1, SerialInit, PTL DEF Spec

LEMMA SoundRows ==
    SerialInv => QueueConsistent
<1> SUFFICES ASSUME SerialInv, state # NULL PROVE QueueConsistent
  BY DEF QueueConsistent, TypeOK, OrderIsPermutation, CursorInRange, NothingOrphaned
<1>1. Good(state)
  BY DEF SerialInv
<1>2. TypeOK
  BY <1>1 DEF TypeOK, Good, Row
<1>3. OrderIsPermutation
  BY <1>1 DEF OrderIsPermutation, Good, Orders, Positions
<1>4. CursorInRange
  BY <1>1 DEF CursorInRange, Good
<1>5. NothingOrphaned
  BY <1>1 DEF NothingOrphaned, Good
<1> QED  BY <1>2, <1>3, <1>4, <1>5 DEF QueueConsistent

\* Only the request's own write empties its slot; it edits the row it saw.
LEMMA EditIs ==
    ASSUME SerialInv, [Next]_vars, NEW t \in Calls, NEW op \in {"insert", "remove", "reorder"},
           EditsQueue(t, op)
    PROVE  /\ state # NULL /\ Good(state) /\ Carries(call[t])
           /\ op = "insert" => Inserted(state', state, call[t])
           /\ op = "remove" => Removed(state', state, call[t])
           /\ op = "reorder" => Reordered(state', state, call[t])
<1>1. call[t] # NULL /\ call'[t] = NULL /\ call[t].op = op /\ call[t].seen # NULL
  BY DEF EditsQueue
<1>2. call = [u \in Calls |-> call[u]]
  BY DEF SerialInv
<1>3. ASSUME NEW u \in Calls, NEW c, Load(u, c) PROVE FALSE
  BY <1>1, <1>2, <1>3 DEF Load
<1>4. ASSUME NEW u \in Calls, Write(u) PROVE Write(t)
  <2>1. call[u] # NULL
    BY <1>4 DEF Write
  <2>2. u = t
    BY <1>1, <2>1 DEF SerialInv
  <2> QED  BY <1>4, <2>2
<1>5. Write(t)
  BY <1>1, <1>3, <1>4 DEF Next, vars, UpdateState, InsertSong, RemoveSong, ReorderSong
<1>6. /\ Carries(call[t]) /\ call[t].seen = state
      /\ \/ call[t].op = "put" /\ state' \in Bodies
         \/ /\ state # NULL /\ Good(state)
            /\ \/ Inserted(state', state, call[t])
               \/ Removed(state', state, call[t])
               \/ Reordered(state', state, call[t])
         \/ state = NULL /\ state' = state
  BY <1>5, WriteIs
<1>7. /\ state # NULL /\ Good(state)
      /\ \/ Inserted(state', state, call[t])
         \/ Removed(state', state, call[t])
         \/ Reordered(state', state, call[t])
  BY <1>1, <1>6
<1> QED  BY <1>1, <1>6, <1>7 DEF Inserted, Removed, Reordered

-----------------------------------------------------------------------------
(* Requests that overlap                                                    *)

\* The order mentions no position twice, whatever positions the queue has.
Once(o) == o \in Seq(Nat) /\ IsInjective(o)

LEMMA ShiftUpOnce ==
    ASSUME NEW o, Once(o), NEW pos \in Nat
    PROVE  Once(ShiftUp(o, pos))
<1> DEFINE u == ShiftUp(o, pos)
<1>1. /\ o \in Seq(Nat) /\ Len(o) \in Nat /\ DOMAIN o = 1 .. Len(o)
      /\ \A k, l \in 1 .. Len(o) : o[k] = o[l] => k = l
      /\ \A k \in 1 .. Len(o) : o[k] \in Nat
  BY DEF Once, IsInjective
<1>2. /\ u \in Seq(Nat) /\ Len(u) = Len(o) + 1
      /\ \A i \in 1 .. Len(o) : u[i] = Raise(o[i], pos)
      /\ u[Len(o) + 1] = pos
  BY <1>1, ShiftUpIs
<1> HIDE DEF u
<1>3. \A y, z \in Nat : (Raise(y, pos) = Raise(z, pos) => y = z) /\ Raise(y, pos) # pos
  BY DEF Raise
<1>4. DOMAIN u = 1 .. Len(o) + 1
  BY <1>2
<1>5. \A k \in 1 .. Len(o) + 1 : k \in 1 .. Len(o) \/ k = Len(o) + 1
  BY <1>1
<1>6. ASSUME NEW k \in 1 .. Len(o) + 1, NEW l \in 1 .. Len(o) + 1, u[k] = u[l] PROVE k = l
  <2>1. CASE k \in 1 .. Len(o) /\ l \in 1 .. Len(o)
    <3>1. o[k] = o[l]
      BY <1>1, <1>2, <1>3, <1>6, <2>1
    <3> QED  BY <1>1, <2>1, <3>1
  <2>2. CASE k = Len(o) + 1 /\ l \in 1 .. Len(o)
    BY <1>1, <1>2, <1>3, <1>6, <2>2
  <2>3. CASE k \in 1 .. Len(o) /\ l = Len(o) + 1
    BY <1>1, <1>2, <1>3, <1>6, <2>3
  <2> QED  BY <1>5, <2>1, <2>2, <2>3
<1>7. Once(u)
  BY <1>2, <1>4, <1>6 DEF Once, IsInjective
<1> QED  BY <1>7 DEF u

LEMMA ShiftDownOnce ==
    ASSUME NEW o, Once(o), NEW v \in Nat
    PROVE  Once(ShiftDown(o, v))
<1> DEFINE d == ShiftDown(o, v)
<1>1. /\ o \in Seq(Nat) /\ IsInjective(o) /\ Len(o) \in Nat /\ DOMAIN o = 1 .. Len(o)
      /\ \A k, l \in 1 .. Len(o) : o[k] = o[l] => k = l
      /\ \A k \in 1 .. Len(o) : o[k] \in Nat
  BY DEF Once, IsInjective
<1>2. \A y, z \in Nat : y # v /\ z # v /\ Lower(y, v) = Lower(z, v) => y = z
  BY DEF Lower
<1>3. ASSUME NEW k \in 1 .. Len(o), o[k] = v PROVE Once(d)
  <2> DEFINE Old(i) == IF i < k THEN i ELSE i + 1
  <2>1. /\ d \in Seq(Nat) /\ Len(d) = Len(o) - 1
        /\ \A i \in 1 .. Len(o) - 1 : d[i] = Lower(o[IF i < k THEN i ELSE i + 1], v)
    <3>1. o \in Seq(Nat) /\ IsInjective(o) /\ v = o[k]
      BY <1>1, <1>3
    <3> QED  BY <3>1, ShiftDownIs
  <2> HIDE DEF d
  <2>2. \A i \in 1 .. Len(o) - 1 : d[i] = Lower(o[Old(i)], v)
    BY <2>1
  <2>3. /\ \A i \in 1 .. Len(o) - 1 : Old(i) \in 1 .. Len(o) /\ Old(i) # k
        /\ \A i, j \in 1 .. Len(o) - 1 : Old(i) = Old(j) => i = j
    BY <1>1
  <2> HIDE DEF Old
  <2>4. \A i \in 1 .. Len(o) - 1 : o[Old(i)] \in Nat /\ o[Old(i)] # v
    BY <1>1, <1>3, <2>3
  <2>5. ASSUME NEW i \in 1 .. Len(o) - 1, NEW j \in 1 .. Len(o) - 1, d[i] = d[j] PROVE i = j
    <3> DEFINE a == Old(i)
               b == Old(j)
    <3>1. /\ a \in 1 .. Len(o) /\ o[a] \in Nat /\ o[a] # v /\ d[i] = Lower(o[a], v)
          /\ b \in 1 .. Len(o) /\ o[b] \in Nat /\ o[b] # v /\ d[j] = Lower(o[b], v)
      BY <2>2, <2>3, <2>4
    <3>2. a = b => i = j
      BY <2>3
    <3> HIDE DEF a, b
    <3>3. o[a] = o[b]
      BY <1>2, <2>5, <3>1
    <3> QED  BY <1>1, <3>1, <3>2, <3>3
  <2>6. DOMAIN d = 1 .. Len(o) - 1
    BY <2>1
  <2>7. IsInjective(d)
    BY <2>5, <2>6 DEF IsInjective
  <2> QED  BY <2>1, <2>7 DEF Once
<1>4. ASSUME v \notin ToSet(o) PROVE Once(d)
  <2> DEFINE e == [i \in DOMAIN o |-> Lower(o[i], v)]
  <2>1. Without(o, v) = o
    BY <1>1, <1>4, WithoutIs
  <2>2. d = e
    BY <2>1, Zenon DEF ShiftDown, Lower
  <2> HIDE DEF d
  <2>3. \A i \in 1 .. Len(o) : e[i] = Lower(o[i], v) /\ o[i] # v
    BY <1>1, <1>4 DEF ToSet
  <2>4. e \in [1 .. Len(o) -> Nat] /\ DOMAIN e = 1 .. Len(o)
    <3>1. \A y \in Nat : Lower(y, v) \in Nat
      BY DEF Lower
    <3> QED  BY <1>1, <3>1
  <2> HIDE DEF e
  <2>5. e \in Seq(Nat)
    BY <1>1, <2>4, ListIs
  <2>6. IsInjective(e)
    BY <1>1, <1>2, <2>3, <2>4 DEF IsInjective
  <2> QED  BY <2>2, <2>5, <2>6 DEF Once
<1>5. v \in ToSet(o) => \E k \in 1 .. Len(o) : o[k] = v
  BY <1>1, InList
<1>6. Once(d)
  BY <1>3, <1>4, <1>5
<1> QED  BY <1>6 DEF d

\* Each column by itself is sound; the columns need not fit each other.
Sound(s) ==
    /\ s \in Row /\ IsInjective(s.queue)
    /\ s.index >= -1
    /\ s.order # NULL => Once(s.order)

LEMMA BodiesAreSound ==
    ASSUME NEW s \in Bodies
    PROVE  Sound(s)
<1>1. Good(s) /\ s \in Row
  BY BodiesAreGood DEF Good
<1>2. PICK q \in Distinct(Songs, MaxQueue) : s \in ListBodies(q) \cup ShuffledBodies(q)
  BY DEF Bodies
<1>3. s.order # NULL => Shuffled(s)
  BY <1>2 DEF ListBodies, ShuffledBodies, Shuffled
<1> QED  BY <1>1, <1>3 DEF Good, Sound, Orders, Once, Row

LEMMA InsertedIsSound ==
    ASSUME NEW s, Sound(s), NEW song \in Songs, NEW at \in {NULL} \cup Int,
           NEW labelled, NEW r, r = QueueInsert(s, song, at, labelled)
    PROVE  Sound(r)
<1> DEFINE p == IF at = NULL THEN Len(s.queue) ELSE Clamp(at, Len(s.queue))
           q == InsertAt(s.queue, p + 1, song)
           o == IF Shuffled(s) THEN ShiftUp(s.order, p) ELSE s.order
           i == IndexAfterInsert(s.index, p)
           u == IF labelled THEN s.sources \cup {song} ELSE s.sources
<1>0. /\ s \in Row /\ s.queue \in Seq(Songs) /\ Len(s.queue) \in Nat /\ IsInjective(s.queue)
      /\ s.index \in Int /\ s.index >= -1
      /\ s.order # NULL => Once(s.order)
  BY DEF Sound, Row
<1>1. Known(s.queue, song) <=> song \in ToSet(s.queue)
  BY <1>0, InList DEF Known
<1>2. p \in 0 .. Len(s.queue) /\ p \in Nat /\ p + 1 \in 1 .. Len(s.queue) + 1
  BY <1>0 DEF Clamp
<1>3. r = IF Known(s.queue, song) THEN s
          ELSE [s EXCEPT !.queue = q, !.order = o, !.index = i, !.sources = u]
  BY <1>0 DEF QueueInsert, Row
<1> HIDE DEF p
<1>4. ASSUME song \notin ToSet(s.queue) PROVE q \in Seq(Songs) /\ IsInjective(q)
  <2>1. Widened(q, s.queue, p + 1, song)
    BY <1>0, <1>2, <1>4, Widening
  <2> QED  BY <2>1 DEF Widened
<1>5. o \in Seq(Nat) \cup {NULL} /\ (o # NULL => Once(o))
  <2>1. CASE Shuffled(s)
    <3>1. Once(ShiftUp(s.order, p))
      BY <1>0, <1>2, <2>1, ShiftUpOnce DEF Shuffled
    <3> QED  BY <2>1, <3>1 DEF Once
  <2>2. CASE ~Shuffled(s)
    BY <1>0, <2>2 DEF Row
  <2> QED  BY <2>1, <2>2
<1>6. i \in Int /\ i >= -1
  BY <1>0, <1>2 DEF IndexAfterInsert
<1>7. u \in SUBSET Songs
  BY <1>0 DEF Row
<1> HIDE DEF q, o, i, u
<1>8. ASSUME song \notin ToSet(s.queue) PROVE Sound(r)
  <2>1. r = [s EXCEPT !.queue = q, !.order = o, !.index = i, !.sources = u]
    BY <1>1, <1>3, <1>8
  <2>2. r \in Row /\ r.queue = q /\ r.order = o /\ r.index = i
    BY <1>0, <1>4, <1>5, <1>6, <1>7, <1>8, <2>1 DEF Row
  <2> QED  BY <1>4, <1>5, <1>6, <1>8, <2>2 DEF Sound
<1> QED  BY <1>1, <1>3, <1>8

LEMMA RemovedIsSound ==
    ASSUME NEW s, Sound(s), NEW song \in Songs, NEW r, r = QueueRemove(s, song)
    PROVE  Sound(r)
<1> DEFINE n == PositionOf(s.queue, song)
           earlier == \E i \in DOMAIN s.order : s.order[i] = n /\ i - 1 < s.pos
           q == RemoveAt(s.queue, n + 1)
           o == IF Shuffled(s) THEN ShiftDown(s.order, n) ELSE s.order
           c == IF Shuffled(s) /\ earlier THEN s.pos - 1 ELSE s.pos
           i == IndexAfterRemove(s.index, n, Len(s.queue) - 2)
           m == s.manual \ {song}
           u == s.sources \ {song}
<1>0. /\ s \in Row /\ s.queue \in Seq(Songs) /\ Len(s.queue) \in Nat /\ IsInjective(s.queue)
      /\ s.index \in Int /\ s.pos \in Nat /\ s.index >= -1
      /\ s.order # NULL => Once(s.order)
  BY DEF Sound, Row
<1>1. Contains(s.queue, song) <=> song \in ToSet(s.queue)
  BY <1>0, InList
<1>2. r = IF ~Contains(s.queue, song) THEN s
          ELSE [s EXCEPT !.queue = q, !.order = o, !.pos = c, !.index = i, !.manual = m,
                         !.sources = u]
  BY <1>0 DEF QueueRemove, Row, Forgotten
<1>3. SUFFICES ASSUME song \in ToSet(s.queue) PROVE Sound(r)
  BY <1>1, <1>2
<1>4. n \in Nat /\ n + 1 \in 1 .. Len(s.queue)
  <2>1. PICK k \in 1 .. Len(s.queue) : s.queue[k] = song
    BY <1>0, <1>3, InList
  <2>2. n = k - 1
    BY <1>0, <2>1, PositionIs
  <2> HIDE DEF n
  <2> QED  BY <1>0, <2>1, <2>2
<1> HIDE DEF n
<1>5. q \in Seq(Songs) /\ IsInjective(q)
  <2>1. Narrowed(q, s.queue, n + 1)
    BY <1>0, <1>4, Narrowing
  <2> QED  BY <2>1 DEF Narrowed
<1>6. o \in Seq(Nat) \cup {NULL} /\ (o # NULL => Once(o))
  <2>1. CASE Shuffled(s)
    <3>1. Once(ShiftDown(s.order, n))
      BY <1>0, <1>4, <2>1, ShiftDownOnce DEF Shuffled
    <3> QED  BY <2>1, <3>1 DEF Once
  <2>2. CASE ~Shuffled(s)
    BY <1>0, <2>2 DEF Row
  <2> QED  BY <2>1, <2>2
<1>7. c \in Nat
  <2>1. CASE Shuffled(s) /\ earlier
    <3>1. DOMAIN s.order \subseteq Nat \ {0}
      BY <1>0, <2>1 DEF Shuffled, Once
    <3>2. s.pos # 0
      BY <1>0, <2>1, <3>1
    <3> QED  BY <1>0, <2>1, <3>2
  <2>2. CASE ~(Shuffled(s) /\ earlier)
    BY <1>0, <2>2
  <2> QED  BY <2>1, <2>2
<1>8. i \in Int /\ i >= -1
  BY <1>0, <1>4 DEF IndexAfterRemove, Clamp
<1>9. m \in SUBSET Songs /\ u \in SUBSET Songs
  BY <1>0 DEF Row
<1> HIDE DEF q, o, c, i, m, u
<1>10. /\ r.queue = q /\ r.order = o /\ r.index = i
       /\ r \in Row
  BY <1>0, <1>1, <1>2, <1>3, <1>5, <1>6, <1>7, <1>8, <1>9 DEF Row
<1> QED  BY <1>5, <1>6, <1>8, <1>10 DEF Sound

LEMMA ReorderedIsSound ==
    ASSUME NEW s, Sound(s), NEW from \in Int, NEW to \in Int,
           NEW r, r = QueueReorder(s, from, to)
    PROVE  Sound(r)
<1> DEFINE list == IF Shuffled(s) THEN s.order ELSE s.queue
           place == Landing(from, to, Len(list))
           order == Moved(s.order, from, place)
           queue == Moved(s.queue, from, place)
           current == PositionOf(s.queue, s.current)
           pos == IF Contains(order, current) THEN PositionOf(order, current) ELSE s.pos
           index == Followed(s.index, from, place)
<1>0. /\ s \in Row /\ s.queue \in Seq(Songs) /\ Len(s.queue) \in Nat /\ IsInjective(s.queue)
      /\ s.index \in Int /\ s.index >= -1 /\ s.pos \in Nat
      /\ s.order # NULL => Once(s.order)
      /\ Shuffled(s) => s.order \in Seq(Nat) /\ Len(s.order) \in Nat /\ IsInjective(s.order)
  BY DEF Sound, Row, Shuffled, Once
<1>1. Len(list) \in Nat
  BY <1>0
<1>2. r = IF from \in {to, to - 1} \/ from \notin Positions(list) THEN s
          ELSE IF Shuffled(s) THEN [s EXCEPT !.order = order, !.pos = pos]
          ELSE [s EXCEPT !.queue = queue, !.index = index]
  BY <1>0 DEF QueueReorder, Row, Followed
<1> HIDE DEF list
<1>3. SUFFICES ASSUME from \notin {to, to - 1}, from \in Positions(list)
               PROVE  Sound(r)
  BY <1>2
<1>4. from \in 0 .. Len(list) - 1 /\ place \in 0 .. Len(list) - 1
  <2>1. from \in 0 .. Len(list) - 1
    BY <1>3 DEF Positions
  <2> QED  BY <1>1, <1>3, <2>1, LandingIs
<1>5. place \in Positions(list)
  BY <1>4 DEF Positions
<1> HIDE DEF place
<1>6. CASE Shuffled(s)
  <2>1. list = s.order
    BY <1>6 DEF list
  <2>2. order \in Seq(Nat) /\ IsInjective(order)
    BY <1>0, <1>3, <1>5, <1>6, <2>1, MovedIs, MovedKeeps
  <2> HIDE DEF order, current
  <2>3. pos \in Nat
    <3>1. CASE Contains(order, current)
      <4>1. PICK k \in 1 .. Len(order) : order[k] = current
        BY <2>2, <3>1, InList
      <4>2. PositionOf(order, current) = k - 1
        BY <2>2, <4>1, PositionIs
      <4>3. k - 1 \in Nat
        BY <2>2
      <4> QED  BY <3>1, <4>2, <4>3
    <3>2. CASE ~Contains(order, current)
      BY <1>0, <3>2
    <3> QED  BY <3>1, <3>2
  <2> HIDE DEF pos
  <2>4. r = [s EXCEPT !.order = order, !.pos = pos]
    BY <1>2, <1>3, <1>6
  <2>5. r.queue = s.queue /\ r.index = s.index /\ r.order = order /\ r \in Row
    BY <1>0, <2>2, <2>3, <2>4 DEF Row
  <2> QED  BY <1>0, <2>2, <2>5 DEF Sound, Once
<1>7. CASE ~Shuffled(s)
  <2>1. list = s.queue
    BY <1>7 DEF list
  <2>2. queue \in Seq(Songs) /\ IsInjective(queue)
    BY <1>0, <1>3, <1>5, <2>1, MovedIs, MovedKeeps
  <2>3. index \in Int /\ index >= -1
    <3>1. from \in Nat /\ place \in Nat
      BY <1>4
    <3> QED  BY <1>0, <3>1 DEF Followed
  <2> HIDE DEF queue, index
  <2>4. r = [s EXCEPT !.queue = queue, !.index = index]
    BY <1>2, <1>3, <1>7
  <2>5. r.queue = queue /\ r.index = index /\ r.order = s.order /\ r \in Row
    BY <1>0, <2>2, <2>3, <2>4 DEF Row
  <2> QED  BY <1>0, <2>2, <2>3, <2>5 DEF Sound
<1> QED  BY <1>6, <1>7

\* Whatever a request wants, having seen a row of sound columns, has sound columns.
LEMMA WantedIsSound ==
    ASSUME NEW c, Carries(c), Sound(c.seen), NEW row \in Wanted(c)
    PROVE  Sound(row)
<1> DEFINE s == c.seen
<1>0. Sound(s)
  OBVIOUS
<1> HIDE DEF s
<1>1. CASE c.op = "put"
  BY <1>1, BodiesAreSound DEF Wanted
<1>2. CASE c.op = "insert" /\ c.song \in Songs /\ c.at \in {NULL} \cup Int
  <2> DEFINE song == c.song
             at == c.at
             labelled == c.labelled
  <2>1. row = QueueInsert(s, song, at, labelled)
    BY <1>2 DEF Wanted, s
  <2>2. song \in Songs /\ at \in {NULL} \cup Int
    BY <1>2
  <2> HIDE DEF song, at, labelled
  <2> QED  BY <1>0, <2>1, <2>2, InsertedIsSound
<1>3. CASE c.op = "remove" /\ c.song \in Songs
  <2> DEFINE song == c.song
  <2>1. row = QueueRemove(s, song)
    BY <1>3 DEF Wanted, s
  <2>2. song \in Songs
    BY <1>3
  <2> HIDE DEF song
  <2> QED  BY <1>0, <2>1, <2>2, RemovedIsSound
<1>4. CASE c.op = "reorder" /\ c.at \in Int /\ c.to \in Int
  <2> DEFINE from == c.at
             to == c.to
  <2>1. row = QueueReorder(s, from, to)
    BY <1>4 DEF Wanted, s
  <2>2. from \in Int /\ to \in Int
    BY <1>4
  <2> HIDE DEF from, to
  <2> QED  BY <1>0, <2>1, <2>2, ReorderedIsSound
<1> QED  BY <1>1, <1>2, <1>3, <1>4 DEF Carries

\* A row whose columns come from two sound rows has sound columns.
LEMMA ColumnsAreSound ==
    ASSUME NEW row, Sound(row), NEW seen, NEW wanted, Sound(wanted)
    PROVE  Sound(Columns(row, seen, wanted))
<1> DEFINE r == Columns(row, seen, wanted)
<1>1. row \in Row /\ wanted \in Row
  BY DEF Sound
<1>2. DOMAIN row = {"shuffle", "queue", "index", "order", "pos", "manual", "current", "sources"}
  BY <1>1 DEF Row
<1>3. r = [c \in DOMAIN row |-> IF wanted[c] # seen[c] THEN wanted[c] ELSE row[c]]
  BY Zenon DEF Columns
<1> HIDE DEF r
<1>4. \A c \in DOMAIN row : r[c] = wanted[c] \/ r[c] = row[c]
  BY <1>3
<1>5. r = [c \in {"shuffle", "queue", "index", "order", "pos", "manual", "current", "sources"} |->
             r[c]]
  BY <1>2, <1>3
<1>6. /\ r.shuffle \in BOOLEAN /\ r.queue \in Seq(Songs) /\ r.index \in Int
      /\ r.order \in Seq(Nat) \cup {NULL} /\ r.pos \in Nat
      /\ r.manual \in SUBSET Songs /\ r.current \in Songs \cup {NULL}
      /\ r.sources \in SUBSET Songs
  BY <1>1, <1>2, <1>4 DEF Row
<1>7. r \in Row
  BY <1>5, <1>6 DEF Row
<1>8. /\ IsInjective(r.queue) /\ r.index >= -1
      /\ r.order # NULL => Once(r.order)
  BY <1>2, <1>4 DEF Sound
<1>9. Sound(r)
  BY <1>7, <1>8 DEF Sound
<1> QED  BY <1>9 DEF r

\* The row and the rows that requests in flight have seen have sound columns.
SoundInv ==
    /\ state # NULL => Sound(state)
    /\ call = [t \in Calls |-> call[t]]
    /\ \A t \in Calls : call[t] # NULL =>
          /\ Carries(call[t])
          /\ call[t].seen # NULL => Sound(call[t].seen) /\ Sound(state)

LEMMA LoadedStaysSound ==
    ASSUME SoundInv, NEW t \in Calls, NEW c, Carries(c), c.seen = state, Load(t, c)
    PROVE  SoundInv'
<1>1. call' = [call EXCEPT ![t] = c] /\ state' = state
  BY DEF Load
<1>2. call = [u \in Calls |-> call[u]]
  BY DEF SoundInv
<1>3. call' = [u \in Calls |-> IF u = t THEN c ELSE call[u]]
  BY <1>1, <1>2
<1>4. call' = [u \in Calls |-> call'[u]]
  BY <1>3
<1>5. ASSUME NEW u \in Calls, call'[u] # NULL
      PROVE  /\ Carries(call'[u])
             /\ call'[u].seen # NULL => Sound(call'[u].seen) /\ Sound(state)
  <2>1. CASE u = t
    BY <1>3, <2>1 DEF SoundInv
  <2>2. CASE u # t
    BY <1>3, <1>5, <2>2 DEF SoundInv
  <2> QED  BY <2>1, <2>2
<1>6. state # NULL => Sound(state)
  BY DEF SoundInv
<1> QED  BY <1>1, <1>4, <1>5, <1>6 DEF SoundInv

LEMMA WrittenStaysSound ==
    ASSUME SoundInv, NEW t \in Calls, Write(t)
    PROVE  SoundInv'
<1> DEFINE c == call[t]
<1>1. /\ c # NULL /\ call' = [call EXCEPT ![t] = NULL]
      /\ IF c.seen # NULL
         THEN \E row \in Wanted(c) : state' = Columns(state, c.seen, row)
         ELSE IF c.op = "put" /\ state = NULL THEN state' \in Bodies
         ELSE UNCHANGED state
  BY DEF Write
<1>2. Carries(c) /\ (c.seen # NULL => Sound(c.seen) /\ Sound(state))
  BY <1>1 DEF SoundInv
<1> HIDE DEF c
<1>3. state' = state \/ Sound(state')
  <2>1. CASE c.seen # NULL
    <3>1. PICK row \in Wanted(c) : state' = Columns(state, c.seen, row)
      BY <1>1, <2>1
    <3>2. Sound(row)
      BY <1>2, <2>1, WantedIsSound
    <3> QED  BY <1>2, <2>1, <3>1, <3>2, ColumnsAreSound
  <2>2. CASE c.seen = NULL /\ state' \in Bodies
    BY <2>2, BodiesAreSound
  <2> QED  BY <1>1, <2>1, <2>2
<1>4. call = [u \in Calls |-> call[u]]
  BY DEF SoundInv
<1>5. call' = [u \in Calls |-> IF u = t THEN NULL ELSE call[u]]
  BY <1>1, <1>4
<1>6. call' = [u \in Calls |-> call'[u]]
  BY <1>5
<1>7. ASSUME NEW u \in Calls, call'[u] # NULL
      PROVE  /\ Carries(call'[u])
             /\ call'[u].seen # NULL => Sound(call'[u].seen) /\ Sound(state')
  <2>1. call'[u] = call[u]
    BY <1>5, <1>7
  <2> QED  BY <1>3, <1>7, <2>1 DEF SoundInv
<1>8. state' # NULL => Sound(state')
  BY <1>3 DEF SoundInv
<1> QED  BY <1>6, <1>7, <1>8 DEF SoundInv

LEMMA SoundStep ==
    ASSUME SoundInv, [Next]_vars
    PROVE  SoundInv'
<1>1. ASSUME NEW t \in Calls, UpdateState(t) PROVE SoundInv'
  <2> DEFINE c == [op |-> "put", seen |-> state]
  <2>1. Load(t, c)
    BY <1>1 DEF UpdateState
  <2>2. Carries(c) /\ c.seen = state
    BY DEF Carries
  <2> HIDE DEF c
  <2> QED  BY <2>1, <2>2, LoadedStaysSound
<1>2. ASSUME NEW t \in Calls, InsertSong(t) PROVE SoundInv'
  <2>1. PICK song \in Songs, at \in {NULL} \cup -1 .. MaxQueue, labelled \in BOOLEAN :
            Load(t, [op |-> "insert", seen |-> state, song |-> song, at |-> at,
                     labelled |-> labelled])
    BY <1>2 DEF InsertSong
  <2> DEFINE c == [op |-> "insert", seen |-> state, song |-> song, at |-> at,
                   labelled |-> labelled]
  <2>2. Carries(c) /\ c.seen = state
    BY DEF Carries
  <2>3. Load(t, c)
    BY <2>1
  <2> HIDE DEF c
  <2> QED  BY <2>2, <2>3, LoadedStaysSound
<1>3. ASSUME NEW t \in Calls, RemoveSong(t) PROVE SoundInv'
  <2>1. PICK song \in Songs : Load(t, [op |-> "remove", seen |-> state, song |-> song])
    BY <1>3 DEF RemoveSong
  <2> DEFINE c == [op |-> "remove", seen |-> state, song |-> song]
  <2>2. Carries(c) /\ c.seen = state
    BY DEF Carries
  <2>3. Load(t, c)
    BY <2>1
  <2> HIDE DEF c
  <2> QED  BY <2>2, <2>3, LoadedStaysSound
<1>4. ASSUME NEW t \in Calls, ReorderSong(t) PROVE SoundInv'
  <2>1. PICK from \in -1 .. MaxQueue + 1, to \in -1 .. MaxQueue + 2 :
            Load(t, [op |-> "reorder", seen |-> state, at |-> from, to |-> to])
    BY <1>4 DEF ReorderSong
  <2> DEFINE c == [op |-> "reorder", seen |-> state, at |-> from, to |-> to]
  <2>2. Carries(c) /\ c.seen = state
    BY DEF Carries
  <2>3. Load(t, c)
    BY <2>1
  <2> HIDE DEF c
  <2> QED  BY <2>2, <2>3, LoadedStaysSound
<1>5. ASSUME NEW t \in Calls, Write(t) PROVE SoundInv'
  BY <1>5, WrittenStaysSound
<1>6. CASE UNCHANGED vars
  BY <1>6 DEF SoundInv, vars
<1> QED  BY <1>1, <1>2, <1>3, <1>4, <1>5, <1>6 DEF Next

LEMMA SoundColumns ==
    SoundInv => ColumnsSound
<1> SUFFICES ASSUME SoundInv PROVE ColumnsSound
  OBVIOUS
<1>1. state # NULL => Sound(state)
  BY DEF SoundInv
<1>2. TypeOK
  BY <1>1 DEF TypeOK, Sound, Row
<1> QED  BY <1>1, <1>2 DEF ColumnsSound, Sound, Once

-----------------------------------------------------------------------------
(* Theorems                                                                 *)

\* When requests do not overlap, the queue, its shuffled order, the cursors and what
\* hangs on songs fit together, whatever was inserted, removed, moved and put.
THEOREM QueueStaysConsistent ==
    ASSUME ~Overlap
    PROVE  Spec => []QueueConsistent
BY SerialAlways, SoundRows, PTL

\* When requests do not overlap, no edit of the queue makes the player jump: both
\* cursors stay at the song that plays while it is queued.
THEOREM PlayerNeverJumps ==
    ASSUME ~Overlap
    PROVE  Spec => CurrentKept
<1>1. ASSUME SerialInv, [Next]_vars, NEW t \in Calls,
             NEW op \in {"insert", "remove", "reorder"},
             EditsQueue(t, op), AtCurrent(state), Contains(state'.queue, state.current)
      PROVE  AtCurrent(state')
  <2>1. /\ state # NULL /\ Good(state) /\ Carries(call[t])
        /\ op = "insert" => Inserted(state', state, call[t])
        /\ op = "remove" => Removed(state', state, call[t])
        /\ op = "reorder" => Reordered(state', state, call[t])
    BY <1>1, EditIs
  <2>2. CASE op = "insert"
    BY <1>1, <2>1, <2>2, InsertedAll
  <2>3. CASE op = "remove"
    <3>1. Removed(state', state, call[t])
      BY <2>1, <2>3
    <3>2. Good(state')
      BY <2>1, <3>1, RemovedAll
    <3>3. state.current \in ToSet(state'.queue)
      BY <1>1, <3>2, InList DEF Good, Row
    <3> QED  BY <1>1, <2>1, <3>1, <3>3, RemovedAll
  <2>4. CASE op = "reorder"
    BY <1>1, <2>1, <2>4, ReorderedAll
  <2> QED  BY <2>2, <2>3, <2>4
<1>2. SerialInv /\ [Next]_vars =>
        [\A t \in Calls : \A op \in {"insert", "remove", "reorder"} :
            EditsQueue(t, op) /\ AtCurrent(state) /\ Contains(state'.queue, state.current)
            => AtCurrent(state')]_vars
  BY <1>1
<1> QED  BY <1>2, SerialAlways, PTL DEF Spec, CurrentKept

\* When requests do not overlap, an edit of the queue changes the order of play by one
\* song: it is put in, or taken out, or lands right before the song it was dropped on.
THEOREM SongsMoveOneByOne ==
    ASSUME ~Overlap
    PROVE  Spec => OneSongMoves
<1> DEFINE Moves(t) ==
        LET old == PlayOrder(state)
            new == PlayOrder(state')
            c == call[t]
        IN  /\ EditsQueue(t, "insert") =>
                  IF Contains(old, c.song) THEN new = old
                  ELSE Contains(new, c.song) /\ Without(new, c.song) = old
            /\ EditsQueue(t, "remove") => new = Without(old, c.song)
            /\ EditsQueue(t, "reorder") /\ c.at \in Positions(old) /\ c.to \in Positions(old) =>
                  LET x == old[c.at + 1]
                      y == old[c.to + 1]
                  IN  /\ Without(new, x) = Without(old, x)
                      /\ x # y => PositionOf(new, x) + 1 = PositionOf(new, y)
<1>1. ASSUME SerialInv, [Next]_vars, NEW t \in Calls
      PROVE  Moves(t)
  <2>1. ASSUME EditsQueue(t, "insert")
        PROVE  Good(state) /\ Carries(call[t]) /\ Inserted(state', state, call[t])
    BY <1>1, <2>1, EditIs
  <2>2. ASSUME EditsQueue(t, "remove")
        PROVE  Good(state) /\ Carries(call[t]) /\ Removed(state', state, call[t])
    BY <1>1, <2>2, EditIs
  <2>3. ASSUME EditsQueue(t, "reorder")
        PROVE  Good(state) /\ Carries(call[t]) /\ Reordered(state', state, call[t])
    BY <1>1, <2>3, EditIs
  <2>4. ASSUME EditsQueue(t, "insert")
        PROVE  IF Contains(PlayOrder(state), call[t].song) THEN PlayOrder(state') = PlayOrder(state)
               ELSE /\ Contains(PlayOrder(state'), call[t].song)
                    /\ Without(PlayOrder(state'), call[t].song) = PlayOrder(state)
    BY <2>1, <2>4, InsertedAll
  <2>5. ASSUME EditsQueue(t, "remove")
        PROVE  PlayOrder(state') = Without(PlayOrder(state), call[t].song)
    BY <2>2, <2>5, RemovedAll
  <2>6. ASSUME EditsQueue(t, "reorder"), call[t].at \in Positions(PlayOrder(state)),
               call[t].to \in Positions(PlayOrder(state))
        PROVE  LET x == PlayOrder(state)[call[t].at + 1]
                   y == PlayOrder(state)[call[t].to + 1]
               IN  /\ Without(PlayOrder(state'), x) = Without(PlayOrder(state), x)
                   /\ x # y => PositionOf(PlayOrder(state'), x) + 1 = PositionOf(PlayOrder(state'), y)
    BY <2>3, <2>6, ReorderedAll
  <2> QED  BY <2>4, <2>5, <2>6
<1>2. SerialInv /\ [Next]_vars => [\A t \in Calls : Moves(t)]_vars
  BY <1>1
<1> QED  BY <1>2, SerialAlways, PTL DEF Spec, OneSongMoves

\* Even when requests overlap and write columns computed from different rows, no song
\* is queued twice, no position is played twice, and no cursor falls below its start.
THEOREM ColumnsStaySound == Spec => []ColumnsSound
<1>1. Init => SoundInv
  BY DEF Init, SoundInv
<1>2. SoundInv /\ [Next]_vars => SoundInv'
  BY SoundStep
<1> QED  BY <1>1, <1>2, SoundColumns, PTL DEF Spec
=============================================================================
