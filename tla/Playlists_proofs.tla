--------------------------- MODULE Playlists_proofs ---------------------------
(* Theorems about Playlists, for every value of its constants: lists and      *)
(* positions of any length, any number of songs and of requests in flight.    *)
EXTENDS Playlists, FiniteSetTheorems, WellFoundedInduction, TLAPS

-----------------------------------------------------------------------------
(* The first and the last place of a song in a list, and the last position of *)
(* a playlist, are a minimum and two maxima: that these exist comes first.    *)

LEMMA NatMin ==
  ASSUME NEW T \in SUBSET Nat, T # {}
  PROVE  \E x \in T : \A y \in T : x =< y
<1> DEFINE R == OpToRel(<, Nat)
<1>1. IsWellFoundedOn(R, Nat)
  BY NatLessThanWellFounded
<1>2. \A x, y \in T : y < x => <<y, x>> \in R
  BY DEF OpToRel
<1> HIDE DEF R
<1>3. PICK x \in T : \A y \in T : ~ (<<y, x>> \in R)
  BY <1>1, WFMin
<1>4. \A y \in T : ~(y < x)
  BY <1>2, <1>3
<1> QED  BY <1>4

LEMMA NatMax ==
  ASSUME NEW T \in SUBSET Nat, T # {}, NEW n \in Nat, \A x \in T : x =< n
  PROVE  \E x \in T : \A y \in T : x >= y
<1> DEFINE U == {k \in 0..n : n - k \in T}
<1>1. U \in SUBSET Nat /\ U # {}
  <2>1. PICK x \in T : TRUE
    OBVIOUS
  <2>2. n - x \in U
    BY <2>1
  <2> QED  BY <2>2
<1>2. PICK k \in U : \A y \in U : k =< y
  BY <1>1, NatMin
<1>3. \A y \in T : n - y \in U
  OBVIOUS
<1> QED  BY <1>2, <1>3

LEMMA MinOf ==
  ASSUME NEW T \in SUBSET Nat, T # {}
  PROVE  Min(T) \in T /\ \A y \in T : Min(T) =< y
BY NatMin DEF Min

LEMMA MaxOf ==
  ASSUME NEW T \in SUBSET Nat, T # {}, NEW n \in Nat, \A x \in T : x =< n
  PROVE  Max(T) \in T /\ \A y \in T : y =< Max(T)
<1>1. \E x \in T : \A y \in T : x >= y
  BY NatMax
<1>2. Max(T) \in T /\ \A y \in T : Max(T) >= y
  BY <1>1 DEF Max
<1> QED  BY <1>2

LEMMA Places ==
  ASSUME NEW list \in Seq(Songs), NEW s \in ToSet(list)
  PROVE  /\ FirstAt(list, s) \in 1..Len(list) /\ list[FirstAt(list, s)] = s
         /\ LastAt(list, s) \in 1..Len(list) /\ list[LastAt(list, s)] = s
<1> DEFINE I == {i \in 1..Len(list) : list[i] = s}
<1>1. I \in SUBSET Nat /\ I # {} /\ Len(list) \in Nat /\ \A i \in I : i =< Len(list)
  BY DEF ToSet
<1>2. FirstAt(list, s) = Min(I) /\ LastAt(list, s) = Max(I)
  BY <1>1 DEF FirstAt, LastAt, SelectInSeq, SelectLastInSeq
<1> HIDE DEF I
<1>3. Min(I) \in I
  BY <1>1, MinOf
<1>4. Max(I) \in I
  BY <1>1, MaxOf
<1> QED  BY <1>2, <1>3, <1>4 DEF I

\* What a row can say.
Spots == 0..MaxPosition \cup {NULL}

\* Behind all songs, unless it is 0 and they are all there.
LEMMA NextPlace ==
  ASSUME NEW p \in [Songs -> Spots]
  PROVE  /\ NextPosition(p) \in Nat
         /\ \A s \in Listed(p) : p[s] < NextPosition(p) \/ (p[s] = 0 /\ NextPosition(p) = 0)
<1> DEFINE top == {p[s] : s \in Listed(p)}
<1>0. MaxPosition \in Nat
  BY PlaylistAssumption
<1>1. top \in SUBSET Nat /\ \A x \in top : x =< MaxPosition
  BY <1>0 DEF Listed, Spots
<1>2. CASE top \subseteq {0}
  <2>1. NextPosition(p) = 0
    BY <1>2 DEF NextPosition
  <2> QED  BY <1>2, <2>1
<1>3. CASE ~(top \subseteq {0})
  <2>1. NextPosition(p) = Max(top) + 1
    BY <1>3 DEF NextPosition
  <2>2. \A s \in Listed(p) : p[s] \in top
    OBVIOUS
  <2>3. Max(top) \in top /\ \A y \in top : y =< Max(top)
    <3> HIDE DEF top
    <3> QED  BY <1>0, <1>1, <1>3, MaxOf
  <2>4. \A s \in Listed(p) : p[s] =< Max(top) /\ p[s] \in Nat
    BY <1>1, <2>2, <2>3
  <2>5. Max(top) \in Nat
    BY <1>1, <2>3
  <2> HIDE DEF top
  <2> QED  BY <2>1, <2>4, <2>5
<1> QED  BY <1>2, <1>3

-----------------------------------------------------------------------------
(* Types, with what a request carries.                                        *)

CallRec == [op : {"add", "bulk_max", "bulk", "reorder"}, list : Seq(Songs), at : Nat,
            seen : [Songs -> Spots]]

\* No request would hand out a position out of bounds.
CallsOK ==
    /\ call \in [Calls -> CallRec \cup {NULL}]
    /\ \A t \in Calls : call[t] # NULL => call[t].at + Len(call[t].list) <= MaxPosition + 1

Inv == TypeOK /\ CallsOK

\* Of the songs a request inserts, those before s in its list take less than the
\* places before it, and more for a song that comes later.
LEMMA Before ==
  ASSUME NEW c \in CallRec, NEW s \in ToSet(c.list)
  PROVE  LET B(x) == {y \in Inserted(c) : FirstAt(c.list, y) < FirstAt(c.list, x)}
         IN  /\ Cardinality(B(s)) \in 0 .. Len(c.list) - 1
             /\ \A x \in ToSet(c.list) :
                   s \in Inserted(c) /\ FirstAt(c.list, s) < FirstAt(c.list, x)
                   => Cardinality(B(s)) < Cardinality(B(x))
<1> DEFINE F(x) == FirstAt(c.list, x)
           B(x) == {y \in Inserted(c) : F(y) < F(x)}
<1>0. c.list \in Seq(Songs) /\ Len(c.list) \in Nat
  BY DEF CallRec
<1>1. \A x \in ToSet(c.list) : F(x) \in 1..Len(c.list) /\ c.list[F(x)] = x
  BY <1>0, Places
<1>2. Inserted(c) \subseteq ToSet(c.list)
  BY DEF Inserted
<1>3. ASSUME NEW x \in ToSet(c.list)
      PROVE  IsFiniteSet(B(x)) /\ Cardinality(B(x)) \in 0 .. Len(c.list) - 1
  <2> DEFINE f == [y \in B(x) |-> F(y)]
             n == F(x) - 1
  <2>1. n \in Nat /\ n <= Len(c.list) - 1
    BY <1>0, <1>1
  <2>2. ASSUME NEW y \in B(x)
        PROVE  F(y) \in 1..n /\ c.list[F(y)] = y
    BY <1>0, <1>1, <1>2, <2>1
  <2> HIDE DEF n, F
  <2>3. f \in [B(x) -> 1..n] /\ \A y, z \in B(x) : f[y] = f[z] => y = z
    BY <2>2
  <2>4. f \in Injection(B(x), 1..n)
    BY <2>3 DEF Injection, IsInjective
  <2>5. IsFiniteSet(1..n) /\ Cardinality(1..n) = n
    BY <2>1, FS_Interval
  <2> HIDE DEF f, B
  <2>6. IsFiniteSet(B(x)) /\ Cardinality(B(x)) <= n
    BY <2>4, <2>5, FS_Injection
  <2> QED  BY <1>0, <2>1, <2>6, FS_CardinalityType
<1>4. ASSUME NEW x \in ToSet(c.list), s \in Inserted(c), F(s) < F(x)
      PROVE  Cardinality(B(s)) < Cardinality(B(x))
  <2>1. F(s) \in Int /\ F(x) \in Int /\ \A y \in Inserted(c) : F(y) \in Int
    BY <1>1, <1>2
  <2>2. B(s) \subseteq B(x) /\ s \in B(x) /\ s \notin B(s)
    <3> HIDE DEF F
    <3> QED  BY <1>4, <2>1
  <2>3. IsFiniteSet(B(x)) /\ IsFiniteSet(B(s))
    BY <1>3
  <2> HIDE DEF B
  <2>4. Cardinality(B(s)) <= Cardinality(B(x)) /\ Cardinality(B(s)) # Cardinality(B(x))
    BY <2>2, <2>3, FS_Subset
  <2>5. Cardinality(B(s)) \in Nat /\ Cardinality(B(x)) \in Nat
    BY <2>3, FS_CardinalityType
  <2> QED  BY <2>4, <2>5
<1> QED  BY <1>3, <1>4

\* Reading leaves the rows alone.
LEMMA StartKeeps ==
  ASSUME Inv, NEW t \in Calls, NEW c \in CallRec, Start(t, c),
         c.at + Len(c.list) <= MaxPosition + 1
  PROVE  Inv'
<1>1. /\ call' = [call EXCEPT ![t] = c] /\ UNCHANGED <<exists, songs, position>>
      /\ call \in [Calls -> CallRec \cup {NULL}]
      /\ \A x \in Calls : call[x] # NULL => call[x].at + Len(call[x].list) <= MaxPosition + 1
  BY DEF Start, Inv, CallsOK
<1>2. TypeOK'
  BY <1>1 DEF Inv, TypeOK, Listed
<1>3. CallsOK'
  BY <1>1 DEF CallsOK
<1> QED  BY <1>2, <1>3 DEF Inv

LEMMA ReadingKeeps ==
  ASSUME Inv, NEW t \in Calls,
         AddSong(t) \/ BulkAdd(t) \/ BulkRead(t) \/ ReorderSongs(t)
  PROVE  Inv'
<1>0. /\ MaxPosition \in Nat /\ MaxList \in 0 .. MaxPosition + 1
      /\ position \in [Songs -> Spots] /\ songs \subseteq Songs
  BY PlaylistAssumption DEF Inv, TypeOK, Spots
<1>1. NextPosition(position) \in Nat
  BY <1>0, NextPlace
<1>2. \A list \in Lists : list \in Seq(Songs) /\ Len(list) \in Nat /\ Len(list) <= MaxList
  BY <1>0 DEF Lists
<1>3. CASE AddSong(t)
  <2>1. PICK s \in songs :
           /\ NextPosition(position) <= MaxPosition
           /\ Start(t, [op |-> "add", list |-> <<s>>, at |-> NextPosition(position),
                        seen |-> position])
    BY <1>3 DEF AddSong
  <2> DEFINE c == [op |-> "add", list |-> <<s>>, at |-> NextPosition(position),
                   seen |-> position]
  <2>2. c \in CallRec /\ c.at + Len(c.list) <= MaxPosition + 1
    BY <1>0, <1>1, <2>1 DEF CallRec
  <2> QED  BY <2>1, <2>2, StartKeeps
<1>4. CASE BulkAdd(t)
  <2>1. PICK list \in Lists :
           /\ NextPosition(position) + Len(list) <= MaxPosition + 1
           /\ Start(t, [op |-> "bulk_max", list |-> list, at |-> NextPosition(position),
                        seen |-> position])
    BY <1>4 DEF BulkAdd
  <2> DEFINE c == [op |-> "bulk_max", list |-> list, at |-> NextPosition(position),
                   seen |-> position]
  <2>2. c \in CallRec /\ c.at + Len(c.list) <= MaxPosition + 1
    BY <1>0, <1>1, <1>2, <2>1 DEF CallRec
  <2> QED  BY <2>1, <2>2, StartKeeps
<1>5. CASE ReorderSongs(t)
  <2>1. PICK list \in Lists :
           Start(t, [op |-> "reorder", list |-> list, at |-> 0, seen |-> position])
    BY <1>5 DEF ReorderSongs
  <2> DEFINE c == [op |-> "reorder", list |-> list, at |-> 0, seen |-> position]
  <2>2. c \in CallRec /\ c.at + Len(c.list) <= MaxPosition + 1
    BY <1>0, <1>2 DEF CallRec
  <2> QED  BY <2>1, <2>2, StartKeeps
<1>6. CASE BulkRead(t)
  <2> DEFINE c == [call[t] EXCEPT !.op = "bulk", !.seen = position]
  <2>1. call[t] \in CallRec /\ call[t].at + Len(call[t].list) <= MaxPosition + 1
    BY <1>6 DEF BulkRead, Inv, CallsOK
  <2>2. c \in CallRec /\ c.at = call[t].at /\ c.list = call[t].list
    BY <1>0, <2>1 DEF CallRec
  <2>3. call' = [call EXCEPT ![t] = c] /\ UNCHANGED <<exists, songs, position>>
    BY <1>6 DEF BulkRead, Inv, CallsOK
  <2>4. TypeOK'
    BY <2>3 DEF Inv, TypeOK, Listed
  <2> HIDE DEF c
  <2>5. CallsOK'
    BY <2>1, <2>2, <2>3 DEF Inv, CallsOK
  <2> QED  BY <2>4, <2>5 DEF Inv
<1> QED  BY <1>3, <1>4, <1>5, <1>6

\* An answer writes positions that are in range, of songs there are.
LEMMA AnswerKeeps ==
  ASSUME Inv, NEW t \in Calls, NEW p \in [Songs -> Spots], Answer(t, p),
         Listed(p) # {} => exists /\ Listed(p) \subseteq songs
  PROVE  Inv'
<1>1. call' = [call EXCEPT ![t] = NULL] /\ position' = p /\ UNCHANGED <<exists, songs>>
  BY DEF Answer
<1>2. TypeOK'
  BY <1>1 DEF Inv, TypeOK, Spots
<1>3. CallsOK'
  BY <1>1 DEF Inv, CallsOK
<1> QED  BY <1>2, <1>3 DEF Inv

LEMMA CommitAddKeeps ==
  ASSUME Inv, NEW t \in Calls, CommitAdd(t)
  PROVE  Inv'
<1> DEFINE c == call[t]
           p == [s \in Songs |-> IF s \in Inserted(c) THEN InsertedAt(c, s) ELSE position[s]]
<1>0. /\ MaxPosition \in Nat /\ position \in [Songs -> Spots]
      /\ Listed(position) # {} => exists /\ Listed(position) \subseteq songs
      /\ NULL \notin Nat
  BY PlaylistAssumption DEF Inv, TypeOK, Spots
<1>1. c \in CallRec /\ c.at + Len(c.list) <= MaxPosition + 1
  BY DEF CommitAdd, Inv, CallsOK
<1>2. CASE Refused(c)
  BY <1>0, <1>2, AnswerKeeps DEF CommitAdd
<1>3. CASE ~Refused(c)
  <2>1. Answer(t, p) /\ exists /\ Inserted(c) \subseteq songs
    BY <1>3 DEF CommitAdd, Refused
  <2>2. ASSUME NEW s \in Inserted(c) PROVE InsertedAt(c, s) \in 0..MaxPosition
    <3>1. s \in ToSet(c.list)
      BY DEF Inserted
    <3> DEFINE n == Cardinality({x \in Inserted(c) :
                                   FirstAt(c.list, x) < FirstAt(c.list, s)})
    <3>2. n \in 0 .. Len(c.list) - 1
      BY <1>1, <3>1, Before
    <3>3. InsertedAt(c, s) = c.at + n
      BY DEF InsertedAt
    <3>4. c.at \in Nat /\ Len(c.list) \in Nat
      BY <1>1 DEF CallRec
    <3> HIDE DEF n, c
    <3> QED  BY <1>0, <1>1, <3>2, <3>3, <3>4
  <2>3. p \in [Songs -> Spots]
    BY <1>0, <2>2 DEF Spots
  <2>4. Listed(p) \subseteq Listed(position) \cup Inserted(c)
    BY DEF Listed
  <2> HIDE DEF p
  <2>5. Listed(p) # {} => exists /\ Listed(p) \subseteq songs
    BY <1>0, <2>1, <2>4
  <2> QED  BY <2>1, <2>3, <2>5, AnswerKeeps
<1> QED  BY <1>2, <1>3

\* A reorder names positions that are in range, and moves only rows that are there.
LEMMA ReorderRows ==
  ASSUME Inv, NEW t \in Calls, call[t] # NULL
  PROVE  LET c == call[t]
             p == [s \in Songs |-> IF s \in Shifted(c) \cap Listed(position)
                                   THEN LastAt(c.list, s) - 1 ELSE position[s]]
         IN  p \in [Songs -> Spots] /\ Listed(p) = Listed(position)
<1> DEFINE c == call[t]
           p == [s \in Songs |-> IF s \in Shifted(c) \cap Listed(position)
                                 THEN LastAt(c.list, s) - 1 ELSE position[s]]
<1>0. MaxPosition \in Nat /\ position \in [Songs -> Spots] /\ NULL \notin Nat
  BY PlaylistAssumption DEF Inv, TypeOK, Spots
<1>1. c \in CallRec /\ c.at + Len(c.list) <= MaxPosition + 1
  BY DEF Inv, CallsOK
<1>2. c.list \in Seq(Songs) /\ c.at \in Nat /\ Len(c.list) \in Nat
  BY <1>1 DEF CallRec
<1>3. ASSUME NEW s \in Shifted(c)
      PROVE  LastAt(c.list, s) - 1 \in 0..MaxPosition
  <2>1. s \in ToSet(c.list)
    BY DEF Shifted
  <2>2. LastAt(c.list, s) \in 1..Len(c.list)
    BY <1>2, <2>1, Places
  <2> HIDE DEF c
  <2> QED  BY <1>0, <1>1, <1>2, <2>2
<1>4. p \in [Songs -> Spots]
  BY <1>0, <1>3 DEF Spots
<1>5. ASSUME NEW s \in Songs PROVE p[s] # NULL <=> position[s] # NULL
  BY <1>0, <1>3 DEF Listed
<1>6. Listed(p) = Listed(position)
  <2> HIDE DEF p
  <2> QED  BY <1>5 DEF Listed
<1> QED  BY <1>4, <1>6

LEMMA CommitReorderKeeps ==
  ASSUME Inv, NEW t \in Calls, CommitReorder(t)
  PROVE  Inv'
<1>0. /\ position \in [Songs -> Spots] /\ call[t] # NULL
      /\ Listed(position) # {} => exists /\ Listed(position) \subseteq songs
  BY DEF Inv, TypeOK, Spots, CommitReorder
<1> DEFINE c == call[t]
           p == [s \in Songs |-> IF s \in Shifted(c) \cap Listed(position)
                                 THEN LastAt(c.list, s) - 1 ELSE position[s]]
<1>1. p \in [Songs -> Spots] /\ Listed(p) = Listed(position)
  BY <1>0, ReorderRows
<1>2. Answer(t, p) \/ Answer(t, position)
  BY DEF CommitReorder
<1> HIDE DEF p
<1> QED  BY <1>0, <1>1, <1>2, AnswerKeeps

LEMMA OneStatementKeeps ==
  ASSUME Inv, RemoveSongs \/ DeletePlaylist \/ DeleteSong
  PROVE  Inv'
<1>1. CallsOK'
  BY DEF RemoveSongs, DeletePlaylist, DeleteSong, Inv, CallsOK
<1>2. TypeOK'
  BY DEF RemoveSongs, DeletePlaylist, DeleteSong, Inv, TypeOK, Listed
<1> QED  BY <1>1, <1>2 DEF Inv

LEMMA InvStep == Inv /\ [Next]_vars => Inv'
<1>1. ASSUME Inv, UNCHANGED vars PROVE Inv'
  BY <1>1 DEF vars, Inv, TypeOK, Listed, CallsOK
<1> QED
  BY <1>1, ReadingKeeps, CommitAddKeeps, CommitReorderKeeps, OneStatementKeeps DEF Next

LEMMA InvInit == Init => Inv
BY DEF Init, Inv, TypeOK, Listed, CallsOK

\* However many requests overlap, and whatever is removed or deleted beside them, no
\* row outlives its song or the playlist, and positions stay in range.
THEOREM TypeCorrect == Spec => []TypeOK
<1>1. Inv => TypeOK
  BY DEF Inv
<1> QED  BY <1>1, InvInit, InvStep, PTL DEF Spec

-----------------------------------------------------------------------------
(* What one commit does to the order.                                         *)

\* Only the commit of a request answers it.
LEMMA WhoCommits ==
  ASSUME Inv, [Next]_vars, NEW t \in Calls
  PROVE  /\ Commits(t, {"add", "bulk"}) => CommitAdd(t)
         /\ Commits(t, {"reorder"}) => CommitReorder(t)
<1>0. call \in [Calls -> CallRec \cup {NULL}]
  BY DEF Inv, CallsOK
<1> SUFFICES ASSUME Commits(t, {"add", "bulk", "reorder"})
             PROVE  CommitAdd(t) \/ CommitReorder(t)
  BY DEF Commits, CommitAdd, CommitReorder
<1>1. call[t] # NULL /\ call[t].op # "bulk_max" /\ call'[t] # call[t]
  BY DEF Commits
<1>2. ASSUME NEW x \in Calls, NEW c, Start(x, c) PROVE FALSE
  BY <1>0, <1>1, <1>2 DEF Start
<1>3. ASSUME NEW x \in Calls, AddSong(x) \/ BulkAdd(x) \/ ReorderSongs(x) PROVE FALSE
  BY <1>2, <1>3 DEF AddSong, BulkAdd, ReorderSongs
<1>4. ASSUME NEW x \in Calls, BulkRead(x) PROVE FALSE
  BY <1>0, <1>1, <1>4 DEF BulkRead
<1>5. ASSUME NEW x \in Calls, x # t, CommitAdd(x) \/ CommitReorder(x) PROVE FALSE
  BY <1>0, <1>1, <1>5 DEF CommitAdd, CommitReorder, Answer
<1>6. ~RemoveSongs /\ ~DeletePlaylist /\ ~DeleteSong /\ ~UNCHANGED vars
  BY <1>1 DEF RemoveSongs, DeletePlaylist, DeleteSong, vars
<1> QED  BY <1>3, <1>4, <1>5, <1>6 DEF Next

\* What is inserted is where InsertedAt says, and the rest stays.
LEMMA AddedRows ==
  ASSUME Inv, NEW t \in Calls, CommitAdd(t), ~Refused(call[t])
  PROVE  LET c == call[t] IN
         /\ c \in CallRec /\ position' \in [Songs -> Spots]
         /\ position' = [s \in Songs |-> IF s \in Inserted(c) THEN InsertedAt(c, s)
                                                              ELSE position[s]]
         /\ Inserted(c) \subseteq ToSet(c.list) \cap Songs
         /\ Listed(position') = Listed(position) \cup Inserted(c)
         /\ Inserted(c) \cap Listed(position) = {}
         /\ \A s \in Inserted(c) : position'[s] \in Nat /\ position'[s] >= c.at
<1> DEFINE c == call[t]
<1>0. NULL \notin Nat /\ c \in CallRec /\ c.at \in Nat /\ songs \subseteq Songs
  BY PlaylistAssumption DEF Inv, CallsOK, CommitAdd, CallRec, TypeOK
<1>1. position' = [s \in Songs |-> IF s \in Inserted(c) THEN InsertedAt(c, s)
                                                        ELSE position[s]]
  BY DEF CommitAdd, Answer
<1>2. Inserted(c) \subseteq ToSet(c.list) /\ Inserted(c) \subseteq songs
      /\ Inserted(c) \cap Listed(position) = {}
  BY DEF Inserted, Refused, Listed
<1>3. ASSUME NEW s \in Inserted(c) PROVE InsertedAt(c, s) \in Nat /\ InsertedAt(c, s) >= c.at
  <2> DEFINE n == Cardinality({x \in Inserted(c) : FirstAt(c.list, x) < FirstAt(c.list, s)})
  <2>1. n \in 0 .. Len(c.list) - 1 /\ Len(c.list) \in Nat
    BY <1>0, <1>2, Before DEF CallRec
  <2>2. InsertedAt(c, s) = c.at + n
    BY DEF InsertedAt
  <2> HIDE DEF n, c
  <2> QED  BY <1>0, <2>1, <2>2
<1>4. \A s \in Inserted(c) : position'[s] \in Nat /\ position'[s] >= c.at
  BY <1>0, <1>1, <1>2, <1>3
<1>5. Listed(position') = Listed(position) \cup Inserted(c)
  <2>1. ASSUME NEW s \in Songs
        PROVE  position'[s] # NULL <=> position[s] # NULL \/ s \in Inserted(c)
    BY <1>0, <1>1, <1>4
  <2> HIDE DEF c
  <2> QED  BY <1>0, <1>2, <2>1 DEF Listed
<1>6. position' \in [Songs -> Spots]
  BY CommitAddKeeps DEF Inv, TypeOK, Spots
<1> QED  BY <1>0, <1>1, <1>2, <1>4, <1>5, <1>6

LEMMA AppendStep ==
  ASSUME Inv, NEW t \in Calls, CommitAdd(t), call[t].at = NextPosition(position),
         NEW old \in Listed(position), NEW new \in Listed(position') \ Listed(position)
  PROVE  position[old] < position'[new] \/ (position[old] = 0 /\ position'[new] = 0)
<1> DEFINE c == call[t]
<1>1. ~Refused(c)
  BY DEF CommitAdd, Answer
<1>2. new \in Inserted(c) /\ position'[new] \in Nat /\ position'[new] >= NextPosition(position)
  BY <1>1, AddedRows
<1>3. /\ position[old] \in Nat /\ NextPosition(position) \in Nat
      /\ position[old] < NextPosition(position)
         \/ (position[old] = 0 /\ NextPosition(position) = 0)
  <2>1. position \in [Songs -> Spots]
    BY DEF Inv, TypeOK, Spots
  <2>2. position[old] \in Nat
    BY <2>1 DEF Listed, Spots
  <2> QED  BY <2>1, <2>2, NextPlace
<1> QED  BY <1>2, <1>3

LEMMA BulkStep ==
  ASSUME Inv, NEW t \in Calls, CommitAdd(t), call[t].op = "bulk", position' # position
  PROVE  LET list == call[t].list
             new == {s \in ToSet(list) : call[t].seen[s] = NULL}
         IN  /\ Listed(position') = Listed(position) \cup new
             /\ \A s \in Listed(position) : position'[s] = position[s]
             /\ \A s, x \in new : FirstAt(list, s) < FirstAt(list, x) =>
                                     position'[s] < position'[x]
<1> DEFINE c == call[t]
           N(x) == Cardinality({y \in Inserted(c) : FirstAt(c.list, y) < FirstAt(c.list, x)})
<1>1. ~Refused(c)
  BY DEF CommitAdd, Answer
<1>2. Inserted(c) = {s \in ToSet(c.list) : c.seen[s] = NULL}
  BY DEF Inserted
<1>3. /\ c \in CallRec
      /\ position' = [s \in Songs |-> IF s \in Inserted(c) THEN InsertedAt(c, s)
                                                           ELSE position[s]]
      /\ Inserted(c) \subseteq ToSet(c.list) \cap Songs
      /\ Listed(position') = Listed(position) \cup Inserted(c)
      /\ Inserted(c) \cap Listed(position) = {}
  BY <1>1, AddedRows
<1>4. \A s \in Listed(position) : position'[s] = position[s]
  <2>1. Listed(position) \subseteq Songs
    BY DEF Listed
  <2> QED  BY <1>3, <2>1
<1>5. ASSUME NEW s \in Inserted(c), NEW x \in Inserted(c),
             FirstAt(c.list, s) < FirstAt(c.list, x)
      PROVE  position'[s] < position'[x]
  <2>1. position'[s] = c.at + N(s) /\ position'[x] = c.at + N(x)
    BY <1>3 DEF InsertedAt
  <2>2. /\ N(s) \in 0 .. Len(c.list) - 1 /\ N(x) \in 0 .. Len(c.list) - 1
        /\ N(s) < N(x)
    BY <1>3, <1>5, Before
  <2>3. c.at \in Nat /\ Len(c.list) \in Nat
    BY <1>3 DEF CallRec
  <2> HIDE DEF N, c
  <2> QED  BY <2>1, <2>2, <2>3
<1> QED  BY <1>2, <1>3, <1>4, <1>5

\* The rows a reorder leaves are those it asked for, unless some changed meanwhile.
LEMMA ReorderStep ==
  ASSUME Inv, NEW t \in Calls, CommitReorder(t)
  PROVE  /\ Listed(position') = Listed(position)
         /\ call[t].seen = position =>
               \A s, x \in Listed(position') \cap ToSet(call[t].list) :
                  LastAt(call[t].list, s) < LastAt(call[t].list, x) =>
                     position'[s] < position'[x]
<1> DEFINE c == call[t]
           p == [s \in Songs |-> IF s \in Shifted(c) \cap Listed(position)
                                 THEN LastAt(c.list, s) - 1 ELSE position[s]]
<1>0. call[t] # NULL /\ c \in CallRec
  BY DEF CommitReorder, Inv, CallsOK
<1>1. p \in [Songs -> Spots] /\ Listed(p) = Listed(position)
  BY <1>0, ReorderRows
<1>2. position' = p \/ (position' = position /\ ~(Shifted(c) \subseteq Listed(position)))
  BY DEF CommitReorder, Answer
<1>3. Listed(position') = Listed(position)
  <2> HIDE DEF p
  <2> QED  BY <1>1, <1>2
<1>4. ASSUME c.seen = position,
             NEW s \in Listed(position) \cap ToSet(c.list),
             NEW x \in Listed(position) \cap ToSet(c.list),
             LastAt(c.list, s) < LastAt(c.list, x)
      PROVE  position'[s] < position'[x]
  <2>1. Shifted(c) \subseteq Listed(position)
    BY <1>4 DEF Shifted
  <2>2. position' = p
    BY <1>2, <2>1
  <2>3. ASSUME NEW y \in Listed(position) \cap ToSet(c.list)
        PROVE  p[y] = LastAt(c.list, y) - 1
    <3>1. y \in Songs
      BY DEF Listed
    <3>2. CASE y \in Shifted(c)
      BY <3>1, <3>2
    <3>3. CASE y \notin Shifted(c)
      <4>1. c.seen[y] = LastAt(c.list, y) - 1
        BY <1>4, <3>3 DEF Shifted
      <4> QED  BY <1>4, <3>1, <3>3, <4>1
    <3> QED  BY <3>2, <3>3
  <2>4. LastAt(c.list, s) \in Nat /\ LastAt(c.list, x) \in Nat
    <3>1. c.list \in Seq(Songs)
      BY <1>0 DEF CallRec
    <3> QED  BY <3>1, Places
  <2> HIDE DEF p
  <2> QED  BY <1>4, <2>2, <2>3, <2>4
<1> QED  BY <1>3, <1>4

\* Songs that are added come last, however many other requests commit in between,
\* unless one changed the last position since it was read; and a bulk add that does
\* anything does all of it, in the order asked for.
THEOREM SongsAddedInOrder == Spec => AddedInOrder
<1>1. ASSUME Inv, [Next]_vars,
             NEW t \in Calls, Commits(t, {"add", "bulk"}), call[t].at = NextPosition(position),
             NEW old \in Listed(position), NEW new \in Listed(position') \ Listed(position)
      PROVE  position[old] < position'[new] \/ (position[old] = 0 /\ position'[new] = 0)
  BY <1>1, WhoCommits, AppendStep
<1>2. ASSUME Inv, [Next]_vars,
             NEW t \in Calls, Commits(t, {"bulk"}), position' # position
      PROVE  LET list == call[t].list
                 new == {s \in ToSet(list) : call[t].seen[s] = NULL}
             IN  /\ Listed(position') = Listed(position) \cup new
                 /\ \A s \in Listed(position) : position'[s] = position[s]
                 /\ \A s, x \in new : FirstAt(list, s) < FirstAt(list, x) =>
                                         position'[s] < position'[x]
  <2>1. Commits(t, {"add", "bulk"}) /\ call[t].op = "bulk"
    BY <1>2 DEF Commits
  <2>2. CommitAdd(t)
    BY <1>2, <2>1, WhoCommits
  <2> QED  BY <1>2, <2>1, <2>2, BulkStep
<1>3. Inv /\ [Next]_vars =>
        [\A t \in Calls : Commits(t, {"add", "bulk"}) /\ call[t].at = NextPosition(position) =>
            \A old \in Listed(position), new \in Listed(position') \ Listed(position) :
               \/ position[old] < position'[new]
               \/ position[old] = 0 /\ position'[new] = 0]_vars
  BY <1>1
<1>4. Inv /\ [Next]_vars =>
        [\A t \in Calls : Commits(t, {"bulk"}) /\ position' # position =>
            LET list == call[t].list
                new == {s \in ToSet(list) : call[t].seen[s] = NULL}
            IN  /\ Listed(position') = Listed(position) \cup new
                /\ \A s \in Listed(position) : position'[s] = position[s]
                /\ \A s, x \in new : FirstAt(list, s) < FirstAt(list, x) =>
                                        position'[s] < position'[x]]_vars
  BY <1>2
<1>5. Spec => []Inv
  BY InvInit, InvStep, PTL DEF Spec
<1>6. Spec => AppendedLast
  BY <1>3, <1>5, PTL DEF Spec, AppendedLast
<1>7. Spec => BulkTogether
  BY <1>4, <1>5, PTL DEF Spec, BulkTogether
<1> QED  BY <1>6, <1>7 DEF AddedInOrder

\* A reorder adds no song, brings none back, and is exact if no row changed since it
\* loaded them, whichever way the driver counts rows.
THEOREM SongsReordered == Spec => Reordered
<1>1. ASSUME Inv, [Next]_vars, NEW t \in Calls, Commits(t, {"reorder"})
      PROVE  /\ Listed(position') = Listed(position)
             /\ call[t].seen = position =>
                  \A s, x \in Listed(position') \cap ToSet(call[t].list) :
                     LastAt(call[t].list, s) < LastAt(call[t].list, x) =>
                        position'[s] < position'[x]
  BY <1>1, WhoCommits, ReorderStep
<1>2. Inv /\ [Next]_vars =>
        [\A t \in Calls : Commits(t, {"reorder"}) => Listed(position') = Listed(position)]_vars
  BY <1>1
<1>3. Inv /\ [Next]_vars =>
        [\A t \in Calls : Commits(t, {"reorder"}) /\ call[t].seen = position =>
            \A s, x \in Listed(position') \cap ToSet(call[t].list) :
               LastAt(call[t].list, s) < LastAt(call[t].list, x) =>
                  position'[s] < position'[x]]_vars
  BY <1>1
<1>4. Spec => []Inv
  BY InvInit, InvStep, PTL DEF Spec
<1>5. Spec => ReorderKeepsMembers
  BY <1>2, <1>4, PTL DEF Spec, ReorderKeepsMembers
<1>6. Spec => ReorderExact
  BY <1>3, <1>4, PTL DEF Spec, ReorderExact
<1> QED  BY <1>5, <1>6 DEF Reordered

=============================================================================
