------------------------ MODULE LogdRefinementProofs ------------------------
(***************************************************************************)
(* Every step of logd is one of the abstract log buffer, or invisible.      *)
(* The entries of a log are those of its chunks put together, so the first  *)
(* part is about FlattenSeq().                                              *)
(***************************************************************************)
EXTENDS LogdSizeProofs, LogdRefinement

-----------------------------------------------------------------------------
(***************************************************************************)
(* FlattenSeq()                                                             *)
(***************************************************************************)

\* g puts the first n sequences of f together.
Joins(g, f, n) == g = [i \in 1 .. n |-> IF i = 1 THEN f[i] ELSE g[i - 1] \o f[i]]

LEMMA JoinsExist ==
    ASSUME NEW f, NEW n \in Nat
    PROVE  \E g : Joins(g, f, n)
  <1> DEFINE T == {m \in Nat : \E g : Joins(g, f, m)}
  <1>1. 0 \in T
    <2> DEFINE g == [i \in 1 .. 0 |-> 0]
    <2>1. Joins(g, f, 0)
      BY DEF Joins
    <2> QED BY <2>1
  <1>2. ASSUME NEW m \in Nat, m \in T
        PROVE  m + 1 \in T
    <2>1. PICK g : Joins(g, f, m)
      BY <1>2
    <2> DEFINE x == IF m + 1 = 1 THEN f[m + 1] ELSE g[m] \o f[m + 1]
               h == [i \in 1 .. m + 1 |-> IF i = m + 1 THEN x ELSE g[i]]
               e == [i \in 1 .. m + 1 |-> IF i = 1 THEN f[i] ELSE h[i - 1] \o f[i]]
    <2>2. \A i \in 1 .. m : g[i] = IF i = 1 THEN f[i] ELSE g[i - 1] \o f[i]
      BY <2>1 DEF Joins
    <2>3. ASSUME NEW i \in 1 .. m + 1
          PROVE  h[i] = e[i]
      <3>1. CASE i \in 1 .. m /\ i = 1
        BY <2>2, <3>1
      <3>2. CASE i \in 1 .. m /\ i # 1
        <4>1. i - 1 \in 1 .. m + 1 /\ i - 1 # m + 1 /\ i # m + 1
          BY <3>2
        <4>2. h[i - 1] = g[i - 1] /\ h[i] = g[i]
          BY <4>1
        <4> QED BY <2>2, <3>2, <4>2
      <3>3. CASE i = m + 1
        <4>1. h[i] = x
          BY <3>3
        <4>2. i # 1 => h[i - 1] = g[m]
          BY <3>3
        <4> QED BY <3>3, <4>1, <4>2
      <3> QED BY <3>1, <3>2, <3>3
    <2>4. h = e
      BY <2>3
    <2>5. Joins(h, f, m + 1)
      BY <2>4 DEF Joins
    <2> QED BY <2>5
  <1>3. Nat \subseteq T
    <2> HIDE DEF T
    <2> QED BY <1>1, <1>2, Induction
  <1> QED BY <1>3

Joined(f) == CHOOSE g : Joins(g, f, Len(f))

\* What FlattenSeq() computes on the way.
LEMMA JoinedRule ==
    ASSUME NEW f, Len(f) \in Nat
    PROVE  /\ \A i \in 1 .. Len(f) : Joined(f)[i] = IF i = 1 THEN f[i] ELSE Joined(f)[i - 1] \o f[i]
           /\ FlattenSeq(f) = IF Len(f) = 0 THEN f ELSE Joined(f)[Len(f)]
  <1>1. Joins(Joined(f), f, Len(f))
    BY JoinsExist DEF Joined
  <1>2. FlattenSeq(f) = IF Len(f) = 0 THEN f ELSE Joined(f)[Len(f)]
    BY DEF FlattenSeq, Joined, Joins
  <1> QED BY <1>1, <1>2 DEF Joins

\* Sequences of sequences that begin alike are put together alike.
LEMMA JoinedAlike ==
    ASSUME NEW f, NEW g, Len(f) \in Nat, Len(g) \in Nat, NEW n \in Nat \ {0},
           n <= Len(f), n <= Len(g), \A i \in 1 .. n : f[i] = g[i]
    PROVE  Joined(f)[n] = Joined(g)[n]
  <1> DEFINE T == {m \in Nat : 0 < m /\ m <= n => Joined(f)[m] = Joined(g)[m]}
  <1>1. 0 \in T
    OBVIOUS
  <1>2. ASSUME NEW m \in Nat, m \in T
        PROVE  m + 1 \in T
    <2> SUFFICES ASSUME m + 1 <= n PROVE Joined(f)[m + 1] = Joined(g)[m + 1]
      OBVIOUS
    <2>1. m + 1 \in 1 .. Len(f) /\ m + 1 \in 1 .. Len(g) /\ m + 1 \in 1 .. n /\ (m + 1) - 1 = m
      OBVIOUS
    <2>2. f[m + 1] = g[m + 1]
      BY <2>1
    <2>3. CASE m = 0
      <3>1. m + 1 = 1
        BY <2>3
      <3> QED BY <2>1, <2>2, <3>1, JoinedRule
    <2>4. CASE m # 0
      <3>1. m + 1 # 1 /\ Joined(f)[m] = Joined(g)[m]
        BY <1>2, <2>4
      <3> QED BY <2>1, <2>2, <3>1, JoinedRule
    <2> QED BY <2>3, <2>4
  <1>3. Nat \subseteq T
    <2> HIDE DEF T
    <2> QED BY <1>1, <1>2, Induction
  <1> QED BY <1>3

LEMMA FlattenEmpty == FlattenSeq(<< >>) = << >>
  <1>1. Len(<< >>) = 0
    OBVIOUS
  <1> QED BY <1>1, JoinedRule

LEMMA FlattenAppend ==
    ASSUME NEW E, NEW f \in Seq(Seq(E)), NEW s \in Seq(E)
    PROVE  FlattenSeq(Append(f, s)) = FlattenSeq(f) \o s
  <1> DEFINE g == Append(f, s)
             n == Len(f)
  <1>1. /\ n \in Nat /\ n = Len(f) /\ Len(g) = n + 1 /\ g[n + 1] = s
        /\ \A i \in 1 .. n : f[i] = g[i]
    BY AppendProperties, LenProperties
  <1> HIDE DEF g, n
  <1>2. CASE n = 0
    <2>1. f = << >> /\ Len(g) = 1 /\ g[1] = s
      <3>1. f = << >>
        BY <1>1, <1>2, EmptySeq
      <3>2. n + 1 = 1
        BY <1>2
      <3> QED BY <1>1, <3>1, <3>2
    <2>2. FlattenSeq(f) \o s = s
      BY <2>1, FlattenEmpty, ConcatEmptySeq
    <2>3. FlattenSeq(g) = Joined(g)[1] /\ Joined(g)[1] = g[1]
      <3>1. Len(g) \in Nat /\ Len(g) # 0 /\ 1 \in 1 .. Len(g)
        BY <2>1
      <3> QED BY <2>1, <3>1, JoinedRule
    <2> QED BY <2>1, <2>2, <2>3 DEF g
  <1>3. CASE n # 0
    <2>1. Joined(f)[n] = Joined(g)[n]
      <3>1. n \in Nat \ {0} /\ n <= Len(f) /\ n <= Len(g) /\ Len(f) \in Nat /\ Len(g) \in Nat
        BY <1>1, <1>3
      <3> QED BY <1>1, <3>1, JoinedAlike
    <2>2. FlattenSeq(g) = Joined(g)[n + 1] /\ Joined(g)[n + 1] = Joined(g)[n] \o s
      <3>1. n + 1 \in 1 .. Len(g) /\ n + 1 # 1 /\ (n + 1) - 1 = n /\ Len(g) # 0 /\ Len(g) \in Nat
        BY <1>1, <1>3
      <3>2. FlattenSeq(g) = Joined(g)[Len(g)]
        BY <3>1, JoinedRule
      <3>3. \A i \in 1 .. Len(g) : i # 1 => Joined(g)[i] = Joined(g)[i - 1] \o g[i]
        BY <3>1, JoinedRule
      <3>4. Joined(g)[n + 1] = Joined(g)[(n + 1) - 1] \o g[n + 1]
        BY <3>1, <3>3
      <3> QED BY <1>1, <3>1, <3>2, <3>4
    <2>3. FlattenSeq(f) = Joined(f)[n]
      BY <1>1, <1>3, JoinedRule
    <2> QED BY <2>1, <2>2, <2>3 DEF g
  <1> QED BY <1>2, <1>3

\* Induction over the length of a sequence, over a set of them.
LEMMA SequenceInduction ==
    ASSUME NEW S, NEW T, << >> \in T,
           \A s \in Seq(S), e \in S : s \in T => Append(s, e) \in T
    PROVE  Seq(S) \subseteq T
  <1> DEFINE N == {n \in Nat : \A s \in Seq(S) : Len(s) = n => s \in T}
  <1>1. 0 \in N
    BY EmptySeq
  <1>2. ASSUME NEW n \in Nat, n \in N
        PROVE  n + 1 \in N
    <2> SUFFICES ASSUME NEW s \in Seq(S), Len(s) = n + 1 PROVE s \in T
      OBVIOUS
    <2>1. s # << >>
      BY EmptySeq
    <2>2. PICK t \in Seq(S), e \in S : s = Append(t, e)
      BY <2>1, SequenceEmptyOrAppend
    <2>3. Len(t) = n
      BY <2>2, AppendProperties, LenProperties
    <2> QED BY <1>2, <2>2, <2>3
  <1>3. Nat \subseteq N
    <2> HIDE DEF N
    <2> QED BY <1>1, <1>2, Induction
  <1> QED BY <1>3, LenProperties

LEMMA FlattenType ==
    ASSUME NEW E, NEW f \in Seq(Seq(E))
    PROVE  FlattenSeq(f) \in Seq(E)
  <1> DEFINE T == {g \in Seq(Seq(E)) : FlattenSeq(g) \in Seq(E)}
  <1>1. << >> \in T
    BY FlattenEmpty, EmptySeq
  <1>2. \A g \in Seq(Seq(E)), s \in Seq(E) : g \in T => Append(g, s) \in T
    BY FlattenAppend, ConcatProperties, AppendProperties
  <1>3. Seq(Seq(E)) \subseteq T
    <2> HIDE DEF T
    <2> QED BY <1>1, <1>2, SequenceInduction
  <1> QED BY <1>3

LEMMA FlattenConcat ==
    ASSUME NEW E, NEW f \in Seq(Seq(E)), NEW g \in Seq(Seq(E))
    PROVE  FlattenSeq(f \o g) = FlattenSeq(f) \o FlattenSeq(g)
  <1> DEFINE T == {h \in Seq(Seq(E)) : FlattenSeq(f \o h) = FlattenSeq(f) \o FlattenSeq(h)}
  <1>1. << >> \in T
    BY FlattenEmpty, FlattenType, EmptySeq, ConcatEmptySeq
  <1>2. ASSUME NEW h \in Seq(Seq(E)), NEW s \in Seq(E), h \in T
        PROVE  Append(h, s) \in T
    <2>1. Append(h, s) \in Seq(Seq(E)) /\ f \o h \in Seq(Seq(E))
      BY AppendProperties, ConcatProperties
    <2>2. f \o Append(h, s) = Append(f \o h, s)
      <3>1. <<s>> \in Seq(Seq(E))
        OBVIOUS
      <3>2. Append(h, s) = h \o <<s>> /\ Append(f \o h, s) = (f \o h) \o <<s>>
        BY <2>1, AppendIsConcat
      <3>3. (f \o h) \o <<s>> = f \o (h \o <<s>>)
        BY <3>1, ConcatAssociative, SMTT(20)
      <3> QED BY <3>2, <3>3
    <2>3. FlattenSeq(Append(f \o h, s)) = FlattenSeq(f \o h) \o s
      BY <2>1, FlattenAppend
    <2>4. FlattenSeq(Append(h, s)) = FlattenSeq(h) \o s
      BY FlattenAppend
    <2>5. FlattenSeq(f \o h) = FlattenSeq(f) \o FlattenSeq(h)
      BY <1>2
    <2>6. (FlattenSeq(f) \o FlattenSeq(h)) \o s = FlattenSeq(f) \o (FlattenSeq(h) \o s)
      <3>1. FlattenSeq(f) \in Seq(E) /\ FlattenSeq(h) \in Seq(E)
        BY FlattenType
      <3> QED BY <3>1, ConcatAssociative
    <2> QED BY <2>1, <2>2, <2>3, <2>4, <2>5, <2>6
  <1>3. Seq(Seq(E)) \subseteq T
    <2> HIDE DEF T
    <2> QED BY <1>1, <1>2, SequenceInduction
  <1> QED BY <1>3
-----------------------------------------------------------------------------
(***************************************************************************)
(* The entries of a list of chunks                                          *)
(***************************************************************************)
Hold(heap, list, E) ==
    /\ list \in Seq(ChunkIds)
    /\ \A c \in Elements(list) : heap[c].entries \in Seq(E)

EntrySeqs(heap, list) == [k \in 1 .. Len(list) |-> heap[list[k]].entries]

LEMMA EntrySeqsType ==
    ASSUME NEW E, NEW heap, NEW list, Hold(heap, list, E)
    PROVE  /\ EntrySeqs(heap, list) \in Seq(Seq(E))
           /\ Len(EntrySeqs(heap, list)) = Len(list)
           /\ Len(list) \in Nat
           /\ \A k \in 1 .. Len(list) : EntrySeqs(heap, list)[k] = heap[list[k]].entries
           /\ EntriesIn(heap, list) = FlattenSeq(EntrySeqs(heap, list))
  <1>1. Len(list) \in Nat
    BY LenProperties DEF Hold
  <1>2. \A k \in 1 .. Len(list) : heap[list[k]].entries \in Seq(E)
    BY DEF Hold, Elements
  <1> QED BY <1>1, <1>2 DEF EntrySeqs, EntriesIn

LEMMA EntriesType ==
    ASSUME NEW E, NEW heap, NEW list, Hold(heap, list, E)
    PROVE  EntriesIn(heap, list) \in Seq(E)
  BY EntrySeqsType, FlattenType

LEMMA EntriesOfNone ==
    ASSUME NEW heap
    PROVE  EntriesIn(heap, << >>) = << >>
  <1>1. EntrySeqs(heap, << >>) = << >>
    BY DEF EntrySeqs
  <1>2. EntriesIn(heap, << >>) = FlattenSeq(EntrySeqs(heap, << >>))
    BY DEF EntriesIn, EntrySeqs
  <1> QED BY <1>1, <1>2, FlattenEmpty

LEMMA EntriesAlike ==
    ASSUME NEW heap, NEW left, NEW list, \A c \in Elements(list) : left[c].entries = heap[c].entries
    PROVE  EntriesIn(left, list) = EntriesIn(heap, list)
  <1>1. \A k \in 1 .. Len(list) : left[list[k]].entries = heap[list[k]].entries
    BY DEF Elements
  <1>2. EntrySeqs(left, list) = EntrySeqs(heap, list)
    BY <1>1 DEF EntrySeqs
  <1> QED BY <1>2 DEF EntriesIn, EntrySeqs

\* The entries of list are those of a, then those of b.
IsMadeOf(heap, list, a, b) == EntriesIn(heap, list) = EntriesIn(heap, a) \o EntriesIn(heap, b)

\* A list that is put together of two.
LEMMA EntriesConcat ==
    ASSUME NEW E, NEW heap, NEW a, NEW b, Hold(heap, a, E), Hold(heap, b, E)
    PROVE  Hold(heap, a \o b, E) /\ IsMadeOf(heap, a \o b, a, b)
  <1> DEFINE list == a \o b
  <1>1. /\ list \in Seq(ChunkIds) /\ Len(list) = Len(a) + Len(b)
        /\ Len(a) \in Nat /\ Len(b) \in Nat
        /\ \A k \in 1 .. Len(list) : list[k] = IF k <= Len(a) THEN a[k] ELSE b[k - Len(a)]
    BY ConcatProperties, LenProperties DEF Hold
  <1> HIDE DEF list
  <1>2. ASSUME NEW k \in 1 .. Len(list)
        PROVE  list[k] \in Elements(a) \cup Elements(b)
    <2>1. CASE k <= Len(a)
      BY <1>1, <2>1 DEF Elements
    <2>2. CASE ~(k <= Len(a))
      <3>1. k - Len(a) \in 1 .. Len(b) /\ list[k] = b[k - Len(a)]
        BY <1>1, <2>2
      <3> QED BY <3>1 DEF Elements
    <2> QED BY <2>1, <2>2
  <1>3. Hold(heap, list, E)
    BY <1>1, <1>2 DEF Hold, Elements
  <1> DEFINE f == EntrySeqs(heap, a)
             g == EntrySeqs(heap, b)
             h == EntrySeqs(heap, list)
  <1>4. /\ f \in Seq(Seq(E)) /\ g \in Seq(Seq(E)) /\ h \in Seq(Seq(E))
        /\ Len(f) = Len(a) /\ Len(g) = Len(b) /\ Len(h) = Len(list)
        /\ \A k \in 1 .. Len(a) : f[k] = heap[a[k]].entries
        /\ \A k \in 1 .. Len(b) : g[k] = heap[b[k]].entries
        /\ \A k \in 1 .. Len(list) : h[k] = heap[list[k]].entries
        /\ EntriesIn(heap, a) = FlattenSeq(f) /\ EntriesIn(heap, b) = FlattenSeq(g)
        /\ EntriesIn(heap, list) = FlattenSeq(h)
    <2>1. ASSUME NEW l, Hold(heap, l, E)
          PROVE  /\ EntrySeqs(heap, l) \in Seq(Seq(E)) /\ Len(EntrySeqs(heap, l)) = Len(l)
                 /\ \A k \in 1 .. Len(l) : EntrySeqs(heap, l)[k] = heap[l[k]].entries
                 /\ EntriesIn(heap, l) = FlattenSeq(EntrySeqs(heap, l))
      BY <2>1, EntrySeqsType
    <2> QED BY <1>3, <2>1, Zenon
  <1> HIDE DEF f, g, h
  <1>5. h = f \o g
    <2>1. /\ f \o g \in Seq(Seq(E)) /\ Len(f \o g) = Len(h)
          /\ \A k \in 1 .. Len(h) : (f \o g)[k] = IF k <= Len(f) THEN f[k] ELSE g[k - Len(f)]
      <3>1. /\ f \o g \in Seq(Seq(E)) /\ Len(f \o g) = Len(f) + Len(g)
            /\ \A k \in 1 .. Len(f) + Len(g) :
                  (f \o g)[k] = IF k <= Len(f) THEN f[k] ELSE g[k - Len(f)]
        <4>1. f \in Seq(Seq(E)) /\ g \in Seq(Seq(E))
          BY <1>4
        <4> QED BY <4>1, ConcatProperties
      <3>2. Len(h) = Len(f) + Len(g)
        BY <1>1, <1>4
      <3> QED BY <3>1, <3>2
    <2>2. ASSUME NEW k \in 1 .. Len(h)
          PROVE  h[k] = (f \o g)[k]
      <3>1. CASE k <= Len(f)
        <4>1. k \in 1 .. Len(a) /\ list[k] = a[k] /\ k \in 1 .. Len(list)
          BY <1>1, <1>4, <3>1
        <4>2. (f \o g)[k] = f[k]
          BY <2>1, <3>1
        <4> QED BY <1>4, <4>1, <4>2
      <3>2. CASE ~(k <= Len(f))
        <4>1. k - Len(a) \in 1 .. Len(b) /\ list[k] = b[k - Len(a)]
          <5>1. k \in 1 .. Len(list) /\ ~(k <= Len(a))
            BY <1>4, <3>2
          <5> QED BY <1>1, <5>1
        <4> QED BY <1>4, <2>1, <3>2, <4>1
      <3> QED BY <3>1, <3>2
    <2> QED BY <1>4, <2>1, <2>2, SeqEqual
  <1>6. FlattenSeq(h) = FlattenSeq(f) \o FlattenSeq(g)
    BY <1>4, <1>5, FlattenConcat
  <1> QED BY <1>3, <1>4, <1>6, Zenon DEF list, IsMadeOf

LEMMA EntriesOfOne ==
    ASSUME NEW E, NEW heap, NEW c \in ChunkIds, heap[c].entries \in Seq(E)
    PROVE  Hold(heap, <<c>>, E) /\ EntriesIn(heap, <<c>>) = heap[c].entries
  <1>1. Hold(heap, <<c>>, E)
    BY DEF Hold, Elements
  <1>2. << >> \in Seq(Seq(E)) /\ EntrySeqs(heap, <<c>>) = Append(<< >>, heap[c].entries)
    BY DEF EntrySeqs
  <1>3. FlattenSeq(Append(<< >>, heap[c].entries)) = FlattenSeq(<< >>) \o heap[c].entries
    BY <1>2, FlattenAppend
  <1>4. << >> \o heap[c].entries = heap[c].entries
    BY ConcatEmptySeq
  <1>5. EntriesIn(heap, <<c>>) = FlattenSeq(EntrySeqs(heap, <<c>>))
    BY DEF EntriesIn, EntrySeqs
  <1> QED BY <1>1, <1>2, <1>3, <1>4, <1>5, FlattenEmpty, Zenon

LEMMA EntriesAppend ==
    ASSUME NEW E, NEW heap, NEW list, Hold(heap, list, E),
           NEW c \in ChunkIds, heap[c].entries \in Seq(E)
    PROVE  /\ Hold(heap, Append(list, c), E)
           /\ EntriesIn(heap, Append(list, c)) = EntriesIn(heap, list) \o heap[c].entries
  <1>1. Append(list, c) = list \o <<c>>
    BY AppendIsConcat DEF Hold
  <1>2. Hold(heap, <<c>>, E) /\ EntriesIn(heap, <<c>>) = heap[c].entries
    BY EntriesOfOne
  <1> DEFINE one == <<c>>
             longer == Append(list, c)
  <1>3. longer = list \o one /\ Hold(heap, one, E) /\ EntriesIn(heap, one) = heap[c].entries
    BY <1>1, <1>2
  <1> HIDE DEF one, longer
  <1>4. /\ Hold(heap, longer, E)
        /\ EntriesIn(heap, longer) = EntriesIn(heap, list) \o EntriesIn(heap, one)
    <2>1. Hold(heap, one, E)
      BY <1>3
    <2>2. Hold(heap, list \o one, E) /\ IsMadeOf(heap, list \o one, list, one)
      BY <2>1, EntriesConcat
    <2> QED BY <1>3, <2>2, Zenon DEF IsMadeOf
  <1> QED BY <1>3, <1>4, Zenon DEF longer

\* The first n chunks of a list, and the others.
LEMMA EntriesSplit ==
    ASSUME NEW E, NEW heap, NEW list, Hold(heap, list, E), NEW n \in 0 .. Len(list)
    PROVE  /\ Hold(heap, SubSeq(list, 1, n), E) /\ Hold(heap, Unpruned(list, n), E)
           /\ EntriesIn(heap, list)
                 = EntriesIn(heap, SubSeq(list, 1, n)) \o EntriesIn(heap, Unpruned(list, n))
  <1> DEFINE a == SubSeq(list, 1, n)
             b == SubSeq(list, n + 1, Len(list))
  <1>1. list \in Seq(ChunkIds) /\ Len(list) \in Nat
    BY LenProperties DEF Hold
  <1>2. /\ a \in Seq(ChunkIds) /\ Len(a) = n
        /\ \A k \in 1 .. n : a[k] = list[k]
    BY <1>1
  <1>3. /\ b \in Seq(ChunkIds) /\ Len(b) = Len(list) - n
        /\ \A k \in 1 .. Len(list) - n : b[k] = list[n + k]
    BY <1>1
  <1>4. list = a \o b
    <2>1. /\ 1 \in 1 .. Len(list) + 1 /\ n \in 1 - 1 .. Len(list) /\ Len(list) \in n .. Len(list)
      BY <1>1
    <2>2. a \o b = SubSeq(list, 1, Len(list))
      BY <1>1, <2>1, ConcatAdjacentSubSeq
    <2> QED BY <1>1, <2>2, SubSeqFull
  <1> HIDE DEF a, b
  <1>5. Elements(a) \subseteq Elements(list)
    BY <1>1, <1>2 DEF Elements
  <1>6. Elements(b) \subseteq Elements(list)
    <2> SUFFICES ASSUME NEW k \in 1 .. Len(b) PROVE b[k] \in Elements(list)
      BY DEF Elements
    <2>1. n + k \in 1 .. Len(list) /\ b[k] = list[n + k]
      BY <1>1, <1>3
    <2> QED BY <2>1 DEF Elements
  <1>7. Hold(heap, a, E) /\ Hold(heap, b, E)
    BY <1>2, <1>3, <1>5, <1>6 DEF Hold
  <1>8. EntriesIn(heap, list) = EntriesIn(heap, a) \o EntriesIn(heap, b)
    <2>1. IsMadeOf(heap, a \o b, a, b)
      BY <1>7, EntriesConcat
    <2> QED BY <1>4, <2>1, Zenon DEF IsMadeOf
  <1> QED BY <1>7, <1>8, Zenon DEF a, b, Unpruned

LEMMA EntriesHead ==
    ASSUME NEW E, NEW heap, NEW list, Hold(heap, list, E), list # << >>
    PROVE  /\ Hold(heap, Tail(list), E)
           /\ heap[Head(list)].entries \in Seq(E)
           /\ EntriesIn(heap, list) = heap[Head(list)].entries \o EntriesIn(heap, Tail(list))
  <1>1. list \in Seq(ChunkIds) /\ Len(list) \in Nat \ {0} /\ 1 \in 0 .. Len(list)
    BY EmptySeq DEF Hold
  <1>2. Head(list) = list[1] /\ Head(list) \in ChunkIds
    BY <1>1, HeadTailProperties
  <1>3. heap[Head(list)].entries \in Seq(E)
    BY <1>1, <1>2 DEF Hold, Elements
  <1>4. Tail(list) = Unpruned(list, 1)
    BY <1>1, TailIsSubSeq DEF Unpruned
  <1>5. SubSeq(list, 1, 1) = <<Head(list)>>
    <2>1. /\ SubSeq(list, 1, 1) \in Seq(ChunkIds) /\ Len(SubSeq(list, 1, 1)) = 1
          /\ SubSeq(list, 1, 1)[1] = list[1]
      BY <1>1
    <2> DEFINE one == <<Head(list)>>
    <2>2. one \in Seq(ChunkIds) /\ Len(one) = 1 /\ one[1] = list[1]
      BY <1>2
    <2> HIDE DEF one
    <2>3. SubSeq(list, 1, 1) = one
      BY <2>1, <2>2, SeqEqual
    <2> QED BY <2>3 DEF one
  <1>6. EntriesIn(heap, <<Head(list)>>) = heap[Head(list)].entries
    BY <1>2, <1>3, EntriesOfOne
  <1>7. ASSUME NEW n \in 0 .. Len(list)
        PROVE  /\ Hold(heap, Unpruned(list, n), E)
               /\ EntriesIn(heap, list)
                     = EntriesIn(heap, SubSeq(list, 1, n)) \o EntriesIn(heap, Unpruned(list, n))
    BY EntriesSplit
  <1> QED BY <1>1, <1>3, <1>4, <1>5, <1>6, <1>7, Zenon

\* An entry of a chunk is one of the list.
LEMMA EntryIsInList ==
    ASSUME NEW E, NEW heap, NEW list, Hold(heap, list, E), NEW c \in Elements(list),
           NEW k \in 1 .. Len(heap[c].entries)
    PROVE  \E m \in 1 .. Len(EntriesIn(heap, list)) :
              EntriesIn(heap, list)[m] = heap[c].entries[k]
  <1>1. PICK n \in 1 .. Len(list) : list[n] = c
    BY DEF Elements
  <1>2. Len(list) \in Nat /\ n - 1 \in 0 .. Len(list) /\ list \in Seq(ChunkIds)
    BY LenProperties DEF Hold
  <1> DEFINE p == n - 1
             a == EntriesIn(heap, SubSeq(list, 1, p))
             rest == Unpruned(list, p)
             b == EntriesIn(heap, rest)
             s == heap[c].entries
             d == EntriesIn(heap, Tail(rest))
  <1>3. p \in 0 .. Len(list) /\ p + 1 = n
    BY <1>2
  <1>4. rest \in Seq(ChunkIds) /\ rest # << >> /\ Head(rest) = c
    <2>1. rest = SubSeq(list, n, Len(list)) /\ n \in 1 .. Len(list) /\ Len(list) \in n .. Len(list)
      BY <1>2, <1>3 DEF Unpruned
    <2>2. Head(SubSeq(list, n, Len(list))) = list[n]
      BY <1>2, <2>1, HeadTailOfSubSeq
    <2>3. rest \in Seq(ChunkIds) /\ Len(rest) > 0
      <3>1. \A m \in n .. Len(list) : list[m] \in ChunkIds
        BY <1>2, <2>1, ElementOfSeq
      <3>2. /\ SubSeq(list, n, Len(list)) \in Seq(ChunkIds)
            /\ Len(SubSeq(list, n, Len(list))) = Len(list) - n + 1
        BY <1>2, <2>1, <3>1, SubSeqProperties
      <3>3. Len(list) - n + 1 > 0
        BY <1>2, <2>1
      <3> QED BY <2>1, <3>2, <3>3, Zenon
    <2> QED BY <1>1, <2>1, <2>2, <2>3
  <1> HIDE DEF p
  <1>5. /\ EntriesIn(heap, list) = a \o b /\ Hold(heap, rest, E)
        /\ a \in Seq(E) /\ b \in Seq(E)
    BY <1>3, EntriesSplit, EntriesType
  <1> HIDE DEF rest, a
  <1>6. b = s \o d /\ s \in Seq(E) /\ d \in Seq(E)
    BY <1>4, <1>5, EntriesHead, EntriesType
  <1> HIDE DEF b, d
  <1>7. /\ Len(a) \in Nat /\ Len(s) \in Nat /\ Len(d) \in Nat /\ Len(b) = Len(s) + Len(d)
        /\ b[k] = s[k]
    BY <1>5, <1>6, ConcatProperties, LenProperties
  <1>8. /\ Len(a) + k \in 1 .. Len(a) + Len(b) /\ ~(Len(a) + k <= Len(a))
        /\ (Len(a) + k) - Len(a) = k
    BY <1>7
  <1>9. (a \o b)[Len(a) + k] = b[k] /\ Len(a \o b) = Len(a) + Len(b)
    BY <1>5, <1>8, ConcatProperties
  <1> QED BY <1>5, <1>7, <1>8, <1>9

-----------------------------------------------------------------------------
(***************************************************************************)
(* LogToLogBuffer() puts the entry behind those of the list, and leaves the *)
(* chunks of the other lists alone.                                         *)
(***************************************************************************)
Appends(heap, list, entry, logged, E) ==
    /\ Hold(logged.heap, logged.list, E)
    /\ EntriesIn(logged.heap, logged.list) = Append(EntriesIn(heap, list), entry)
    /\ DOMAIN logged.heap = (DOMAIN heap) \cup Elements(logged.list)
    /\ \A c \in (DOMAIN heap) \ Elements(list) : /\ c \notin Elements(logged.list)
                                                 /\ logged.heap[c].entries = heap[c].entries

LEMMA LastIsApart ==
    ASSUME NEW list \in Seq(ChunkIds), list # << >>, Distinct(list)
    PROVE  \E front \in Seq(ChunkIds) :
              /\ list = Append(front, list[Len(list)])
              /\ Elements(front) = Elements(list) \ {list[Len(list)]}
  <1>1. PICK front \in Seq(ChunkIds), x \in ChunkIds : list = Append(front, x)
    BY SequenceEmptyOrAppend
  <1>2. /\ Len(front) \in Nat /\ Len(list) = Len(front) + 1
        /\ \A k \in 1 .. Len(front) : list[k] = front[k]
        /\ list[Len(front) + 1] = x
    BY <1>1, AppendProperties, LenProperties
  <1>3. list[Len(list)] = x
    BY <1>2
  <1>4. x \notin Elements(front)
    <2> SUFFICES ASSUME NEW k \in 1 .. Len(front), front[k] = x PROVE FALSE
      BY DEF Elements
    <2>1. k \in 1 .. Len(list) /\ Len(front) + 1 \in 1 .. Len(list) /\ k # Len(front) + 1
      BY <1>2
    <2> QED BY <1>2, <2>1 DEF Distinct
  <1>5. Elements(list) = Elements(front) \cup {x}
    BY <1>2 DEF Elements
  <1> QED BY <1>1, <1>3, <1>4, <1>5

LEMMA LogAppends ==
    ASSUME NEW heap, IsHeap(heap), NEW list, IsListIn(list, heap), Distinct(list),
           NEW E, Hold(heap, list, E), NEW entry \in E,
           NEW size, NEW zsize \in ZSizes(heap, list, entry),
           NeedsChunk(heap, list, entry) => CanAllocate(heap),
           NEW logged, logged = LogToLogBuffer(heap, list, size, entry, zsize)
    PROVE  Appends(heap, list, entry, logged, E)
  <1> DEFINE last == list[Len(list)]
             new == FreshChunk(heap)
             after == logged.heap
             old == EntriesIn(heap, list)
  <1>1. list \in Seq(ChunkIds) /\ Elements(list) \subseteq DOMAIN heap
    BY DEF IsListIn
  <1>2. \/ LogsIntoLast(heap, list, entry, logged)
        \/ LogsIntoNew(heap, list, size, entry, zsize, logged, new)
    BY <1>1, LogToLogBufferCases
  <1>3. list # << >> => last \in Elements(list) /\ last \in DOMAIN heap
    BY <1>1, LastElement
  <1>4. \A c \in DOMAIN heap : heap[c] \in Chunk
    BY DEF IsHeap
  <1>5. old \in Seq(E)
    BY EntriesType
  <1> HIDE DEF old
  <1>6. CASE LogsIntoLast(heap, list, entry, logged)
    <2>1. /\ list # << >> /\ logged.list = list /\ DOMAIN after = DOMAIN heap
          /\ after[last] = LogEntry(heap[last], entry)
          /\ \A c \in (DOMAIN heap) \ {last} : after[c] = heap[c]
      BY <1>6 DEF LogsIntoLast
    <2>2. PICK front \in Seq(ChunkIds) : /\ list = Append(front, last)
                                         /\ Elements(front) = Elements(list) \ {last}
      BY <1>1, <2>1, LastIsApart
    <2> DEFINE s == heap[last].entries
    <2>3. s \in Seq(E) /\ last \in ChunkIds
      <3>1. last \in Elements(list)
        BY <1>3, <2>1
      <3>2. last \in ChunkIds
        BY <1>1, <3>1, ElementOfSeq DEF Elements
      <3> QED BY <3>1, <3>2 DEF Hold
    <2>4. after[last].entries = Append(s, entry)
      <3>1. heap[last] \in Chunk
        BY <1>3, <1>4, <2>1
      <3> QED BY <2>1, <3>1 DEF LogEntry, Chunk
    <2> HIDE DEF s
    <2>5. Append(s, entry) \in Seq(E)
      BY <2>3, AppendProperties
    <2>6. \A c \in Elements(front) : after[c].entries = heap[c].entries
      BY <1>1, <2>1, <2>2
    <2>7. Hold(heap, front, E) /\ Hold(after, front, E)
      BY <2>2, <2>6 DEF Hold
    <2> HIDE DEF last, after
    <2>8. old = EntriesIn(heap, front) \o s
      <3>1. heap[last].entries \in Seq(E)
        BY <2>3 DEF s
      <3>2. EntriesIn(heap, Append(front, last)) = EntriesIn(heap, front) \o heap[last].entries
        BY <2>3, <2>7, <3>1, EntriesAppend
      <3> QED BY <2>2, <3>2 DEF s, old
    <2>9. /\ Hold(after, list, E)
          /\ EntriesIn(after, list) = EntriesIn(after, front) \o Append(s, entry)
      <3>1. after[last].entries \in Seq(E)
        BY <2>4, <2>5
      <3>2. /\ Hold(after, Append(front, last), E)
            /\ EntriesIn(after, Append(front, last)) = EntriesIn(after, front) \o after[last].entries
        BY <2>3, <2>7, <3>1, EntriesAppend
      <3> QED BY <2>2, <2>4, <3>2
    <2>10. EntriesIn(after, front) = EntriesIn(heap, front) /\ EntriesIn(heap, front) \in Seq(E)
      BY <2>6, <2>7, EntriesAlike, EntriesType
    <2>11. ASSUME NEW a \in Seq(E)
           PROVE  a \o Append(s, entry) = Append(a \o s, entry)
      BY <2>3, <2>11
    <2>12. EntriesIn(after, list) = Append(old, entry)
      BY <2>8, <2>9, <2>10, <2>11
    <2>13. \A c \in (DOMAIN heap) \ Elements(list) : after[c].entries = heap[c].entries
      BY <1>3, <2>1 DEF after
    <2> QED BY <1>1, <2>1, <2>9, <2>12, <2>13 DEF Appends, after, old
  <1>7. CASE LogsIntoNew(heap, list, size, entry, zsize, logged, new)
    <2>1. /\ new \in ChunkIds \ DOMAIN heap /\ logged.list = Append(list, new)
          /\ DOMAIN after = (DOMAIN heap) \cup {new}
          /\ after[new] = LogEntry(NewChunk(size \div kChunkSizeDivisor), entry)
          /\ list # << >> => after[last] = FinishWriting(heap[last], zsize)
          /\ \A c \in DOMAIN heap : list = << >> \/ c # last => after[c] = heap[c]
      BY <1>7 DEF LogsIntoNew
    <2>2. after[new].entries = <<entry>> /\ <<entry>> \in Seq(E)
      <3>1. after[new].entries = Append(<< >>, entry)
        BY <2>1 DEF LogEntry, NewChunk
      <3> QED BY <3>1
    <2>3. \A c \in DOMAIN heap : after[c].entries = heap[c].entries
      <3>1. list # << >> => after[last].entries = heap[last].entries
        BY <1>3, <1>4, <2>1 DEF FinishWriting, Chunk
      <3> QED BY <2>1, <3>1
    <2> HIDE DEF last, after, new
    <2>4. Hold(after, list, E) /\ EntriesIn(after, list) = old
      <3>1. \A c \in Elements(list) : after[c].entries = heap[c].entries
        BY <1>1, <2>3
      <3> QED BY <3>1, EntriesAlike DEF Hold, old
    <2>5. /\ Hold(after, Append(list, new), E)
          /\ EntriesIn(after, Append(list, new)) = EntriesIn(after, list) \o after[new].entries
      <3>1. after[new].entries \in Seq(E) /\ new \in ChunkIds
        BY <2>1, <2>2
      <3> QED BY <2>4, <3>1, EntriesAppend
    <2>6. EntriesIn(after, Append(list, new)) = Append(old, entry)
      BY <1>5, <2>2, <2>4, <2>5, AppendIsConcat
    <2>7. Elements(Append(list, new)) = Elements(list) \cup {new}
      BY <1>1, <2>1, AppendElements
    <2> QED BY <1>1, <2>1, <2>3, <2>5, <2>6, <2>7 DEF Appends, after, old
  <1> QED BY <1>2, <1>6, <1>7

-----------------------------------------------------------------------------
(***************************************************************************)
(* What the steps do to the entries of a log, as sequences                  *)
(***************************************************************************)
LEMMA ConcatParts ==
    ASSUME NEW E, NEW a \in Seq(E), NEW b \in Seq(E)
    PROVE  /\ a \o b \in Seq(E) /\ Len(a \o b) = Len(a) + Len(b)
           /\ Len(a) \in Nat /\ Len(b) \in Nat
           /\ \A k \in 1 .. Len(a) : (a \o b)[k] = a[k]
           /\ \A k \in 1 .. Len(b) : (a \o b)[Len(a) + k] = b[k]
  <1>1. Len(a) \in Nat /\ Len(b) \in Nat
    BY LenProperties
  <1>2. /\ a \o b \in Seq(E) /\ Len(a \o b) = Len(a) + Len(b)
        /\ \A k \in 1 .. Len(a) + Len(b) : (a \o b)[k] = IF k <= Len(a) THEN a[k] ELSE b[k - Len(a)]
    BY ConcatProperties
  <1>3. ASSUME NEW k \in 1 .. Len(b)
        PROVE  (a \o b)[Len(a) + k] = b[k]
    <2>1. /\ Len(a) + k \in 1 .. Len(a) + Len(b) /\ ~(Len(a) + k <= Len(a))
          /\ (Len(a) + k) - Len(a) = k
      BY <1>1
    <2> QED BY <1>2, <2>1
  <1> QED BY <1>1, <1>2, <1>3

\* What is behind the first n entries.
LEMMA RestOf ==
    ASSUME NEW E, NEW s \in Seq(E), NEW n \in 0 .. Len(s)
    PROVE  /\ SubSeq(s, n + 1, Len(s)) \in Seq(E)
           /\ Len(SubSeq(s, n + 1, Len(s))) = Len(s) - n
           /\ \A k \in 1 .. Len(s) - n : SubSeq(s, n + 1, Len(s))[k] = s[n + k]
           /\ Len(s) \in Nat
  BY LenProperties, SubSeqProperties

LEMMA DropPrefix ==
    ASSUME NEW E, NEW a \in Seq(E), NEW b \in Seq(E)
    PROVE  SubSeq(a \o b, Len(a) + 1, Len(a \o b)) = b
  <1> DEFINE s == a \o b
             n == Len(a)
             rest == SubSeq(s, n + 1, Len(s))
  <1>1. /\ s \in Seq(E) /\ Len(s) = n + Len(b) /\ n \in Nat /\ Len(b) \in Nat
        /\ \A k \in 1 .. Len(b) : s[n + k] = b[k]
    BY ConcatParts
  <1> HIDE DEF s, n
  <1>2. n \in 0 .. Len(s) /\ Len(s) - n = Len(b)
    BY <1>1
  <1>3. /\ rest \in Seq(E) /\ Len(rest) = Len(b)
        /\ \A k \in 1 .. Len(b) : rest[k] = s[n + k]
    <2>1. s \in Seq(E)
      BY <1>1
    <2>2. /\ rest \in Seq(E) /\ Len(rest) = Len(s) - n
          /\ \A k \in 1 .. Len(s) - n : rest[k] = s[n + k]
      BY <1>2, <2>1, RestOf
    <2> QED BY <1>2, <2>2
  <1> HIDE DEF rest
  <1>4. rest = b
    BY <1>1, <1>3, SeqEqual
  <1> QED BY <1>4 DEF rest, s, n

\* Log() and MaybePrune(): of the entries and the new one, the first are pruned.
KeepsNew(old, entry, b) ==
    \E m \in 0 .. Len(old) : b = Append(SubSeq(old, m + 1, Len(old)), entry)

IsCut(s, old, entry, a, b) == s = Append(old, entry) /\ s = a \o b

LEMMA PrunedAppend ==
    ASSUME NEW E, NEW old \in Seq(E), NEW entry \in E, NEW a \in Seq(E), NEW b \in Seq(E),
           NEW s, IsCut(s, old, entry, a, b), b # << >>
    PROVE  KeepsNew(old, entry, b)
  <1> DEFINE n == Len(a)
             rest == SubSeq(old, n + 1, Len(old))
             c == Append(rest, entry)
  <1>1. /\ s \in Seq(E) /\ Len(s) = n + Len(b) /\ n \in Nat /\ Len(b) \in Nat
        /\ \A k \in 1 .. Len(b) : s[n + k] = b[k]
    <2>1. s = a \o b
      BY DEF IsCut
    <2> QED BY <2>1, ConcatParts
  <1>2. /\ Len(s) = Len(old) + 1 /\ Len(old) \in Nat
        /\ \A k \in 1 .. Len(old) : s[k] = old[k]
        /\ s[Len(old) + 1] = entry
    <2>1. s = Append(old, entry)
      BY DEF IsCut
    <2> QED BY <2>1, AppendProperties, LenProperties
  <1>3. Len(b) > 0
    BY <1>1, EmptySeq
  <1> HIDE DEF n
  <1>4. n \in 0 .. Len(old) /\ Len(b) = (Len(old) - n) + 1
    BY <1>1, <1>2, <1>3
  <1>5. /\ rest \in Seq(E) /\ Len(rest) = Len(old) - n
        /\ \A k \in 1 .. Len(old) - n : rest[k] = old[n + k]
    BY <1>4, RestOf
  <1> HIDE DEF rest
  <1>6. /\ c \in Seq(E) /\ Len(c) = Len(rest) + 1
        /\ \A k \in 1 .. Len(rest) : c[k] = rest[k]
        /\ c[Len(rest) + 1] = entry
    BY <1>5, AppendProperties
  <1> HIDE DEF c
  <1>7. ASSUME NEW k \in 1 .. Len(b)
        PROVE  b[k] = c[k]
    <2>1. b[k] = s[n + k]
      BY <1>1
    <2>2. CASE k = Len(b)
      <3>1. k = Len(rest) + 1 /\ n + k = Len(old) + 1
        BY <1>1, <1>2, <1>4, <1>5, <2>2
      <3> QED BY <1>2, <1>6, <2>1, <3>1
    <2>3. CASE k # Len(b)
      <3>1. k \in 1 .. Len(old) - n /\ n + k \in 1 .. Len(old) /\ k \in 1 .. Len(rest)
        <4> DEFINE x == Len(old)
                   y == Len(rest)
                   z == Len(b)
        <4>1. x \in Nat /\ n \in 0 .. x /\ y = x - n /\ z = (x - n) + 1 /\ k \in 1 .. z /\ k # z
          BY <1>2, <1>4, <1>5, <2>3
        <4> HIDE DEF x, y, z
        <4>2. k \in 1 .. x - n /\ n + k \in 1 .. x /\ k \in 1 .. y
          BY <4>1
        <4> QED BY <4>2 DEF x, y
      <3> QED BY <1>2, <1>5, <1>6, <2>1, <3>1
    <2> QED BY <2>2, <2>3
  <1>8. Len(c) = Len(b)
    BY <1>4, <1>5, <1>6
  <1>9. b = c
    BY <1>6, <1>7, <1>8, SeqEqual
  <1> QED BY <1>4, <1>9 DEF c, rest, KeepsNew

\* ClearLogsByUid() comes to entry n of the chunk it is in.
LEMMA NextToVisit ==
    ASSUME NEW E, NEW s \in Seq(E), NEW n \in 1 .. Len(s)
    PROVE  /\ SubSeq(s, n, Len(s)) = <<s[n]>> \o SubSeq(s, n + 1, Len(s))
           /\ SubSeq(s, n + 1, Len(s)) \in Seq(E) /\ s[n] \in E
  <1> DEFINE x == s[n]
             one == <<x>>
             rest == SubSeq(s, n + 1, Len(s))
             left == SubSeq(s, (n - 1) + 1, Len(s))
             both == one \o rest
  <1>1. Len(s) \in Nat /\ n \in 0 .. Len(s) /\ n - 1 \in 0 .. Len(s) /\ (n - 1) + 1 = n
    BY LenProperties
  <1>2. x \in E
    BY ElementOfSeq
  <1>3. one \in Seq(E) /\ Len(one) = 1 /\ one[1] = x
    BY <1>2
  <1>4. /\ rest \in Seq(E) /\ Len(rest) = Len(s) - n
        /\ \A k \in 1 .. Len(s) - n : rest[k] = s[n + k]
    BY <1>1, RestOf
  <1>5. /\ left \in Seq(E) /\ Len(left) = Len(s) - (n - 1)
        /\ \A k \in 1 .. Len(s) - (n - 1) : left[k] = s[(n - 1) + k]
    BY <1>1, RestOf
  <1> HIDE DEF one, rest, left
  <1>6. /\ both \in Seq(E) /\ Len(both) = Len(one) + Len(rest)
        /\ \A k \in 1 .. Len(one) : both[k] = one[k]
        /\ \A k \in 1 .. Len(rest) : both[Len(one) + k] = rest[k]
    <2>1. one \in Seq(E) /\ rest \in Seq(E)
      BY <1>3, <1>4
    <2> QED BY <2>1, ConcatParts
  <1> HIDE DEF both
  <1>7. ASSUME NEW k \in 1 .. Len(left)
        PROVE  left[k] = both[k]
    <2>1. CASE k = 1
      <3>1. left[1] = s[n]
        <4>1. 1 \in 1 .. Len(s) - (n - 1) /\ (n - 1) + 1 = n
          BY <1>1
        <4> QED BY <1>5, <4>1
      <3>2. both[1] = x
        BY <1>3, <1>6
      <3> QED BY <2>1, <3>1, <3>2
    <2>2. CASE k # 1
      <3>1. /\ k \in 1 .. Len(s) - (n - 1) /\ k - 1 \in 1 .. Len(s) - n /\ k - 1 \in 1 .. Len(rest)
            /\ (n - 1) + k = n + (k - 1) /\ Len(one) + (k - 1) = k
        BY <1>1, <1>3, <1>4, <1>5, <2>2
      <3>2. both[k] = rest[k - 1]
        BY <1>6, <3>1
      <3>3. rest[k - 1] = s[n + (k - 1)] /\ left[k] = s[(n - 1) + k]
        BY <1>4, <1>5, <3>1
      <3> QED BY <3>1, <3>2, <3>3
    <2> QED BY <2>1, <2>2
  <1>8. Len(left) = Len(both)
    BY <1>1, <1>3, <1>4, <1>5, <1>6
  <1>9. left = both
    BY <1>5, <1>6, <1>7, <1>8, SeqEqual
  <1>10. SubSeq(s, n, Len(s)) = both
    BY <1>1, <1>9 DEF left
  <1> QED BY <1>2, <1>4, <1>10 DEF both, one, rest

\* Taking the one between two sequences out.
IsBetween(a, x, b) ==
    LET s == a \o (<<x>> \o b)
        k == Len(a) + 1
    IN  /\ k \in 1 .. Len(s) /\ s[k] = x
        /\ SubSeq(s, 1, k - 1) \o SubSeq(s, k + 1, Len(s)) = a \o b
        /\ s = Append(a, x) \o b

LEMMA WithoutOne ==
    ASSUME NEW E, NEW a \in Seq(E), NEW x \in E, NEW b \in Seq(E)
    PROVE  IsBetween(a, x, b)
  <1> DEFINE one == <<x>>
             r == one \o b
             s == a \o r
             n == Len(a)
             k == n + 1
  <1>1. one \in Seq(E) /\ Len(one) = 1 /\ one[1] = x
    OBVIOUS
  <1>2. Append(a, x) = a \o one
    BY AppendIsConcat
  <1> HIDE DEF one
  <1>3. r \in Seq(E) /\ Len(r) = 1 + Len(b) /\ r[1] = x /\ Len(b) \in Nat
    BY <1>1, ConcatParts
  <1>4. s = (a \o one) \o b
    BY <1>1, ConcatAssociative
  <1>5. a \o one \in Seq(E) /\ Len(a \o one) = n + 1 /\ n \in Nat
    <2>1. one \in Seq(E)
      BY <1>1
    <2>2. a \o one \in Seq(E) /\ Len(a \o one) = Len(a) + Len(one) /\ Len(a) \in Nat
      BY <2>1, ConcatParts
    <2> QED BY <1>1, <2>2
  <1> DEFINE p == a \o one
  <1>6. SubSeq(p \o b, Len(p) + 1, Len(p \o b)) = b
    BY <1>5, DropPrefix
  <1>7. SubSeq(s, k + 1, Len(s)) = b
    BY <1>4, <1>5, <1>6
  <1> HIDE DEF r, p
  <1>8. /\ s \in Seq(E) /\ Len(s) = n + Len(r)
        /\ \A m \in 1 .. n : s[m] = a[m]
        /\ \A m \in 1 .. Len(r) : s[n + m] = r[m]
    <2>1. r \in Seq(E)
      BY <1>3
    <2> QED BY <2>1, ConcatParts
  <1> HIDE DEF s, n
  <1>9. k \in 1 .. Len(s) /\ s[k] = x
    <2>1. 1 \in 1 .. Len(r)
      BY <1>3
    <2>2. s[n + 1] = r[1]
      BY <1>8, <2>1
    <2> QED BY <1>3, <1>5, <1>8, <2>2
  <1>10. SubSeq(s, 1, k - 1) = a
    <2>1. k - 1 = n /\ n \in 0 .. Len(s)
      BY <1>3, <1>5, <1>8
    <2>2. /\ SubSeq(s, 1, n) \in Seq(E) /\ Len(SubSeq(s, 1, n)) = n
          /\ \A m \in 1 .. n : SubSeq(s, 1, n)[m] = s[m]
      BY <1>8, <2>1
    <2>3. SubSeq(s, 1, n) = a
      BY <1>8, <2>2, SeqEqual DEF n
    <2> QED BY <2>1, <2>3
  <1>11. s = Append(a, x) \o b
    BY <1>2, <1>4
  <1> QED BY <1>7, <1>9, <1>10, <1>11 DEF s, r, n, one, IsBetween

-----------------------------------------------------------------------------
(***************************************************************************)
(* The steps of the abstract log buffer                                     *)
(***************************************************************************)
AbstractStep == Abstract!LogNext \/ UNCHANGED Abstract!logVars

\* No reader is sent anything.
ReadersRest == AbstractTaken' = AbstractTaken /\ delivered' = delivered

LEMMA LogsMapped ==
    /\ DOMAIN AbstractLog = LogIds
    /\ \A i \in LogIds : AbstractLog[i] = LogOf(i)
  BY DEF AbstractLog

\* A step that is about log i.
LEMMA OneLogMapped ==
    ASSUME NEW i \in LogIds, NEW e, LogOf(i)' = e,
           Clearing => clear.log_id = i, Clearing' => clear'.log_id = i,
           \A j \in LogIds \ {i} :
              /\ logs'[j] = logs[j]
              /\ \A c \in Elements(logs[j]) : chunk'[c].entries = chunk[c].entries
    PROVE  /\ AbstractLog' = [AbstractLog EXCEPT ![i] = e]
           /\ e = LogOf(i) => AbstractLog' = AbstractLog
  <1>1. ASSUME NEW j \in LogIds \ {i}
        PROVE  LogOf(j)' = LogOf(j)
    <2>1. LogOf(j) = EntriesIn(chunk, logs[j])
      BY DEF LogOf
    <2>2. LogOf(j)' = EntriesIn(chunk', logs[j])
      BY DEF LogOf
    <2>3. EntriesIn(chunk', logs[j]) = EntriesIn(chunk, logs[j])
      BY EntriesAlike
    <2> QED BY <2>1, <2>2, <2>3
  <1>2. AbstractLog' = [j \in LogIds |-> LogOf(j)']
    BY DEF AbstractLog
  <1>3. \A j \in LogIds : AbstractLog'[j] = IF j = i THEN e ELSE LogOf(j)
    BY <1>1, <1>2
  <1>4. AbstractLog = [j \in LogIds |-> LogOf(j)]
    BY DEF AbstractLog
  <1> QED BY <1>2, <1>3, <1>4

LEMMA StutterStep ==
    ASSUME ReadersRest, AbstractLog' = AbstractLog, AbstractClearing' = AbstractClearing
    PROVE  AbstractStep
  BY DEF AbstractStep, ReadersRest, Abstract!logVars

LEMMA AppendStep ==
    ASSUME ReadersRest, ~Clearing, ~Clearing', NEW i \in LogIds, NEW entry \in EntryValues,
           NEW n \in 0 .. Len(LogOf(i)),
           AbstractLog' = [AbstractLog EXCEPT ![i] =
                              Append(SubSeq(LogOf(i), n + 1, Len(LogOf(i))), entry)]
    PROVE  AbstractStep
  <1>1. AbstractClearing = {} /\ AbstractClearing' = {}
    BY DEF AbstractClearing
  <1>2. AbstractLog[i] = LogOf(i)
    BY LogsMapped
  <1>3. AbstractLog' = [AbstractLog EXCEPT ![i] = Append(Abstract!DropOldest(@, n), entry)]
    BY <1>2 DEF Abstract!DropOldest
  <1>4. n \in 0 .. Len(AbstractLog[i])
    BY <1>2
  <1>5. Abstract!Append_(i)
    BY <1>1, <1>3, <1>4 DEF Abstract!Append_, ReadersRest
  <1> QED BY <1>5 DEF AbstractStep, Abstract!LogNext

LEMMA PruneStep ==
    ASSUME ReadersRest, ~Clearing, ~Clearing', NEW i \in LogIds, NEW n \in 0 .. Len(LogOf(i)),
           AbstractLog' = [AbstractLog EXCEPT ![i] = SubSeq(LogOf(i), n + 1, Len(LogOf(i)))],
           n = 0 => AbstractLog' = AbstractLog
    PROVE  AbstractStep
  <1>1. AbstractClearing = {} /\ AbstractClearing' = {}
    BY DEF AbstractClearing
  <1>2. AbstractLog[i] = LogOf(i)
    BY LogsMapped
  <1>3. CASE n # 0
    <2>1. AbstractLog' = [AbstractLog EXCEPT ![i] = Abstract!DropOldest(@, n)]
      BY <1>2 DEF Abstract!DropOldest
    <2>2. n \in 1 .. Len(AbstractLog[i])
      BY <1>2, <1>3
    <2>3. Abstract!Prune(i)
      BY <1>1, <2>1, <2>2 DEF Abstract!Prune, ReadersRest
    <2> QED BY <2>3 DEF AbstractStep, Abstract!LogNext
  <1>4. CASE n = 0
    BY <1>1, <1>4, StutterStep
  <1> QED BY <1>3, <1>4

LEMMA BeginClearStep ==
    ASSUME ReadersRest, ~Clearing, Clearing', AbstractLog' = AbstractLog,
           NEW i \in LogIds, NEW entry \in EntryValues, entry.uid # 0,
           clear'.log_id = i, clear'.uid = entry.uid
    PROVE  AbstractStep
  <1>1. AbstractClearing = {} /\ AbstractClearing' = {<<i, entry.uid>>}
    BY DEF AbstractClearing
  <1>2. Abstract!BeginClear(i)
    BY <1>1 DEF Abstract!BeginClear, ReadersRest
  <1> QED BY <1>2 DEF AbstractStep, Abstract!LogNext

LEMMA ClearEntryStep ==
    ASSUME ReadersRest, Clearing, Clearing', NEW i \in LogIds, NEW uid,
           clear.log_id = i, clear'.log_id = i, clear.uid = uid, clear'.uid = uid,
           NEW k \in 1 .. Len(LogOf(i)), LogOf(i)[k].uid = uid,
           AbstractLog' = [AbstractLog EXCEPT ![i] =
                SubSeq(LogOf(i), 1, k - 1) \o SubSeq(LogOf(i), k + 1, Len(LogOf(i)))]
    PROVE  AbstractStep
  <1>1. AbstractClearing = {<<i, uid>>} /\ AbstractClearing' = {<<i, uid>>}
    BY DEF AbstractClearing
  <1>2. AbstractLog[i] = LogOf(i)
    BY LogsMapped
  <1>3. AbstractLog' = [AbstractLog EXCEPT ![i] = Abstract!Without(@, k)]
    BY <1>2 DEF Abstract!Without
  <1>4. k \in 1 .. Len(AbstractLog[i]) /\ AbstractLog[i][k].uid = uid
    BY <1>2
  <1>5. Abstract!ClearEntryOf(i, uid)
    BY <1>1, <1>3, <1>4 DEF Abstract!ClearEntryOf, ReadersRest
  <1>6. <<i, uid>> \in AbstractClearing /\ <<i, uid>>[1] = i /\ <<i, uid>>[2] = uid
    BY <1>1
  <1> QED BY <1>5, <1>6 DEF AbstractStep, Abstract!LogNext

LEMMA EndClearStep ==
    ASSUME ReadersRest, Clearing, ~Clearing', AbstractLog' = AbstractLog,
           NEW i \in LogIds, NEW uid, clear.log_id = i, clear.uid = uid,
           \A k \in 1 .. Len(LogOf(i)) : LogOf(i)[k].uid # uid
    PROVE  AbstractStep
  <1>1. AbstractClearing = {<<i, uid>>} /\ AbstractClearing' = {}
    BY DEF AbstractClearing
  <1>2. AbstractLog[i] = LogOf(i)
    BY LogsMapped
  <1>3. Abstract!EndClear(i, uid)
    BY <1>1, <1>2 DEF Abstract!EndClear, ReadersRest
  <1>4. <<i, uid>> \in AbstractClearing /\ <<i, uid>>[1] = i /\ <<i, uid>>[2] = uid
    BY <1>1
  <1> QED BY <1>3, <1>4 DEF AbstractStep, Abstract!LogNext

-----------------------------------------------------------------------------
(***************************************************************************)
(* What the buffer holds                                                    *)
(***************************************************************************)
Values(heap) == \A c \in DOMAIN heap : heap[c].entries \in Seq(EntryValues)

OthersThan(uid) == {entry \in EntryValues : entry.uid # uid}

AreOfOthers(heap, list, uid) ==
    \A c \in Elements(list) : \A k \in 1 .. Len(heap[c].entries) : heap[c].entries[k].uid # uid

LEMMA ListsHold ==
    ASSUME NEW heap, Values(heap), NEW list, IsListIn(list, heap)
    PROVE  Hold(heap, list, EntryValues)
  BY DEF Values, IsListIn, Hold

LEMMA HoldOthers ==
    ASSUME NEW heap, NEW list, NEW uid, Hold(heap, list, EntryValues)
    PROVE  Hold(heap, list, OthersThan(uid)) <=> AreOfOthers(heap, list, uid)
  <1>1. ASSUME NEW s \in Seq(EntryValues)
        PROVE  s \in Seq(OthersThan(uid)) <=> \A k \in 1 .. Len(s) : s[k].uid # uid
    <2>1. ASSUME s \in Seq(OthersThan(uid)), NEW k \in 1 .. Len(s) PROVE s[k].uid # uid
      <3>1. s[k] \in OthersThan(uid)
        BY <2>1, ElementOfSeq
      <3> QED BY <3>1 DEF OthersThan
    <2>2. ASSUME \A k \in 1 .. Len(s) : s[k].uid # uid PROVE s \in Seq(OthersThan(uid))
      <3>1. \A k \in 1 .. Len(s) : s[k] \in EntryValues
        BY ElementOfSeq
      <3>2. \A k \in 1 .. Len(s) : s[k] \in OthersThan(uid)
        BY <2>2, <3>1 DEF OthersThan
      <3> HIDE DEF OthersThan
      <3> QED BY <3>2
    <2> QED BY <2>1, <2>2
  <1> QED BY <1>1 DEF Hold, AreOfOthers

LEMMA HeldLists ==
    ASSUME Parts, MapInv
    PROVE  /\ Values(chunk) /\ IsHeap(chunk)
           /\ \A i \in LogIds : /\ IsListIn(logs[i], chunk) /\ Distinct(logs[i])
                                /\ Hold(chunk, logs[i], EntryValues)
           /\ IsListIn(clear.new_logs, chunk) /\ Distinct(clear.new_logs)
           /\ Hold(chunk, clear.new_logs, EntryValues)
           /\ Clearing => AreOfOthers(chunk, clear.new_logs, clear.uid)
  <1>1. Values(chunk)
    BY DEF MapInv, EntriesAreValues, Values
  <1>2. IsListIn(clear.new_logs, chunk) /\ Distinct(clear.new_logs)
    BY DEF Parts, CommandsOK, ListsAreDisjoint, IsListIn
  <1>3. \A i \in LogIds : IsHeap(chunk) /\ IsListIn(logs[i], chunk) /\ Distinct(logs[i])
    BY ListsOfLogs
  <1>4. Clearing => AreOfOthers(chunk, clear.new_logs, clear.uid)
    BY DEF MapInv, CopiesAreOfOthers, AreOfOthers
  <1>5. IsHeap(chunk)
    BY DEF Parts
  <1> QED BY <1>1, <1>2, <1>3, <1>4, <1>5, ListsHold

LEMMA LeftInChunk ==
    ASSUME NEW heap, NEW list, NEW n, n # 0, NEW s, s = heap[Head(list)].entries
    PROVE  LeftToVisit(heap, list, n) = SubSeq(s, n, Len(s)) \o EntriesIn(heap, Tail(list))
  BY DEF LeftToVisit

\* What the next state has to be of EntriesAreValues and CopiesAreOfOthers.
LEMMA MapPrimed ==
    /\ EntriesAreValues' <=> /\ sequence' \in Nat \ {0}
                             /\ \A w \in DOMAIN pending' : pending'[w].entry \in EntryValues
                             /\ Values(chunk')
    /\ CopiesAreOfOthers' <=> (Clearing' => AreOfOthers(chunk', clear'.new_logs, clear'.uid))
  BY DEF EntriesAreValues, CopiesAreOfOthers, Values, AreOfOthers, EntryValues, Elements

\* The chunks hold what they did.
LEMMA SameEntriesMapped ==
    ASSUME Parts, MapInv, SameEntries(chunk'), UNCHANGED <<logs, clear>>, Clearing' = Clearing
    PROVE  /\ AbstractLog' = AbstractLog /\ AbstractClearing' = AbstractClearing
           /\ Values(chunk') /\ CopiesAreOfOthers'
  <1>1. /\ DOMAIN chunk' = DOMAIN chunk
        /\ \A c \in DOMAIN chunk : chunk'[c].entries = chunk[c].entries
    BY DEF SameEntries, HoldsTheSame
  <1>2. Values(chunk')
    BY <1>1, HeldLists DEF Values
  <1>3. CopiesAreOfOthers'
    BY <1>1, HeldLists, MapPrimed DEF AreOfOthers, IsListIn
  <1>4. ASSUME NEW list, IsListIn(list, chunk)
        PROVE  EntriesIn(chunk', list) = EntriesIn(chunk, list)
    BY <1>1, <1>4, EntriesAlike DEF IsListIn
  <1>5. ASSUME NEW i \in LogIds
        PROVE  LogOf(i)' = LogOf(i)
    <2>1. EntriesIn(chunk', logs[i]) = EntriesIn(chunk, logs[i])
      BY <1>4, HeldLists
    <2>2. EntriesIn(chunk', clear.new_logs) = EntriesIn(chunk, clear.new_logs)
      BY <1>4, HeldLists
    <2>3. ASSUME Clearing, i = clear.log_id
          PROVE  LeftToVisit(chunk', logs[i], clear.entry) = LeftToVisit(chunk, logs[i], clear.entry)
      <3>1. CASE clear.entry = 0
        BY <2>1, <3>1 DEF LeftToVisit
      <3>2. CASE clear.entry # 0
        <4>1. logs[i] # << >>
          BY <2>3, <3>2 DEF Parts, ClearIsConsistent
        <4>2. /\ Head(logs[i]) \in DOMAIN chunk /\ Tail(logs[i]) \in Seq(ChunkIds)
              /\ Elements(Tail(logs[i])) = Elements(logs[i]) \ {Head(logs[i])}
          BY <2>3, <4>1, HeadOfClear
        <4>3. IsListIn(Tail(logs[i]), chunk)
          BY <4>2, HeldLists DEF IsListIn
        <4>4. EntriesIn(chunk', Tail(logs[i])) = EntriesIn(chunk, Tail(logs[i]))
          BY <1>4, <4>3
        <4>5. chunk'[Head(logs[i])].entries = chunk[Head(logs[i])].entries
          BY <1>1, <4>2
        <4> DEFINE s == chunk[Head(logs[i])].entries
                   list == logs[i]
                   n == clear.entry
                   after == chunk'
        <4>6. /\ s = after[Head(list)].entries /\ s = chunk[Head(list)].entries /\ n # 0
              /\ EntriesIn(after, Tail(list)) = EntriesIn(chunk, Tail(list))
          BY <3>2, <4>4, <4>5
        <4> HIDE DEF s, list, n, after
        <4>7. LeftToVisit(after, list, n) = LeftToVisit(chunk, list, n)
          BY <4>6, LeftInChunk, ZenonT(40)
        <4> QED BY <4>7 DEF list, n, after
      <3> QED BY <3>1, <3>2
    <2> QED BY <2>1, <2>2, <2>3 DEF LogOf
  <1>6. AbstractLog' = AbstractLog
    BY <1>5 DEF AbstractLog
  <1>7. AbstractClearing' = AbstractClearing
    BY DEF AbstractClearing
  <1> QED BY <1>2, <1>3, <1>6, <1>7

LEMMA SameChunks == SameEntries(chunk)
  BY DEF SameEntries, HoldsTheSame

-----------------------------------------------------------------------------
(***************************************************************************)
(* The writers and the commands                                             *)
(***************************************************************************)
Mapped == EntriesAreValues' /\ CopiesAreOfOthers' /\ AbstractStep

LEMMA TakeSequenceMapped ==
    ASSUME Parts, MapInv, ReadersRest, NEW w, TakeSequence(w)
    PROVE  Mapped
  <1>1. /\ UNCHANGED <<logd_lock, chunk, logs, clear>> /\ sequence' = sequence + 1
        /\ sequence <= MaxSequence
    BY Zenon DEF TakeSequence
  <1>2. sequence \in Nat \ {0} /\ \A v \in DOMAIN pending : pending[v].entry \in EntryValues
    BY DEF MapInv, EntriesAreValues
  <1>3. PICK m \in Messages :
           LET entry == [sequence |-> sequence,
                         realtime |-> m.realtime,
                         uid      |-> m.uid,
                         pid      |-> m.pid,
                         msg_len  |-> IF m.msg_len > LOGGER_ENTRY_MAX_PAYLOAD
                                      THEN LOGGER_ENTRY_MAX_PAYLOAD ELSE m.msg_len]
           IN  /\ m.msg_len # 0
               /\ pending' = [v \in (DOMAIN pending) \cup {w} |->
                                 IF v = w THEN [log_id |-> m.log_id, entry |-> entry]
                                          ELSE pending[v]]
    BY Zenon DEF TakeSequence
  <1> DEFINE len == IF m.msg_len > LOGGER_ENTRY_MAX_PAYLOAD
                    THEN LOGGER_ENTRY_MAX_PAYLOAD ELSE m.msg_len
             entry == [sequence |-> sequence, realtime |-> m.realtime, uid |-> m.uid,
                       pid |-> m.pid, msg_len |-> len]
  <1>4. len \in 1 .. LOGGER_ENTRY_MAX_PAYLOAD
    BY <1>3, MessageAssumption, SizeAssumption, EntryAssumption
  <1>5. sequence \in 1 .. MaxSequence
    BY <1>1, <1>2, EntryAssumption
  <1>6. pending' = [v \in (DOMAIN pending) \cup {w} |->
                       IF v = w THEN [log_id |-> m.log_id, entry |-> entry] ELSE pending[v]]
    BY <1>3, Zenon
  <1> HIDE DEF len
  <1>7. entry \in EntryValues
    BY <1>4, <1>5 DEF EntryValues
  <1> HIDE DEF entry
  <1>8. \A v \in DOMAIN pending' : pending'[v].entry \in EntryValues
    BY <1>2, <1>6, <1>7
  <1>9. /\ AbstractLog' = AbstractLog /\ AbstractClearing' = AbstractClearing
        /\ Values(chunk') /\ CopiesAreOfOthers'
    BY <1>1, SameChunks, SameEntriesMapped DEF Clearing
  <1>10. sequence' \in Nat \ {0}
    BY <1>1, <1>2
  <1> QED BY <1>8, <1>9, <1>10, MapPrimed, StutterStep DEF Mapped

LEMMA ReinitTriggerMapped ==
    ASSUME Parts, MapInv, ReadersRest, ReinitTrigger
    PROVE  Mapped
  <1>1. UNCHANGED <<logd_lock, chunk, logs, clear, sequence, pending>>
    BY DEF ReinitTrigger
  <1>2. /\ AbstractLog' = AbstractLog /\ AbstractClearing' = AbstractClearing
        /\ Values(chunk') /\ CopiesAreOfOthers'
    BY <1>1, SameChunks, SameEntriesMapped DEF Clearing
  <1>3. EntriesAreValues'
    BY <1>1, <1>2, MapPrimed DEF MapInv, EntriesAreValues
  <1> QED BY <1>2, <1>3, StutterStep DEF Mapped

\* Chunks of log i are freed.
LEMMA FreedMapped ==
    ASSUME Parts, MapInv, ReadersRest, ~Clearing, ~Clearing', NEW i \in LogIds,
           NEW n \in 0 .. Len(logs[i]),
           chunk' = Free(chunk, Pruned(logs[i], n)),
           logs' = [logs EXCEPT ![i] = Unpruned(logs[i], n)],
           UNCHANGED <<sequence, pending>>
    PROVE  Mapped
  <1> DEFINE list == logs[i]
             a == EntriesIn(chunk, SubSeq(list, 1, n))
             rest == Unpruned(list, n)
             b == EntriesIn(chunk, rest)
  <1>1. /\ list \in Seq(ChunkIds) /\ Distinct(list) /\ Hold(chunk, list, EntryValues)
        /\ Values(chunk)
    BY HeldLists DEF IsListIn
  <1>2. /\ Hold(chunk, SubSeq(list, 1, n), EntryValues) /\ Hold(chunk, rest, EntryValues)
        /\ EntriesIn(chunk, list) = a \o b
    BY <1>1, EntriesSplit
  <1>3. a \in Seq(EntryValues) /\ b \in Seq(EntryValues)
    BY <1>2, EntriesType
  <1>4. Elements(rest) = Elements(list) \ Pruned(list, n) /\ Pruned(list, n) \subseteq Elements(list)
    BY <1>1, UnprunedElements
  <1>5. \A c \in DOMAIN chunk : c \notin Pruned(list, n) => c \in DOMAIN chunk' /\ chunk'[c] = chunk[c]
    BY DEF Free
  <1>6. EntriesIn(chunk', rest) = b
    <2>1. \A c \in Elements(rest) : chunk'[c].entries = chunk[c].entries
      BY <1>4, <1>5, HeldLists DEF IsListIn
    <2> QED BY <2>1, EntriesAlike
  <1>7. LogOf(i) = a \o b
    BY <1>2 DEF LogOf
  <1>8. logs'[i] = rest /\ \A j \in LogIds \ {i} : logs'[j] = logs[j]
    BY DEF Parts, LogsOK
  <1> HIDE DEF a, rest
  <1>9. LogOf(i)' = b
    BY <1>6, <1>8 DEF LogOf
  <1> HIDE DEF b
  <1> DEFINE m == Len(a)
  <1>10. /\ m \in 0 .. Len(LogOf(i)) /\ b = SubSeq(LogOf(i), m + 1, Len(LogOf(i)))
         /\ m = 0 => b = LogOf(i)
    <2>1. Len(a \o b) = Len(a) + Len(b) /\ Len(a) \in Nat /\ Len(b) \in Nat
      BY <1>3, ConcatParts
    <2>2. b = SubSeq(a \o b, Len(a) + 1, Len(a \o b))
      BY <1>3, DropPrefix
    <2>3. Len(a) = 0 => b = a \o b
      BY <1>3, EmptySeq, ConcatEmptySeq
    <2> QED BY <1>7, <2>1, <2>2, <2>3
  <1> HIDE DEF m
  <1>11. ASSUME NEW j \in LogIds \ {i}, NEW c \in Elements(logs[j])
         PROVE  chunk'[c].entries = chunk[c].entries
    <2>1. c \in DOMAIN chunk /\ c \notin Pruned(list, n)
      BY <1>4, HeldLists DEF IsListIn, Parts, ListsAreDisjoint
    <2> QED BY <1>5, <2>1
  <1>12. /\ AbstractLog' = [AbstractLog EXCEPT ![i] = b]
         /\ b = LogOf(i) => AbstractLog' = AbstractLog
    BY <1>8, <1>9, <1>11, OneLogMapped
  <1>13. AbstractStep
    BY <1>10, <1>12, PruneStep
  <1>14. EntriesAreValues'
    <2>1. Values(chunk')
      BY <1>1 DEF Values, Free
    <2> QED BY <2>1, MapPrimed DEF MapInv, EntriesAreValues
  <1>15. CopiesAreOfOthers'
    BY MapPrimed
  <1> QED BY <1>13, <1>14, <1>15 DEF Mapped

LEMMA SetSizeMapped ==
    ASSUME Parts, MapInv, ReadersRest, NEW i \in LogIds, NEW size, SetSize(i, size)
    PROVE  Mapped
  <1>1. PICK n \in 0 .. Len(logs[i]) : /\ chunk' = Free(chunk, Pruned(logs[i], n))
                                       /\ logs' = [logs EXCEPT ![i] = Unpruned(logs[i], n)]
    BY Zenon DEF SetSize
  <1>2. UNCHANGED <<logd_lock, sequence, pending>> /\ logd_lock = {}
    BY Zenon DEF SetSize, LockFree
  <1>3. ~Clearing /\ ~Clearing'
    BY <1>2 DEF Clearing
  <1> QED BY <1>1, <1>2, <1>3, FreedMapped

LEMMA ClearAllMapped ==
    ASSUME Parts, MapInv, ReadersRest, NEW i \in LogIds, ClearAll(i)
    PROVE  Mapped
  <1> DEFINE n == Len(logs[i])
  <1>1. /\ chunk' = Free(chunk, Elements(logs[i])) /\ logs' = [logs EXCEPT ![i] = << >>]
        /\ UNCHANGED <<logd_lock, sequence, pending>> /\ logd_lock = {}
    BY DEF ClearAll, LockFree
  <1>2. logs[i] \in Seq(ChunkIds)
    BY DEF Parts, LogsOK
  <1>3. n \in 0 .. Len(logs[i]) /\ n \in Nat
    BY <1>2, LenProperties
  <1>4. Pruned(logs[i], n) = Elements(logs[i])
    BY DEF Pruned, Elements
  <1>5. Unpruned(logs[i], n) = << >>
    <2>1. Unpruned(logs[i], n) \in Seq(ChunkIds) /\ Len(Unpruned(logs[i], n)) = 0
      BY <1>2, <1>3, RestOf DEF Unpruned
    <2> QED BY <2>1, EmptySeq
  <1>6. ~Clearing /\ ~Clearing'
    BY <1>1 DEF Clearing
  <1>7. chunk' = Free(chunk, Pruned(logs[i], n)) /\ logs' = [logs EXCEPT ![i] = Unpruned(logs[i], n)]
    BY <1>1, <1>4, <1>5
  <1> HIDE DEF n
  <1> QED BY <1>1, <1>3, <1>6, <1>7, FreedMapped

LEMMA UidClearMapped ==
    ASSUME Parts, MapInv, ReadersRest, NEW i \in LogIds, NEW m \in Messages, UidClear(i, m.uid)
    PROVE  Mapped
  <1>1. /\ UNCHANGED <<chunk, logs, sequence, pending>> /\ logd_lock = {} /\ logd_lock' = {"command"}
        /\ clear' = [NoClear EXCEPT !.log_id = i, !.uid = m.uid] /\ m.uid # 0
    BY DEF UidClear, LockFree
  <1>2. ~Clearing /\ Clearing'
    BY <1>1 DEF Clearing
  <1>3. /\ clear'.new_logs = << >> /\ clear'.entry = 0 /\ clear'.log_id = i /\ clear'.uid = m.uid
    BY <1>1 DEF NoClear
  <1>4. EntriesAreValues'
    BY <1>1, HeldLists, MapPrimed DEF MapInv, EntriesAreValues
  <1>5. CopiesAreOfOthers'
    BY <1>3, MapPrimed DEF AreOfOthers, Elements
  <1>6. LogOf(i)' = LogOf(i)
    <2> DEFINE s == EntriesIn(chunk, logs[i])
    <2>1. LogOf(i) = s
      BY <1>2 DEF LogOf
    <2>2. LeftToVisit(chunk', logs'[i], clear'.entry) = s
      BY <1>1, <1>3 DEF LeftToVisit
    <2>3. EntriesIn(chunk', clear'.new_logs) = << >>
      BY <1>3, EntriesOfNone
    <2>4. s \in Seq(EntryValues)
      BY HeldLists, EntriesType
    <2> HIDE DEF s
    <2>5. LogOf(i)' = << >> \o s
      BY <1>2, <1>3, <2>2, <2>3 DEF LogOf
    <2> QED BY <2>1, <2>4, <2>5, ConcatEmptySeq
  <1>7. AbstractLog' = AbstractLog
    BY <1>1, <1>2, <1>3, <1>6, OneLogMapped
  <1> DEFINE entry == [sequence |-> 1, realtime |-> m.realtime, uid |-> m.uid, pid |-> m.pid,
                       msg_len |-> 1]
  <1>8. entry \in EntryValues /\ entry.uid = m.uid
    BY SizeAssumption, EntryAssumption DEF EntryValues
  <1> HIDE DEF entry
  <1>9. AbstractStep
    BY <1>1, <1>2, <1>3, <1>7, <1>8, BeginClearStep
  <1> QED BY <1>4, <1>5, <1>9 DEF Mapped

LEMMA LogMapped ==
    ASSUME Parts, ChunkInv, SizeInv, MapInv, IsHeap(chunk'), ReadersRest, NEW w \in Writers, Log(w)
    PROVE  Mapped
  <1>1. PICK i, entry, zsize, logged, n : LogsEntry(w, i, entry, zsize, logged, n)
    BY LogCases
  <1>2. /\ w \in DOMAIN pending /\ i = pending[w].log_id /\ entry = pending[w].entry
        /\ zsize \in ZSizes(chunk, logs[i], entry)
        /\ NeedsChunk(chunk, logs[i], entry) => CanAllocate(chunk)
        /\ logged = LogToLogBuffer(chunk, logs[i], max_size[i], entry, zsize)
        /\ n \in 0 .. Len(logged.list)
        /\ chunk' = Free(logged.heap, Pruned(logged.list, n))
        /\ logs' = [logs EXCEPT ![i] = Unpruned(logged.list, n)]
        /\ pending' = [v \in (DOMAIN pending) \ {w} |-> pending[v]]
    BY <1>1, Zenon DEF LogsEntry
  <1>3. i \in LogIds /\ entry \in EntryValues
    BY <1>2 DEF Parts, WritersOK, MapInv, EntriesAreValues
  <1>4. ~Clearing /\ ~Clearing' /\ sequence' = sequence
    <2>1. logd_lock = {} /\ logd_lock' = logd_lock /\ sequence' = sequence
      BY Zenon DEF Log, LockFree
    <2> QED BY <2>1 DEF Clearing
  <1> DEFINE old == EntriesIn(chunk, logs[i])
             heap == logged.heap
             list == logged.list
             first == SubSeq(list, 1, n)
             rest == Unpruned(list, n)
             a == EntriesIn(heap, first)
             b == EntriesIn(heap, rest)
  <1>5. /\ IsListIn(logs[i], chunk) /\ Distinct(logs[i]) /\ Hold(chunk, logs[i], EntryValues)
        /\ Values(chunk) /\ IsHeap(chunk)
    BY <1>3, HeldLists
  <1>6. Appends(chunk, logs[i], entry, logged, EntryValues)
    BY <1>2, <1>3, <1>5, LogAppends
  <1>7. /\ Hold(heap, list, EntryValues)
        /\ EntriesIn(heap, list) = Append(old, entry)
        /\ DOMAIN heap = (DOMAIN chunk) \cup Elements(list)
        /\ \A c \in (DOMAIN chunk) \ Elements(logs[i]) : /\ c \notin Elements(list)
                                                         /\ heap[c].entries = chunk[c].entries
    BY <1>6 DEF Appends
  <1>8. /\ list \in Seq(ChunkIds) /\ n \in 0 .. Len(list) /\ Distinct(list)
        /\ Elements(logs[i]) \subseteq Elements(list)
    <2>1. Extends(chunk, logs[i], logged)
      <3>1. SoundlyLogged(i, logged)
        BY <1>2, <1>3, <1>4, LogIsSound DEF ChunkInv, PendingAreCut, Parts, WritersOK
      <3> QED BY <3>1 DEF SoundlyLogged
    <2>2. n \in 0 .. Len(logged.list)
      BY <1>2
    <2> QED BY <2>1, <2>2 DEF Extends
  <1>9. Elements(rest) = Elements(list) \ Pruned(list, n) /\ Pruned(list, n) \subseteq Elements(list)
    BY <1>8, UnprunedElements
  <1>10. /\ Hold(heap, first, EntryValues) /\ Hold(heap, rest, EntryValues)
         /\ EntriesIn(heap, list) = a \o b
    <2>1. Hold(heap, list, EntryValues) /\ n \in 0 .. Len(list)
      BY <1>7, <1>8
    <2> HIDE DEF heap, list
    <2> QED BY <2>1, EntriesSplit
  <1>11. a \in Seq(EntryValues) /\ b \in Seq(EntryValues) /\ old \in Seq(EntryValues)
    BY <1>5, <1>10, EntriesType
  <1>12. chunk' = Free(heap, Pruned(list, n)) /\ logs' = [logs EXCEPT ![i] = rest]
    BY <1>2
  <1> HIDE DEF heap, list, old
  <1>13. \A c \in DOMAIN heap : c \notin Pruned(list, n) => c \in DOMAIN chunk' /\ chunk'[c] = heap[c]
    BY <1>12 DEF Free
  <1>14. \A c \in Elements(rest) : chunk'[c].entries = heap[c].entries
    BY <1>7, <1>9, <1>13
  <1> HIDE DEF rest, first
  <1>15. EntriesIn(chunk', rest) = b /\ Hold(chunk', rest, EntryValues)
    BY <1>10, <1>14, EntriesAlike DEF Hold
  <1>16. logs'[i] = rest /\ \A j \in LogIds \ {i} : logs'[j] = logs[j]
    BY <1>3, <1>12 DEF Parts, LogsOK
  <1>17. LogOf(i) = old /\ LogOf(i)' = b
    BY <1>4, <1>15, <1>16 DEF LogOf, old
  <1>18. b # << >>
    <2>1. pending[w].entry \in EntriesOf(i)'
      BY <1>2, <1>3, LogIsMeasured
    <2>2. PICK c \in Elements(logs'[i]) : \E k \in 1 .. Len(chunk'[c].entries) : TRUE
      BY <2>1 DEF EntriesOf, Elements
    <2>3. c \in Elements(rest)
      BY <1>16, <2>2
    <2> DEFINE after == chunk'
    <2>4. Hold(after, rest, EntryValues) /\ EntriesIn(after, rest) = b
      BY <1>15
    <2>5. PICK k \in 1 .. Len(after[c].entries) : TRUE
      BY <2>2
    <2> HIDE DEF after, b
    <2>6. \E m \in 1 .. Len(EntriesIn(after, rest)) : TRUE
      BY <2>3, <2>4, <2>5, EntryIsInList
    <2> QED BY <2>4, <2>6
  <1> HIDE DEF a, b
  <1>19. PICK m \in 0 .. Len(old) : b = Append(SubSeq(old, m + 1, Len(old)), entry)
    <2> DEFINE s == EntriesIn(heap, list)
    <2>1. IsCut(s, old, entry, a, b)
      BY <1>7, <1>10 DEF IsCut
    <2> HIDE DEF s
    <2>2. /\ old \in Seq(EntryValues) /\ a \in Seq(EntryValues) /\ b \in Seq(EntryValues)
          /\ entry \in EntryValues
      BY <1>3, <1>11
    <2>3. KeepsNew(old, entry, b)
      BY <1>18, <2>1, <2>2, PrunedAppend
    <2> QED BY <2>3 DEF KeepsNew
  <1>20. ASSUME NEW j \in LogIds \ {i}, NEW c \in Elements(logs[j])
         PROVE  chunk'[c].entries = chunk[c].entries
    <2>1. c \in (DOMAIN chunk) \ Elements(logs[i])
      BY <1>3, HeldLists DEF IsListIn, Parts, ListsAreDisjoint
    <2>2. c \in DOMAIN heap /\ c \notin Pruned(list, n) /\ heap[c].entries = chunk[c].entries
      BY <1>7, <1>9, <2>1
    <2> QED BY <1>13, <2>2
  <1>21. AbstractLog' = [AbstractLog EXCEPT ![i] = b]
    BY <1>3, <1>4, <1>16, <1>17, <1>20, OneLogMapped
  <1>22. AbstractStep
    BY <1>3, <1>4, <1>17, <1>19, <1>21, AppendStep
  <1>23. Values(chunk')
    <2>1. \A c \in DOMAIN heap : heap[c].entries \in Seq(EntryValues)
      <3> SUFFICES ASSUME NEW c \in DOMAIN heap PROVE heap[c].entries \in Seq(EntryValues)
        OBVIOUS
      <3>1. CASE c \in Elements(list)
        BY <1>7, <3>1 DEF Hold
      <3>2. CASE c \notin Elements(list)
        <4>1. c \in (DOMAIN chunk) \ Elements(logs[i])
          BY <1>7, <1>8, <3>2
        <4> QED BY <1>5, <1>7, <4>1 DEF Values
      <3> QED BY <3>1, <3>2
    <2>2. \A c \in DOMAIN chunk' : c \in DOMAIN heap /\ chunk'[c] = heap[c]
      BY <1>12 DEF Free
    <2> QED BY <2>1, <2>2 DEF Values
  <1>24. EntriesAreValues'
    <2>1. sequence \in Nat \ {0} /\ \A v \in DOMAIN pending : pending[v].entry \in EntryValues
      BY DEF MapInv, EntriesAreValues
    <2>2. pending' = [v \in (DOMAIN pending) \ {w} |-> pending[v]]
      BY <1>2
    <2>3. \A v \in DOMAIN pending' : pending'[v].entry \in EntryValues
      BY <2>1, <2>2
    <2> QED BY <1>4, <1>23, <2>1, <2>3, MapPrimed
  <1>25. CopiesAreOfOthers'
    BY <1>4, MapPrimed
  <1> QED BY <1>22, <1>24, <1>25 DEF Mapped

-----------------------------------------------------------------------------
(***************************************************************************)
(* ClearLogsByUid()                                                         *)
(***************************************************************************)

\* The logs but i have the chunks they had, and those the entries they had.
OthersKept(i) ==
    \A j \in LogIds \ {i} :
        /\ logs'[j] = logs[j]
        /\ \A c \in Elements(logs[j]) : chunk'[c].entries = chunk[c].entries

\* A step of it on log i that cannot be seen.
LEMMA InvisibleMapped ==
    ASSUME Parts, MapInv, ReadersRest, Clearing, Clearing', NEW i \in LogIds,
           i = clear.log_id, clear'.log_id = i, clear'.uid = clear.uid,
           OthersKept(i), LogOf(i)' = LogOf(i), UNCHANGED <<sequence, pending>>,
           Values(chunk'), AreOfOthers(chunk', clear'.new_logs, clear.uid)
    PROVE  Mapped
  <1>1. AbstractLog' = AbstractLog
    BY OneLogMapped DEF OthersKept
  <1>2. AbstractClearing' = AbstractClearing
    BY DEF AbstractClearing
  <1>3. EntriesAreValues' /\ CopiesAreOfOthers'
    BY MapPrimed DEF MapInv, EntriesAreValues
  <1> QED BY <1>1, <1>2, <1>3, StutterStep DEF Mapped

\* The log that is being cleared: what was copied, and what is left to visit.
LEMMA LogBeingCleared ==
    ASSUME Clearing, NEW i, i = clear.log_id
    PROVE  LogOf(i) = EntriesIn(chunk, clear.new_logs) \o LeftToVisit(chunk, logs[i], clear.entry)
  BY DEF LogOf

LEMMA LogBeingClearedPrimed ==
    ASSUME Clearing', NEW i, i = clear'.log_id
    PROVE  LogOf(i)' = EntriesIn(chunk', clear'.new_logs)
                          \o LeftToVisit(chunk', logs'[i], clear'.entry)
  BY DEF LogOf

\* Detaching the readers and taking references leaves the entries.
LEMMA OpenedHolds ==
    ASSUME NEW c \in Chunk, IsFiniteSet(c.readers)
    PROVE  /\ IncReaderRefCount(WithoutReaders(c)).entries = c.entries
           /\ DecReaderRefCount(IncReaderRefCount(WithoutReaders(c))).entries = c.entries
  <1> DEFINE c1 == WithoutReaders(c)
             c2 == IncReaderRefCount(c1)
  <1>1. c1 \in Chunk /\ HoldsTheSame(c, c1) /\ IsFiniteSet(c1.readers)
    BY WithoutReadersType, ReferencesHold, FS_EmptySet
  <1> HIDE DEF c1
  <1>2. c2 \in Chunk /\ HoldsTheSame(c1, c2)
    BY <1>1, RefCountType, ReferencesHold
  <1> HIDE DEF c2
  <1>3. HoldsTheSame(c2, DecReaderRefCount(c2))
    BY <1>2, ReferencesHold
  <1>4. c2.entries = c.entries /\ DecReaderRefCount(c2).entries = c.entries
    BY <1>1, <1>2, <1>3 DEF HoldsTheSame
  <1> QED BY <1>4 DEF c1, c2

LEMMA ClearSpliceChunkMapped ==
    ASSUME Parts, MapInv, ReadersRest, ClearSpliceChunk
    PROVE  Mapped
  <1>0. PICK i \in LogIds : i = clear.log_id
    BY DEF ClearSpliceChunk, Parts, ClearIsConsistent, Clearing
  <1> DEFINE list == logs[i]
             c == Head(list)
             copied == clear.new_logs
             visited == DecReaderRefCount(IncReaderRefCount(WithoutReaders(chunk[c])))
  <1>1. /\ Clearing /\ Clearing' /\ clear.entry = 0 /\ list # << >> /\ ~ContainsUid(c)
        /\ chunk' = [chunk EXCEPT ![c] = visited]
        /\ logs' = [logs EXCEPT ![i] = Tail(list)]
        /\ clear' = [clear EXCEPT !.new_logs = Append(copied, c)]
        /\ UNCHANGED <<sequence, pending>>
    BY <1>0 DEF ClearSpliceChunk, Clearing
  <1>2. /\ c \in DOMAIN chunk /\ c \in ChunkIds
        /\ chunk[c] \in Chunk /\ IsFiniteSet(chunk[c].readers)
        /\ c \notin Elements(copied)
    BY <1>0, <1>1, HeadOfClear
  <1>3. visited.entries = chunk[c].entries
    BY <1>2, OpenedHolds
  <1> HIDE DEF visited
  <1>4. /\ DOMAIN chunk' = DOMAIN chunk
        /\ \A d \in DOMAIN chunk : chunk'[d].entries = chunk[d].entries
    BY <1>1, <1>2, <1>3
  <1>5. /\ clear'.new_logs = Append(copied, c) /\ clear'.entry = 0 /\ clear'.log_id = i
        /\ clear'.uid = clear.uid
    BY <1>0, <1>1 DEF Parts, CommandsOK
  <1>6. /\ logs'[i] = Tail(list) /\ \A j \in LogIds \ {i} : logs'[j] = logs[j]
    BY <1>1, <1>2 DEF Parts, LogsOK
  <1>7. /\ Values(chunk) /\ Hold(chunk, list, EntryValues) /\ Hold(chunk, copied, EntryValues)
        /\ IsListIn(copied, chunk) /\ Distinct(copied) /\ IsListIn(list, chunk)
        /\ AreOfOthers(chunk, copied, clear.uid)
    BY <1>1, <1>2, HeldLists
  <1> DEFINE a == EntriesIn(chunk, copied)
             s == chunk[c].entries
             rest == Tail(list)
             t == EntriesIn(chunk, rest)
             longer == Append(copied, c)
             after == chunk'
  <1>8. /\ Hold(chunk, rest, EntryValues) /\ s \in Seq(EntryValues)
        /\ EntriesIn(chunk, list) = s \o t
    BY <1>1, <1>7, EntriesHead
  <1>9. Hold(chunk, longer, EntryValues) /\ EntriesIn(chunk, longer) = a \o s
    <2>1. Hold(chunk, copied, EntryValues) /\ s \in Seq(EntryValues)
      BY <1>7, <1>8
    <2> QED BY <1>2, <2>1, EntriesAppend
  <1>10. a \in Seq(EntryValues) /\ t \in Seq(EntryValues)
    BY <1>7, <1>8, EntriesType
  <1>11. /\ Elements(longer) = Elements(copied) \cup {c}
         /\ Elements(rest) \subseteq Elements(list)
    <2>1. copied \in Seq(ChunkIds) /\ list \in Seq(ChunkIds) /\ Distinct(list)
      BY <1>2, <1>7, HeldLists DEF IsListIn
    <2>2. Elements(longer) = Elements(copied) \cup {c}
      BY <1>2, <1>7, <2>1, AppendElements
    <2>3. Elements(rest) = Elements(list) \ {Head(list)}
      BY <1>1, <2>1, TailElements
    <2> QED BY <2>2, <2>3
  <1>12. EntriesIn(after, longer) = a \o s /\ EntriesIn(after, rest) = t
    <2>1. \A d \in Elements(longer) : after[d].entries = chunk[d].entries
      BY <1>2, <1>4, <1>7, <1>11 DEF IsListIn
    <2>2. \A d \in Elements(rest) : after[d].entries = chunk[d].entries
      BY <1>4, <1>7, <1>11 DEF IsListIn
    <2> HIDE DEF after, longer, rest
    <2> QED BY <1>9, <2>1, <2>2, EntriesAlike
  <1>13. LogOf(i) = a \o (s \o t)
    <2>1. LeftToVisit(chunk, list, clear.entry) = s \o t
      BY <1>1, <1>8 DEF LeftToVisit
    <2>2. Clearing
      BY <1>1
    <2>3. LogOf(i) = EntriesIn(chunk, clear.new_logs) \o LeftToVisit(chunk, logs[i], clear.entry)
      BY <1>0, <2>2, LogBeingCleared
    <2> QED BY <2>1, <2>3, Zenon
  <1>14. LogOf(i)' = (a \o s) \o t
    <2>1. LeftToVisit(after, rest, 0) = t
      BY <1>12 DEF LeftToVisit
    <2> HIDE DEF rest, longer, t
    <2>2. LogOf(i)' = EntriesIn(after, longer) \o LeftToVisit(after, rest, 0)
      <3>1. Clearing' /\ i = clear'.log_id
        BY <1>1, <1>5
      <3>2. LogOf(i)' = EntriesIn(chunk', clear'.new_logs) \o LeftToVisit(chunk', logs'[i], clear'.entry)
        BY <3>1, LogBeingClearedPrimed
      <3> QED BY <1>5, <1>6, <3>2 DEF after, longer, rest
    <2> QED BY <1>12, <2>1, <2>2, Zenon
  <1>15. LogOf(i)' = LogOf(i)
    <2>1. a \in Seq(EntryValues) /\ s \in Seq(EntryValues) /\ t \in Seq(EntryValues)
      BY <1>8, <1>10
    <2> HIDE DEF a, s, t
    <2>2. (a \o s) \o t = a \o (s \o t)
      BY <2>1, ConcatAssociative
    <2> QED BY <1>13, <1>14, <2>2, Zenon
  <1>16. Values(chunk')
    BY <1>4, <1>7 DEF Values
  <1>17. AreOfOthers(chunk', clear'.new_logs, clear.uid)
    <2>1. \A k \in 1 .. Len(chunk[c].entries) : chunk[c].entries[k].uid # clear.uid
      BY <1>1 DEF ContainsUid
    <2> QED BY <1>2, <1>4, <1>5, <1>7, <1>11, <2>1 DEF AreOfOthers, IsListIn
  <1>18. OthersKept(i)
    BY <1>4, <1>6, HeldLists DEF OthersKept, IsListIn
  <1> QED BY <1>0, <1>1, <1>5, <1>15, <1>16, <1>17, <1>18, InvisibleMapped

\* What is left to visit: at first all of the list, then what is behind an entry,
\* in the end the list without the chunk.
LEMMA LeftFromFirst ==
    ASSUME NEW heap, NEW list, list # << >>, Hold(heap, list, EntryValues)
    PROVE  LeftToVisit(heap, list, 1) = EntriesIn(heap, list)
  <1> DEFINE s == heap[Head(list)].entries
             n == 1
  <1>1. s \in Seq(EntryValues) /\ EntriesIn(heap, list) = s \o EntriesIn(heap, Tail(list))
    BY EntriesHead
  <1>2. n # 0 /\ s = heap[Head(list)].entries
    OBVIOUS
  <1> HIDE DEF s
  <1>3. SubSeq(s, 1, Len(s)) = s
    BY <1>1, SubSeqFull
  <1> HIDE DEF n
  <1>4. LeftToVisit(heap, list, n) = SubSeq(s, n, Len(s)) \o EntriesIn(heap, Tail(list))
    BY <1>2, LeftInChunk
  <1> QED BY <1>1, <1>3, <1>4, Zenon DEF n

LEMMA LeftBehind ==
    ASSUME NEW heap, NEW list, list # << >>, Hold(heap, list, EntryValues),
           NEW n \in 1 .. Len(heap[Head(list)].entries)
    PROVE  /\ LeftToVisit(heap, list, n)
                 = <<heap[Head(list)].entries[n]>> \o LeftToVisit(heap, list, n + 1)
           /\ heap[Head(list)].entries[n] \in EntryValues
           /\ LeftToVisit(heap, list, n + 1) \in Seq(EntryValues)
  <1> DEFINE s == heap[Head(list)].entries
             t == EntriesIn(heap, Tail(list))
             x == s[n]
             one == <<x>>
             rest == SubSeq(s, n + 1, Len(s))
             m == n + 1
  <1>1. s \in Seq(EntryValues) /\ t \in Seq(EntryValues)
    BY EntriesHead, EntriesType
  <1>2. n # 0 /\ m # 0 /\ s = heap[Head(list)].entries
    BY <1>1, LenProperties
  <1>3. n \in 1 .. Len(s)
    OBVIOUS
  <1> HIDE DEF s
  <1>4. SubSeq(s, n, Len(s)) = one \o rest /\ rest \in Seq(EntryValues) /\ x \in EntryValues
    BY <1>1, <1>3, NextToVisit
  <1>5. one \in Seq(EntryValues)
    BY <1>4
  <1>6. SubSeq(s, m, Len(s)) = rest
    OBVIOUS
  <1> HIDE DEF m, x, one, rest, t
  <1>7. LeftToVisit(heap, list, n) = (one \o rest) \o t
    <2>1. LeftToVisit(heap, list, n) = SubSeq(s, n, Len(s)) \o EntriesIn(heap, Tail(list))
      BY <1>2, LeftInChunk
    <2> QED BY <1>4, <2>1, Zenon DEF t
  <1>8. LeftToVisit(heap, list, m) = rest \o t
    <2>1. LeftToVisit(heap, list, m) = SubSeq(s, m, Len(s)) \o EntriesIn(heap, Tail(list))
      BY <1>2, LeftInChunk
    <2> QED BY <1>6, <2>1, Zenon DEF t
  <1>9. (one \o rest) \o t = one \o (rest \o t) /\ rest \o t \in Seq(EntryValues)
    <2>1. /\ one \in Seq(EntryValues) /\ rest \in Seq(EntryValues) /\ t \in Seq(EntryValues)
      BY <1>1, <1>4, <1>5
    <2>2. (one \o rest) \o t = one \o (rest \o t)
      BY <2>1, ConcatAssociative, SMTT(20)
    <2>3. rest \o t \in Seq(EntryValues)
      BY <2>1, ConcatParts
    <2> QED BY <2>2, <2>3
  <1>10. /\ LeftToVisit(heap, list, n) = one \o LeftToVisit(heap, list, m)
         /\ LeftToVisit(heap, list, m) \in Seq(EntryValues)
    BY <1>7, <1>8, <1>9, Zenon
  <1> QED BY <1>4, <1>10, Zenon DEF m, one, x, s

LEMMA LeftPast ==
    ASSUME NEW heap, NEW list, list # << >>, Hold(heap, list, EntryValues),
           NEW n \in Nat, n # 0, n > Len(heap[Head(list)].entries)
    PROVE  LeftToVisit(heap, list, n) = EntriesIn(heap, Tail(list))
  <1> DEFINE s == heap[Head(list)].entries
             t == EntriesIn(heap, Tail(list))
             none == << >>
  <1>1. s \in Seq(EntryValues) /\ t \in Seq(EntryValues)
    BY EntriesHead, EntriesType
  <1>2. s = heap[Head(list)].entries /\ n > Len(s)
    OBVIOUS
  <1> HIDE DEF s
  <1>3. SubSeq(s, n, Len(s)) = none
    BY <1>1, <1>2
  <1>4. LeftToVisit(heap, list, n) = SubSeq(s, n, Len(s)) \o EntriesIn(heap, Tail(list))
    BY <1>2, LeftInChunk
  <1>5. none \o t = t
    BY <1>1, ConcatEmptySeq
  <1> QED BY <1>3, <1>4, <1>5, Zenon

LEMMA LeftAlike ==
    ASSUME NEW heap, NEW after, NEW list \in Seq(ChunkIds), NEW n, n # 0 => list # << >>,
           Distinct(list), \A c \in Elements(list) : after[c].entries = heap[c].entries
    PROVE  LeftToVisit(after, list, n) = LeftToVisit(heap, list, n)
  <1>1. EntriesIn(after, list) = EntriesIn(heap, list)
    BY EntriesAlike
  <1>2. CASE n = 0
    BY <1>1, <1>2 DEF LeftToVisit
  <1>3. CASE n # 0
    <2> DEFINE s == heap[Head(list)].entries
               rest == Tail(list)
    <2>1. Head(list) \in Elements(list) /\ Elements(rest) = Elements(list) \ {Head(list)}
      BY <1>3, TailElements, HeadTailProperties DEF Elements
    <2>2. s = after[Head(list)].entries /\ s = heap[Head(list)].entries
      BY <2>1
    <2>3. \A c \in Elements(rest) : after[c].entries = heap[c].entries
      BY <2>1
    <2> HIDE DEF s, rest
    <2>4. EntriesIn(after, rest) = EntriesIn(heap, rest)
      BY <2>3, EntriesAlike
    <2> QED BY <1>3, <2>2, <2>4, LeftInChunk, ZenonT(40) DEF rest
  <1> QED BY <1>2, <1>3

LEMMA ClearOpenChunkMapped ==
    ASSUME Parts, MapInv, ReadersRest, ClearOpenChunk
    PROVE  Mapped
  <1>0. PICK i \in LogIds : i = clear.log_id
    BY DEF ClearOpenChunk, Parts, ClearIsConsistent, Clearing
  <1> DEFINE list == logs[i]
             c == Head(list)
             copied == clear.new_logs
             new == FreshChunk(chunk)
             visited == IncReaderRefCount(WithoutReaders(chunk[c]))
             opened == [chunk EXCEPT ![c] = visited]
             empty == NewChunk(max_size[i] \div kChunkSizeDivisor)
             after == chunk'
             list2 == clear'.new_logs
  <1>1. /\ Clearing /\ Clearing' /\ clear.entry = 0 /\ list # << >>
        /\ logs' = logs /\ UNCHANGED <<sequence, pending>>
    BY <1>0 DEF ClearOpenChunk, Clearing
  <1>2. /\ c \in DOMAIN chunk /\ chunk[c] \in Chunk /\ IsFiniteSet(chunk[c].readers)
    BY <1>0, <1>1, HeadOfClear
  <1>3. \/ /\ chunk' = opened
           /\ clear' = [clear EXCEPT !.entry = 1]
        \/ /\ CanAllocate(chunk)
           /\ chunk' = Allocate(opened, new, empty)
           /\ clear' = [clear EXCEPT !.contains_uid_logs = TRUE, !.entry = 1,
                                     !.new_logs = Append(copied, new)]
    BY <1>0 DEF ClearOpenChunk
  <1>4. visited.entries = chunk[c].entries
    BY <1>2, OpenedHolds
  <1> HIDE DEF visited
  <1>5. /\ DOMAIN opened = DOMAIN chunk
        /\ \A d \in DOMAIN chunk : opened[d].entries = chunk[d].entries
    BY <1>2, <1>4
  <1>6. empty.entries = << >>
    BY DEF NewChunk
  <1>7. CanAllocate(chunk) => new \in ChunkIds /\ new \notin DOMAIN chunk
    BY FreshChunkIsFresh
  <1> HIDE DEF opened, new, empty
  <1>8. /\ Values(chunk) /\ Hold(chunk, list, EntryValues) /\ Hold(chunk, copied, EntryValues)
        /\ IsListIn(copied, chunk) /\ Distinct(copied) /\ IsListIn(list, chunk) /\ Distinct(list)
        /\ AreOfOthers(chunk, copied, clear.uid)
    BY <1>1, HeldLists
  <1> DEFINE a == EntriesIn(chunk, copied)
             s == EntriesIn(chunk, list)
  <1>9. a \in Seq(EntryValues) /\ s \in Seq(EntryValues)
    BY <1>8, EntriesType
  <1>10. /\ clear'.entry = 1 /\ clear'.log_id = i /\ clear'.uid = clear.uid
    BY <1>0, <1>3 DEF Parts, CommandsOK
  <1>11. /\ \A d \in DOMAIN chunk : d \in DOMAIN chunk' /\ chunk'[d].entries = chunk[d].entries
         /\ \A d \in DOMAIN chunk' : d \notin DOMAIN chunk => chunk'[d].entries = << >>
    BY <1>3, <1>5, <1>6, <1>7 DEF Allocate
  <1>12. EntriesIn(after, list2) = a /\ AreOfOthers(chunk', clear'.new_logs, clear.uid)
    <2>1. \A d \in Elements(copied) : d \in DOMAIN after /\ after[d].entries = chunk[d].entries
      BY <1>8, <1>11 DEF IsListIn
    <2>2. EntriesIn(after, copied) = a /\ Hold(after, copied, EntryValues)
      <3> HIDE DEF after, copied, list2
      <3> QED BY <1>8, <2>1, EntriesAlike DEF Hold
    <2>3. CASE clear' = [clear EXCEPT !.entry = 1]
      <3>1. clear'.new_logs = copied
        BY <2>3 DEF Parts, CommandsOK
      <3> QED BY <1>8, <2>1, <2>2, <3>1 DEF AreOfOthers
    <2>4. CASE /\ CanAllocate(chunk)
               /\ chunk' = Allocate(opened, new, empty)
               /\ clear' = [clear EXCEPT !.contains_uid_logs = TRUE, !.entry = 1,
                                         !.new_logs = Append(copied, new)]
      <3>1. list2 = Append(copied, new)
        BY <2>4 DEF Parts, CommandsOK
      <3>2. after[new].entries = << >> /\ new \in ChunkIds /\ new \notin DOMAIN chunk
        BY <1>6, <1>7, <2>4 DEF Allocate
      <3>3. copied \in Seq(ChunkIds) /\ new \notin Elements(copied)
        BY <1>8, <3>2 DEF IsListIn
      <3>4. Elements(list2) = Elements(copied) \cup {new}
        BY <1>8, <3>1, <3>2, <3>3, AppendElements
      <3>5. AreOfOthers(after, list2, clear.uid)
        BY <1>8, <2>1, <3>2, <3>4 DEF AreOfOthers
      <3> DEFINE none == << >>
      <3>6. after[new].entries = none /\ none \in Seq(EntryValues) /\ a \o none = a
        BY <1>9, <3>2, ConcatEmptySeq
      <3> HIDE DEF after, list2, copied, none, a
      <3>7. EntriesIn(after, list2) = EntriesIn(after, copied) \o after[new].entries
        <4>1. after[new].entries \in Seq(EntryValues)
          BY <3>6
        <4>2. EntriesIn(after, Append(copied, new)) = EntriesIn(after, copied) \o after[new].entries
          BY <2>2, <3>2, <4>1, EntriesAppend
        <4> QED BY <3>1, <4>2
      <3>8. EntriesIn(after, list2) = a
        BY <2>2, <3>6, <3>7, Zenon
      <3> QED BY <3>5, <3>8 DEF after, list2
    <2> QED BY <1>3, <2>3, <2>4
  <1>13. LeftToVisit(after, list, 1) = s
    <2>1. \A d \in Elements(list) : after[d].entries = chunk[d].entries
      BY <1>8, <1>11 DEF IsListIn
    <2> HIDE DEF after, list
    <2>2. Hold(after, list, EntryValues) /\ EntriesIn(after, list) = s
      BY <1>8, <2>1, EntriesAlike DEF Hold
    <2> QED BY <1>1, <2>2, LeftFromFirst
  <1>14. LogOf(i) = a \o s
    <2>1. LeftToVisit(chunk, list, clear.entry) = s
      BY <1>1 DEF LeftToVisit
    <2>2. LogOf(i) = EntriesIn(chunk, clear.new_logs) \o LeftToVisit(chunk, logs[i], clear.entry)
      BY <1>0, <1>1, LogBeingCleared
    <2> QED BY <2>1, <2>2, Zenon
  <1>15. LogOf(i)' = a \o s
    <2>1. Clearing' /\ i = clear'.log_id
      BY <1>1, <1>10
    <2>2. LogOf(i)' = EntriesIn(chunk', clear'.new_logs) \o LeftToVisit(chunk', logs'[i], clear'.entry)
      BY <2>1, LogBeingClearedPrimed
    <2>3. clear'.entry = 1 /\ logs'[i] = list
      BY <1>1, <1>10
    <2> HIDE DEF a, s
    <2> QED BY <1>12, <1>13, <2>2, <2>3, Zenon
  <1>16. Values(chunk')
    <2>1. << >> \in Seq(EntryValues)
      OBVIOUS
    <2>2. ASSUME NEW d \in DOMAIN chunk' PROVE chunk'[d].entries \in Seq(EntryValues)
      <3>1. CASE d \in DOMAIN chunk
        BY <1>8, <1>11, <3>1 DEF Values
      <3>2. CASE d \notin DOMAIN chunk
        BY <1>11, <2>1, <3>2
      <3> QED BY <3>1, <3>2
    <2> QED BY <2>2 DEF Values
  <1>17. OthersKept(i)
    BY <1>1, <1>11, HeldLists DEF OthersKept, IsListIn
  <1> QED BY <1>0, <1>1, <1>10, <1>12, <1>14, <1>15, <1>16, <1>17, InvisibleMapped

LEMMA ClearEraseChunkMapped ==
    ASSUME Parts, MapInv, ReadersRest, ClearEraseChunk
    PROVE  Mapped
  <1>0. PICK i \in LogIds : i = clear.log_id
    BY DEF ClearEraseChunk, Parts, ClearIsConsistent, Clearing
  <1> DEFINE list == logs[i]
             c == Head(list)
             copied == clear.new_logs
             after == chunk'
             rest == Tail(list)
             n == clear.entry
             a == EntriesIn(chunk, copied)
             t == EntriesIn(chunk, rest)
  <1>1. /\ Clearing /\ Clearing' /\ n # 0 /\ n > Len(chunk[c].entries)
        /\ chunk' = Free(chunk, {c})
        /\ logs' = [logs EXCEPT ![i] = rest]
        /\ clear' = [clear EXCEPT !.entry = 0]
        /\ UNCHANGED <<sequence, pending>>
    BY <1>0 DEF ClearEraseChunk, Clearing
  <1>2. list # << >> /\ n \in Nat
    BY <1>0, <1>1 DEF Parts, ClearIsConsistent, CommandsOK
  <1>3. /\ c \in DOMAIN chunk /\ c \notin Elements(copied) /\ rest \in Seq(ChunkIds)
        /\ Elements(rest) = Elements(list) \ {c}
        /\ \A j \in LogIds : j # i => c \notin Elements(logs[j])
    BY <1>0, <1>1, <1>2, HeadOfClear
  <1>4. /\ Values(chunk) /\ Hold(chunk, list, EntryValues)
        /\ IsListIn(copied, chunk) /\ IsListIn(list, chunk)
        /\ AreOfOthers(chunk, copied, clear.uid)
    BY <1>1, HeldLists
  <1>5. DOMAIN chunk' = (DOMAIN chunk) \ {c} /\ \A d \in DOMAIN chunk' : chunk'[d] = chunk[d]
    BY <1>1 DEF Free
  <1>6. /\ clear'.new_logs = copied /\ clear'.entry = 0 /\ clear'.log_id = i
        /\ clear'.uid = clear.uid
    BY <1>0, <1>1 DEF Parts, CommandsOK
  <1>7. /\ logs'[i] = rest /\ \A j \in LogIds \ {i} : logs'[j] = logs[j]
    BY <1>1 DEF Parts, LogsOK
  <1>8. \A d \in Elements(copied) : after[d].entries = chunk[d].entries
    BY <1>3, <1>4, <1>5 DEF IsListIn
  <1>9. \A d \in Elements(rest) : after[d].entries = chunk[d].entries
    BY <1>3, <1>4, <1>5 DEF IsListIn
  <1>10. EntriesIn(after, copied) = a /\ EntriesIn(after, rest) = t
    <2> HIDE DEF after, copied, rest
    <2> QED BY <1>8, <1>9, EntriesAlike
  <1>11. LogOf(i) = a \o t
    <2>1. LeftToVisit(chunk, list, n) = t
      BY <1>1, <1>2, <1>4, LeftPast
    <2>2. LogOf(i) = EntriesIn(chunk, clear.new_logs) \o LeftToVisit(chunk, logs[i], clear.entry)
      BY <1>0, <1>1, LogBeingCleared
    <2> QED BY <2>1, <2>2, Zenon
  <1>12. LogOf(i)' = a \o t
    <2>1. Clearing' /\ i = clear'.log_id
      BY <1>1, <1>6
    <2>2. LogOf(i)' = EntriesIn(chunk', clear'.new_logs) \o LeftToVisit(chunk', logs'[i], clear'.entry)
      BY <2>1, LogBeingClearedPrimed
    <2>3. LeftToVisit(after, rest, 0) = t
      BY <1>10 DEF LeftToVisit
    <2> HIDE DEF a, t, rest, copied
    <2> QED BY <1>6, <1>7, <1>10, <2>2, <2>3, Zenon
  <1>13. Values(chunk')
    BY <1>4, <1>5 DEF Values
  <1>14. AreOfOthers(chunk', clear'.new_logs, clear.uid)
    BY <1>4, <1>6, <1>8 DEF AreOfOthers
  <1>15. OthersKept(i)
    <2>1. ASSUME NEW j \in LogIds \ {i}, NEW d \in Elements(logs[j])
          PROVE  chunk'[d].entries = chunk[d].entries
      BY <1>3, <1>5, HeldLists DEF IsListIn
    <2> QED BY <1>7, <2>1 DEF OthersKept
  <1> QED BY <1>0, <1>1, <1>6, <1>11, <1>12, <1>13, <1>14, <1>15, InvisibleMapped

LEMMA ClearSwapMapped ==
    ASSUME Parts, MapInv, ReadersRest, ClearSwap
    PROVE  Mapped
  <1>0. PICK i \in LogIds : i = clear.log_id
    BY DEF ClearSwap, Parts, ClearIsConsistent, Clearing
  <1> DEFINE copied == clear.new_logs
             uid == clear.uid
             a == EntriesIn(chunk, copied)
  <1>1. /\ Clearing /\ ~Clearing' /\ logs[i] = << >> /\ chunk' = chunk
        /\ logs' = [logs EXCEPT ![i] = copied]
        /\ UNCHANGED <<sequence, pending>>
    BY <1>0 DEF ClearSwap, Clearing
  <1>2. clear.entry = 0
    BY <1>0, <1>1 DEF Parts, ClearIsConsistent
  <1>3. /\ Values(chunk) /\ Hold(chunk, copied, EntryValues) /\ AreOfOthers(chunk, copied, uid)
    BY <1>1, HeldLists
  <1>4. /\ logs'[i] = copied /\ \A j \in LogIds \ {i} : logs'[j] = logs[j]
    BY <1>1 DEF Parts, LogsOK
  <1>5. a \in Seq(EntryValues)
    BY <1>3, EntriesType
  <1>6. LogOf(i) = a
    <2> DEFINE none == << >>
    <2>1. LeftToVisit(chunk, logs[i], clear.entry) = none
      BY <1>1, <1>2, EntriesOfNone DEF LeftToVisit
    <2>2. LogOf(i) = EntriesIn(chunk, clear.new_logs) \o LeftToVisit(chunk, logs[i], clear.entry)
      BY <1>0, <1>1, LogBeingCleared
    <2>3. a \o none = a
      BY <1>5, ConcatEmptySeq
    <2> QED BY <2>1, <2>2, <2>3, Zenon
  <1>7. LogOf(i)' = a
    BY <1>1, <1>4 DEF LogOf
  <1>8. AbstractLog' = AbstractLog
    BY <1>0, <1>1, <1>4, <1>6, <1>7, OneLogMapped
  <1>9. \A k \in 1 .. Len(LogOf(i)) : LogOf(i)[k].uid # uid
    <2>1. Hold(chunk, copied, OthersThan(uid))
      BY <1>3, HoldOthers
    <2>2. a \in Seq(OthersThan(uid))
      BY <2>1, EntriesType
    <2> HIDE DEF a
    <2>3. \A k \in 1 .. Len(a) : a[k] \in OthersThan(uid)
      BY <2>2, ElementOfSeq
    <2>4. \A k \in 1 .. Len(a) : a[k].uid # uid
      BY <2>3 DEF OthersThan
    <2> QED BY <1>6, <2>4
  <1>10. AbstractStep
    BY <1>0, <1>1, <1>8, <1>9, EndClearStep
  <1>11. EntriesAreValues' /\ CopiesAreOfOthers'
    BY <1>1, <1>3, MapPrimed DEF MapInv, EntriesAreValues
  <1> QED BY <1>10, <1>11 DEF Mapped

\* One entry is visited: it is dropped if it is of the uid, else it is taken over.
LEMMA ClearEntryMapped ==
    ASSUME Parts, ChunkInv, SizeInv, MapInv, ReadersRest, ClearEntry
    PROVE  Mapped
  <1>0. PICK i \in LogIds : i = clear.log_id
    <2>1. Clearing
      BY Zenon DEF ClearEntry, Clearing
    <2> QED BY <2>1 DEF Parts, ClearIsConsistent
  <1> DEFINE n == clear.entry
             list == logs[i]
             copied == clear.new_logs
             size == max_size[i]
             uid == clear.uid
             entry == chunk[Head(list)].entries[n]
             a == EntriesIn(chunk, copied)
             rest == LeftToVisit(chunk, list, n + 1)
  <1>1. /\ Clearing /\ Clearing' /\ n # 0 /\ n <= Len(chunk[Head(list)].entries)
        /\ logs' = logs /\ sequence' = sequence /\ pending' = pending
    BY <1>0, Zenon DEF ClearEntry, Clearing
  <1>2. /\ IsListIn(list, chunk) /\ Distinct(list) /\ IsListIn(copied, chunk) /\ Distinct(copied)
        /\ Hold(chunk, list, EntryValues) /\ Hold(chunk, copied, EntryValues)
        /\ Values(chunk) /\ IsHeap(chunk) /\ AreOfOthers(chunk, copied, uid)
    BY <1>1, HeldLists
  <1>3. list # << >> /\ n \in Nat
    BY <1>0, <1>1 DEF Parts, ClearIsConsistent, CommandsOK
  <1>4. Head(list) \in DOMAIN chunk /\ chunk[Head(list)] \in Chunk
    BY <1>0, <1>1, <1>3, HeadOfClear
  <1>5. n \in 1 .. Len(chunk[Head(list)].entries)
    BY <1>1, <1>3, <1>4, ChunkFields
  <1>6. /\ LeftToVisit(chunk, list, n) = <<entry>> \o rest
        /\ entry \in EntryValues /\ rest \in Seq(EntryValues)
    BY <1>2, <1>3, <1>5, LeftBehind
  <1>7. a \in Seq(EntryValues)
    BY <1>2, EntriesType
  <1>8. LogOf(i) = a \o (<<entry>> \o rest)
    <2>1. LogOf(i) = EntriesIn(chunk, clear.new_logs) \o LeftToVisit(chunk, logs[i], clear.entry)
      BY <1>0, <1>1, LogBeingCleared
    <2> QED BY <1>6, <2>1, Zenon
  <1>9. LET s == a \o (<<entry>> \o rest)
            k == Len(a) + 1
        IN  /\ k \in 1 .. Len(s) /\ s[k] = entry
            /\ SubSeq(s, 1, k - 1) \o SubSeq(s, k + 1, Len(s)) = a \o rest
            /\ s = Append(a, entry) \o rest
    <2>1. a \in Seq(EntryValues) /\ rest \in Seq(EntryValues) /\ entry \in EntryValues
      BY <1>6, <1>7
    <2> HIDE DEF a, rest, entry
    <2>2. IsBetween(a, entry, rest)
      BY <2>1, WithoutOne
    <2> QED BY <2>2, Zenon DEF IsBetween
  <1>10. \/ /\ entry.uid = uid
            /\ clear' = [clear EXCEPT !.entry = n + 1]
            /\ chunk' = chunk
         \/ /\ entry.uid # uid
            /\ NeedsChunk(chunk, copied, entry) => CanAllocate(chunk)
            /\ \E zsize \in ZSizes(chunk, copied, entry) :
                  /\ chunk' = LogToLogBuffer(chunk, copied, size, entry, zsize).heap
                  /\ clear' = [clear EXCEPT !.entry = n + 1,
                               !.new_logs = LogToLogBuffer(chunk, copied, size, entry, zsize).list]
    BY <1>0, Zenon DEF ClearEntry
  <1>11. ASSUME entry.uid = uid, clear' = [clear EXCEPT !.entry = n + 1], chunk' = chunk
         PROVE  Mapped
    <2>1. clear'.new_logs = copied /\ clear'.entry = n + 1 /\ clear'.log_id = i /\ clear'.uid = uid
      BY <1>0, <1>11 DEF Parts, CommandsOK
    <2>2. LogOf(i)' = a \o rest
      <3>1. Clearing' /\ i = clear'.log_id
        BY <1>1, <2>1
      <3>2. LogOf(i)' = EntriesIn(chunk', clear'.new_logs) \o LeftToVisit(chunk', logs'[i], clear'.entry)
        BY <3>1, LogBeingClearedPrimed
      <3> QED BY <1>1, <1>11, <2>1, <3>2, Zenon
    <2> DEFINE s == LogOf(i)
               k == Len(a) + 1
               left == a \o rest
    <2>3. /\ k \in 1 .. Len(s) /\ s[k] = entry
          /\ SubSeq(s, 1, k - 1) \o SubSeq(s, k + 1, Len(s)) = left
      BY <1>8, <1>9, Zenon
    <2>4. /\ \A j \in LogIds \ {i} : logs'[j] = logs[j]
          /\ \A j \in LogIds \ {i} : \A d \in Elements(logs[j]) : chunk'[d].entries = chunk[d].entries
      BY <1>1, <1>11
    <2>5. (Clearing => clear.log_id = i) /\ (Clearing' => clear'.log_id = i) /\ LogOf(i)' = left
      BY <1>0, <2>1, <2>2
    <2> HIDE DEF left, k
    <2>6. AbstractLog' = [AbstractLog EXCEPT ![i] = left]
      BY <2>4, <2>5, OneLogMapped
    <2>7. AbstractStep
      <3>1. /\ clear.log_id = i /\ clear'.log_id = i /\ clear.uid = uid /\ clear'.uid = uid
            /\ Clearing /\ Clearing'
        BY <1>0, <1>1, <2>1
      <3>2. k \in 1 .. Len(LogOf(i)) /\ LogOf(i)[k].uid = uid
        BY <1>11, <2>3
      <3>3. AbstractLog' = [AbstractLog EXCEPT ![i] =
                SubSeq(LogOf(i), 1, k - 1) \o SubSeq(LogOf(i), k + 1, Len(LogOf(i)))]
        BY <2>3, <2>6
      <3> HIDE DEF s, entry, uid
      <3> QED BY <3>1, <3>2, <3>3, ClearEntryStep
    <2>8. EntriesAreValues' /\ CopiesAreOfOthers'
      BY <1>1, <1>2, <1>11, <2>1, MapPrimed DEF MapInv, EntriesAreValues
    <2> QED BY <2>7, <2>8 DEF Mapped
  <1>12. ASSUME entry.uid # uid,
                NEW zsize \in ZSizes(chunk, copied, entry),
                NeedsChunk(chunk, copied, entry) => CanAllocate(chunk),
                chunk' = LogToLogBuffer(chunk, copied, size, entry, zsize).heap,
                clear' = [clear EXCEPT !.entry = n + 1,
                             !.new_logs = LogToLogBuffer(chunk, copied, size, entry, zsize).list]
         PROVE  Mapped
    <2> DEFINE logged == LogToLogBuffer(chunk, copied, size, entry, zsize)
               E == OthersThan(uid)
               m == n + 1
    <2>1. chunk' = logged.heap /\ clear' = [clear EXCEPT !.entry = m, !.new_logs = logged.list]
      BY <1>12
    <2>2. Appends(chunk, copied, entry, logged, EntryValues)
      <3> HIDE DEF entry, copied, size
      <3> QED BY <1>2, <1>6, <1>12, LogAppends
    <2>3. Hold(chunk, copied, E) /\ entry \in E
      BY <1>2, <1>6, <1>12, HoldOthers DEF OthersThan
    <2>4. Appends(chunk, copied, entry, logged, E)
      <3> HIDE DEF entry, copied, size, E
      <3> QED BY <1>2, <1>12, <2>3, LogAppends
    <2> HIDE DEF logged, E
    <2>5. /\ clear'.new_logs = logged.list /\ clear'.entry = m /\ clear'.log_id = i
          /\ clear'.uid = uid
      BY <1>0, <2>1 DEF Parts, CommandsOK
    <2> DEFINE after == logged.heap
               longer == logged.list
    <2>6. /\ Hold(after, longer, EntryValues)
          /\ EntriesIn(after, longer) = Append(a, entry)
          /\ DOMAIN after = (DOMAIN chunk) \cup Elements(longer)
          /\ \A d \in (DOMAIN chunk) \ Elements(copied) : /\ d \notin Elements(longer)
                                                          /\ after[d].entries = chunk[d].entries
          /\ Hold(after, longer, E)
      BY <2>2, <2>4 DEF Appends
    <2>7. \A j \in LogIds : \A d \in Elements(logs[j]) :
             d \in DOMAIN chunk /\ after[d].entries = chunk[d].entries
      <3>1. \A j \in LogIds : Elements(logs[j]) \cap Elements(copied) = {}
        BY DEF Parts, ListsAreDisjoint
      <3>2. \A j \in LogIds : Elements(logs[j]) \subseteq DOMAIN chunk
        BY HeldLists DEF IsListIn
      <3> QED BY <2>6, <3>1, <3>2
    <2>8. LeftToVisit(after, list, m) = rest
      <3>1. \A d \in Elements(list) : after[d].entries = chunk[d].entries
        BY <2>7
      <3>2. list \in Seq(ChunkIds) /\ (m # 0 => list # << >>)
        BY <1>2, <1>3 DEF IsListIn
      <3> HIDE DEF after, list, m, n
      <3>3. LeftToVisit(after, list, m) = LeftToVisit(chunk, list, m)
        BY <1>2, <3>1, <3>2, LeftAlike
      <3> QED BY <3>3 DEF m
    <2>9. LogOf(i)' = Append(a, entry) \o rest
      <3>1. Clearing' /\ i = clear'.log_id
        BY <1>1, <2>5
      <3>2. LogOf(i)' = EntriesIn(chunk', clear'.new_logs) \o LeftToVisit(chunk', logs'[i], clear'.entry)
        BY <3>1, LogBeingClearedPrimed
      <3>3. chunk' = after /\ clear'.new_logs = longer /\ clear'.entry = m /\ logs'[i] = list
        BY <1>1, <2>1, <2>5
      <3> HIDE DEF a, rest, entry, list, after, longer, m
      <3> QED BY <2>6, <2>8, <3>2, <3>3, Zenon
    <2>10. LogOf(i)' = LogOf(i)
      BY <1>8, <1>9, <2>9, Zenon
    <2>11. Values(chunk')
      <3> SUFFICES ASSUME NEW d \in DOMAIN after PROVE after[d].entries \in Seq(EntryValues)
        BY <2>1 DEF Values
      <3>1. CASE d \in Elements(longer)
        BY <2>6, <3>1 DEF Hold
      <3>2. CASE d \notin Elements(longer)
        <4>1. d \in DOMAIN chunk
          BY <2>6, <3>2
        <4>2. d \notin Elements(copied)
          <5>1. Elements(copied) \subseteq Elements(longer)
            <6>1. entry \in Entry /\ zsize \in Nat
              BY <1>4, <1>5, ChunkFields, ElementOfSeq, ZSizesType
            <6>2. copied \in Seq(ChunkIds) /\ Elements(copied) \subseteq DOMAIN chunk
              BY <1>2 DEF IsListIn
            <6>3. size \div kChunkSizeDivisor \in Nat /\ size \in Nat
                  /\ SIZEOF_CHUNK + size \div kChunkSizeDivisor <= size
              BY ChunkHasRoom
            <6> HIDE DEF entry, copied, size
            <6>4. Extends(chunk, copied, logged)
              BY <1>2, <1>12, <6>1, <6>2, <6>3, LogToLogBufferExtends DEF logged
            <6> QED BY <6>4 DEF Extends
          <5> QED BY <3>2, <5>1
        <4> QED BY <1>2, <2>6, <4>1, <4>2 DEF Values
      <3> QED BY <3>1, <3>2
    <2>12. AreOfOthers(chunk', clear'.new_logs, uid)
      <3> HIDE DEF after, longer
      <3>1. AreOfOthers(after, longer, uid)
        BY <2>6, HoldOthers DEF E
      <3> QED BY <2>1, <2>5, <3>1 DEF after, longer
    <2>13. OthersKept(i)
      BY <1>1, <2>1, <2>7 DEF OthersKept
    <2> QED BY <1>0, <1>1, <2>5, <2>10, <2>11, <2>12, <2>13, InvisibleMapped
  <1>13. ASSUME /\ entry.uid # uid
                /\ NeedsChunk(chunk, copied, entry) => CanAllocate(chunk)
                /\ \E zsize \in ZSizes(chunk, copied, entry) :
                      /\ chunk' = LogToLogBuffer(chunk, copied, size, entry, zsize).heap
                      /\ clear' = [clear EXCEPT !.entry = n + 1,
                             !.new_logs = LogToLogBuffer(chunk, copied, size, entry, zsize).list]
         PROVE  Mapped
    BY <1>12, <1>13, Zenon
  <1>14. ASSUME entry.uid = uid /\ clear' = [clear EXCEPT !.entry = n + 1] /\ chunk' = chunk
         PROVE  Mapped
    BY <1>11, <1>14, Zenon
  <1> QED BY <1>10, <1>13, <1>14, Zenon

-----------------------------------------------------------------------------
(***************************************************************************)
(* The readers                                                              *)
(***************************************************************************)

\* A filter does not touch the number a thread holds.
LEMMA OutcomeKeepsOut ==
    ASSUME NEW t \in Thread, NEW entry \in Entry, NEW start
    PROVE  Outcome(t, start, entry).thread.out = t.out
  <1> DEFINE o == Outcome(t, start, entry)
             index == t.index + 1
             tail == IF t.non_block THEN t.tail ELSE 0
             a == [t EXCEPT !.count = t.count + 1]
             b == [t EXCEPT !.index = index]
             c == [t EXCEPT !.index = index, !.tail = tail]
             u == [t EXCEPT !.sequence = entry.sequence, !.start_time_set = TRUE]
             v == [t EXCEPT !.sequence = t.last, !.start_time_set = TRUE]
             x == [t EXCEPT !.last = entry.sequence]
  <1>1. t.pass \in {"find", "first", "second"}
    BY DEF Thread
  <1>2. \/ o = Filtered(t, "kSkip")
        \/ o = FilterFirstPass(t, entry)
        \/ o = LogFindStart(t, entry)
        \/ o = FilterSecondPass(t, entry)
    BY <1>1 DEF Outcome, Filter
  <1>3. FilterFirstPass(t, entry) \in {Filtered(a, "kSkip"), Filtered(t, "kSkip")}
    BY Zenon DEF FilterFirstPass
  <1>4. LogFindStart(t, entry) \in {Filtered(t, "kSkip"), Filtered(u, "kStop"),
                                    Filtered(v, "kStop"), Filtered(x, "kSkip")}
    BY Zenon DEF LogFindStart
  <1>5. \E result : FilterSecondPass(t, entry) \in
            {Filtered(t, result), Filtered(b, result), Filtered(c, result)}
    BY Zenon DEF FilterSecondPass
  <1>6. a.out = t.out /\ b.out = t.out /\ c.out = t.out
    BY DEF Thread
  <1>7. u.out = t.out /\ v.out = t.out /\ x.out = t.out
    BY DEF Thread
  <1> HIDE DEF o, a, b, c, u, v, x
  <1>8. o.thread \in {t, a, b, c, u, v, x}
    BY <1>2, <1>3, <1>4, <1>5, FilteredType
  <1> QED BY <1>6, <1>7, <1>8 DEF o

\* FlushTo() copies an entry of a log, which the thread goes on to write.
TakesEntry(r, t) ==
    /\ t.pc = "write" /\ thread[r].pc = "flush" /\ thread[r].pass = "second" /\ logd_lock = {r}
    /\ \E i, entry, u : /\ FlushesEntry(r, i, entry, "kWrite", u)
                        /\ t.out = entry.sequence

\* The write ends; only if it succeeded, the client has been sent d.
Writes(r, t, d) ==
    /\ thread[r].pc = "write" /\ t.pc # "write" /\ t.out = 0
    /\ d = delivered[r] \/ d = Append(delivered[r], thread[r].out)

\* What a step of r does with the number it holds.
LEMMA StepOut ==
    ASSUME Parts, NEW r \in Readers, StepOf(r), thread[r].out # 0 <=> thread[r].pc = "write"
    PROVE  \E t, d : /\ Becomes(r, t, d)
                     /\ \/ d = delivered[r] /\ t.out = thread[r].out
                           /\ (t.pc = "write" <=> thread[r].pc = "write")
                        \/ d = delivered[r] /\ TakesEntry(r, t)
                        \/ Writes(r, t, d)
  <1> DEFINE t == thread[r]
             d == delivered[r]
             Same(u) == u.out = t.out /\ (u.pc = "write" <=> t.pc = "write")
  <1>1. t \in Thread /\ DOMAIN thread = Readers
    BY DEF Parts, ThreadsOK
  <1>2. delivered' = delivered => delivered' = [delivered EXCEPT ![r] = d]
    BY DEF Parts, HistoryOK
  <1>3. ASSUME NEW u, thread' = [thread EXCEPT ![r] = u], delivered' = delivered, Same(u)
        PROVE  Becomes(r, u, d) /\ Same(u)
    BY <1>2, <1>3 DEF Becomes
  <1>4. CASE OnDataAvailable(r)
    <2>1. PICK q \in Requests :
            \/ thread' = [thread EXCEPT ![r] = NewThread(q, "found")]
            \/ thread' = [thread EXCEPT ![r] = NewThread(q, "flush")]
      BY <1>4 DEF OnDataAvailable
    <2>2. t.pc = "idle" /\ delivered' = delivered
      BY <1>4 DEF OnDataAvailable
    <2>3. Same(NewThread(q, "found")) /\ Same(NewThread(q, "flush"))
      BY <2>2 DEF NewThread
    <2> HIDE DEF Same
    <2> QED BY <1>3, <2>1, <2>2, <2>3 DEF Same
  <1>6. CASE FindReturns(r)
    <2> DEFINE u1 == [t EXCEPT !.pc = "found"]
               u2 == [t EXCEPT !.pc = "gone"]
               u3 == [t EXCEPT !.pc = "found", !.sequence = sequence]
    <2>1. t.pc = "stop" /\ sequence \in Nat /\ delivered' = delivered
      BY <1>6 DEF FindReturns, Parts, WritersOK
    <2>2. Same(u1) /\ Same(u2) /\ Same(u3)
      BY <1>1, <2>1 DEF Thread
    <2>3. \E u \in {u1, u2, u3} : thread' = [thread EXCEPT ![r] = u]
      BY <1>6 DEF FindReturns
    <2> HIDE DEF u1, u2, u3, Same
    <2> QED BY <1>3, <2>1, <2>2, <2>3 DEF Same
  <1>7. CASE CreateThread(r)
    <2> DEFINE u == [t EXCEPT !.pc = "start", !.pass = "second", !.last = 1,
                              !.start_time_set = FALSE]
    <2>1. t.pc = "found" /\ thread' = [thread EXCEPT ![r] = u] /\ delivered' = delivered
      BY <1>7 DEF CreateThread
    <2>2. Same(u)
      BY <1>1, <2>1 DEF Thread
    <2> HIDE DEF u, Same
    <2> QED BY <1>3, <2>1, <2>2 DEF Same
  <1>8. CASE DoSocketDelete(r)
    <2> DEFINE u == [t EXCEPT !.release = TRUE]
               w == TriggerReader(u)
    <2>1. u \in Thread
      BY <1>1 DEF Thread
    <2>2. thread' = [thread EXCEPT ![r] = w] /\ delivered' = delivered
      BY <1>8 DEF DoSocketDelete, Release
    <2>3. Same(w)
      BY <1>1, <2>1, TriggerReaderRests
    <2> HIDE DEF w, Same
    <2> QED BY <1>3, <2>2, <2>3 DEF Same
  <1>9. CASE DeadlinePasses(r) \/ FlushToNoMore(r) \/ ThreadExits(r)
    <2> DEFINE u1 == [t EXCEPT !.pc = "timed_out"]
               u2 == [t EXCEPT !.pc = "stop"]
               u3 == [t EXCEPT !.pc = "gone"]
    <2>1. /\ \E u \in {u1, u2, u3} : thread' = [thread EXCEPT ![r] = u]
          /\ t.pc # "write" /\ delivered' = delivered
      BY <1>9 DEF DeadlinePasses, FlushToNoMore, ThreadExits, Flushing
    <2>2. Same(u1) /\ Same(u2) /\ Same(u3)
      BY <1>1, <2>1 DEF Thread
    <2> HIDE DEF u1, u2, u3, Same
    <2> QED BY <1>3, <2>1, <2>2 DEF Same
  <1>10. ASSUME NEW u, u \in Thread, u.out = t.out, t.pc # "write", delivered' = delivered,
                EnterFlushTo(r, u) \/ LeaveLoop(r, u)
         PROVE  \E w : Becomes(r, w, d) /\ Same(w)
    <2> DEFINE u1 == BeginFlush(u, "first")
               u2 == BeginFlush(u, "second")
               u3 == [u EXCEPT !.pc = "exit"]
    <2>1. \E w \in {u1, u2, u3} : thread' = [thread EXCEPT ![r] = w]
      BY <1>10, Zenon DEF EnterFlushTo, LeaveLoop
    <2>2. Same(u1) /\ Same(u2) /\ Same(u3)
      BY <1>10 DEF BeginFlush, Thread
    <2> HIDE DEF u1, u2, u3
    <2> QED BY <1>3, <1>10, <2>1, <2>2
  <1>11. CASE LoopTop(r)
    <2> DEFINE u == [t EXCEPT !.pc = "wait_until"]
    <2>1. t.pc # "write" /\ delivered' = delivered
      BY <1>11 DEF LoopTop
    <2>2. \/ EnterFlushTo(r, t) \/ LeaveLoop(r, t)
          \/ thread' = [thread EXCEPT ![r] = u]
      BY <1>11 DEF LoopTop
    <2>3. Same(u)
      BY <1>1, <2>1 DEF Thread
    <2>4. \E w : Becomes(r, w, d) /\ Same(w)
      <3> HIDE DEF u
      <3> QED BY <1>1, <1>3, <1>10, <2>1, <2>2, <2>3
    <2> QED BY <2>4
  <1>12. CASE AfterWaitUntil(r)
    <2> DEFINE u == [t EXCEPT !.deadline = t.deadline /\ t.pc # "timed_out"]
    <2>1. t.pc # "write" /\ delivered' = delivered
      BY <1>12 DEF AfterWaitUntil
    <2>2. EnterFlushTo(r, u) \/ LeaveLoop(r, u)
      BY <1>12, Zenon DEF AfterWaitUntil
    <2>3. u \in Thread /\ u.out = t.out
      BY <1>1 DEF Thread
    <2>4. \E w : Becomes(r, w, d) /\ Same(w)
      <3> HIDE DEF u
      <3> QED BY <1>10, <2>1, <2>2, <2>3
    <2> QED BY <2>4
  <1>13. CASE CheckForNewLogs(r)
    <2> DEFINE u == [t EXCEPT !.log_id = t.log_id + 1]
    <2>1. thread' = [thread EXCEPT ![r] = u] /\ delivered' = delivered /\ t.pc # "write"
      BY <1>13, Zenon DEF CheckForNewLogs, Flushing
    <2>2. Same(u)
      BY <1>1 DEF Thread
    <2> HIDE DEF u, Same
    <2> QED BY <1>3, <2>1, <2>2 DEF Same
  <1>14. CASE FirstPassReturns(r)
    <2> DEFINE u == BeginFlush(t, "second")
    <2>1. thread' = [thread EXCEPT ![r] = u] /\ delivered' = delivered /\ t.pc # "write"
      BY <1>14 DEF FirstPassReturns
    <2>2. Same(u)
      BY <1>1, <2>1 DEF Thread, BeginFlush
    <2> HIDE DEF u, Same
    <2> QED BY <1>3, <2>1, <2>2 DEF Same
  <1>15. CASE SecondPassReturns(r)
    <2> DEFINE u1 == [t EXCEPT !.pc = "exit", !.start_time = EPOCH]
               u2 == [t EXCEPT !.pc = IF t.deadline THEN "wait_until" ELSE "wait",
                               !.start_time = EPOCH]
    <2>1. /\ \E u \in {u1, u2} : thread' = [thread EXCEPT ![r] = u]
          /\ t.pc # "write" /\ delivered' = delivered
      BY <1>15 DEF SecondPassReturns
    <2>2. Same(u1) /\ Same(u2)
      BY <1>1, <2>1 DEF Thread
    <2> HIDE DEF u1, u2, Same
    <2> QED BY <1>3, <2>1, <2>2 DEF Same
  <1>16. CASE WriteSucceeds(r) \/ WriteFails(r)
    <2> DEFINE u1 == [t EXCEPT !.pc = "flush", !.log_id = 0, !.out = 0]
               u2 == [t EXCEPT !.pc = "exit", !.start_time = EPOCH, !.out = 0]
    <2>1. \/ Becomes(r, u1, Append(d, t.out))
          \/ Becomes(r, u2, d)
      BY <1>2, <1>16 DEF WriteSucceeds, WriteFails, Becomes
    <2>2. t.pc = "write"
      BY <1>16 DEF WriteSucceeds, WriteFails
    <2>3. u1.pc # "write" /\ u1.out = 0 /\ u2.pc # "write" /\ u2.out = 0
      BY <1>1 DEF Thread
    <2> HIDE DEF u1, u2
    <2>4. Writes(r, u1, Append(d, t.out)) /\ Writes(r, u2, d)
      BY <2>2, <2>3 DEF Writes
    <2> QED BY <2>1, <2>4
  <1>17. CASE FlushToEntry(r)
    <2>1. PICK i, entry, result, u : FlushesEntry(r, i, entry, result, u)
      BY <1>17, FlushToEntryCases
    <2>2. t.pc = "flush" /\ logd_lock = {r}
      BY <1>17 DEF FlushToEntry, Flushing
    <2>3. PICK w : /\ Becomes(r, w, d)
                   /\ \/ w = [u EXCEPT !.log_id = 0]
                      \/ w = [u EXCEPT !.pc = "stop"]
                      \/ /\ result = "kWrite"
                         /\ w = [u EXCEPT !.pc = "write", !.out = entry.sequence]
      BY <2>1, Zenon DEF FlushesEntry
    <2>4. /\ entry \in Entry
          /\ u = Outcome(t, state[Current(r)].start, entry).thread
          /\ result = Outcome(t, state[Current(r)].start, entry).result
      BY <2>1, Zenon DEF FlushesEntry
    <2>5. u \in Thread /\ u.pc = "flush" /\ (result = "kWrite" => t.pass = "second")
      BY <1>1, <2>2, <2>4, OutcomeType DEF FilterOK
    <2>6. u.out = t.out
      BY <1>1, <2>4, OutcomeKeepsOut
    <2>7. \/ w.pc # "write" /\ w.out = t.out
          \/ result = "kWrite" /\ w.pc = "write" /\ w.out = entry.sequence
      <3>1. CASE w = [u EXCEPT !.log_id = 0]
        BY <2>5, <2>6, <3>1 DEF Thread
      <3>2. CASE w = [u EXCEPT !.pc = "stop"]
        BY <2>5, <2>6, <3>2 DEF Thread
      <3>3. CASE result = "kWrite" /\ w = [u EXCEPT !.pc = "write", !.out = entry.sequence]
        BY <2>5, <3>3 DEF Thread
      <3> QED BY <2>3, <3>1, <3>2, <3>3
    <2>8. CASE w.pc # "write" /\ w.out = t.out
      BY <2>2, <2>3, <2>8
    <2>9. CASE result = "kWrite" /\ w.pc = "write" /\ w.out = entry.sequence
      <3>1. TakesEntry(r, w)
        BY <2>1, <2>2, <2>5, <2>9 DEF TakesEntry
      <3> QED BY <2>3, <3>1
    <2> QED BY <2>7, <2>8, <2>9
  <1> QED BY <1>4, <1>6, <1>7, <1>8, <1>9, <1>11, <1>12, <1>13, <1>14, <1>15, <1>16, <1>17
          DEF StepOf, ReaderStep

\* What was sent without going back is below what the last number is below.
LEMMA NoneAbove ==
    ASSUME NEW d \in Seq(Nat), NeverBack(d), NEW n \in Nat, d # << >> => LastOf(d) <= n
    PROVE  \A m \in 1 .. Len(d) : d[m] <= n
  <1> DEFINE len == Len(d)
             T == {k \in Nat : k < len => d[len - k] <= n}
  <1>1. len \in Nat /\ (len # 0 => d # << >>)
    BY LenProperties, EmptySeq
  <1>2. 0 \in T
    <2>1. len - 0 = len
      BY <1>1
    <2>2. 0 < len => d[len] <= n
      BY <1>1 DEF LastOf
    <2> QED BY <1>1, <2>1, <2>2
  <1>3. ASSUME NEW k \in Nat, k \in T PROVE k + 1 \in T
    <2> SUFFICES ASSUME k + 1 < len PROVE d[len - (k + 1)] <= n
      OBVIOUS
    <2> DEFINE m == len - (k + 1)
    <2>1. /\ m \in 1 .. len - 1 /\ m + 1 = len - k /\ k < len
          /\ m \in 1 .. len /\ m + 1 \in 1 .. len
      BY <1>1
    <2>2. d[len - k] <= n
      BY <1>3, <2>1
    <2> HIDE DEF m
    <2>3. d[m] <= d[m + 1] /\ d[m + 1] <= n
      BY <2>1, <2>2 DEF NeverBack
    <2>4. d[m] \in Nat /\ d[m + 1] \in Nat
      BY <2>1, ElementOfSeq
    <2> DEFINE x == d[m]
               y == d[m + 1]
    <2>5. x <= y /\ y <= n /\ x \in Nat /\ y \in Nat
      BY <2>3, <2>4
    <2> HIDE DEF x, y
    <2>6. x <= n
      BY <2>5
    <2> QED BY <2>6 DEF m, x
  <1> HIDE DEF T
  <1>4. Nat \subseteq T
    BY <1>2, <1>3, Induction
  <1>5. ASSUME NEW m \in 1 .. len PROVE d[m] <= n
    <2> DEFINE k == len - m
    <2>1. k \in Nat /\ k < len /\ len - k = m
      BY <1>1
    <2>2. k \in T
      BY <1>4, <2>1
    <2> HIDE DEF k
    <2>3. d[len - k] <= n
      BY <2>1, <2>2 DEF T
    <2> QED BY <2>1, <2>3
  <1> QED BY <1>5

\* The entry FlushTo() comes to is one of a log, and not older than what was sent.
LEMMA CopiedIsLogged ==
    ASSUME Parts, StartFollows, NoneGoesBack, MapInv, ~Clearing, NEW r \in Readers, NEW t, TakesEntry(r, t)
    PROVE  /\ t.out # 0
           /\ \E i \in LogIds : \E k \in 1 .. Len(LogOf(i)) :
                /\ t.out = LogOf(i)[k].sequence
                /\ \A m \in 1 .. Len(delivered[r]) : delivered[r][m] <= LogOf(i)[k].sequence
  <1> DEFINE d == delivered[r]
             st == state[Main(r)]
  <1>1. PICK i, entry, u : FlushesEntry(r, i, entry, "kWrite", u) /\ t.out = entry.sequence
    BY DEF TakesEntry
  <1>2. /\ thread[r].pc = "flush" /\ thread[r].pass = "second"
    BY DEF TakesEntry
  <1> DEFINE result == "kWrite"
  <1>3. FlushesEntry(r, i, entry, result, u)
    BY <1>1
  <1>4. result = "kWrite"
    OBVIOUS
  <1> HIDE DEF result
  <1>5. /\ Main(r) \in DOMAIN state /\ st.start \in Nat /\ entry.sequence \in Nat
        /\ result = "kWrite" => ~(entry.sequence < st.start)
        /\ i \in DOMAIN st.log_positions
        /\ entry = EntryAt(st.log_positions[i], chunk)
    BY <1>2, <1>3, FlushedState
  <1>6. i \in UnreadLogs(st)
    BY <1>2, <1>3 DEF FlushesEntry, Current
  <1> DEFINE pos == st.log_positions[i]
             c == pos.buffer_it
             k == pos.read_offset + 1
  <1>7. /\ i \in LogIds /\ c \in Elements(logs[i]) /\ c \in DOMAIN chunk
        /\ pos.read_offset < Len(chunk[c].entries)
        /\ pos.read_offset \in Nat
    <2>1. IsState(st)
      BY <1>5 DEF Parts, StatesOK
    <2>2. /\ i \in LogIds /\ pos.read_offset \in Nat
      BY <1>5, <2>1 DEF IsState, FlushToState, Position
    <2>3. i \notin st.logs_needed
      BY <1>6 DEF UnreadLogs
    <2> QED BY <1>5, <2>2, <2>3 DEF Parts, PositionsAreValid
  <1>8. Values(chunk) /\ Hold(chunk, logs[i], EntryValues)
    BY <1>7, HeldLists
  <1>9. chunk[c].entries \in Seq(EntryValues)
    BY <1>7, <1>8 DEF Values
  <1>10. k \in 1 .. Len(chunk[c].entries) /\ entry = chunk[c].entries[k]
    BY <1>5, <1>7, <1>9, LenProperties, SMTT(20) DEF EntryAt
  <1>11. entry \in EntryValues
    BY <1>9, <1>10, ElementOfSeq
  <1>12. entry.sequence # 0
    BY <1>11, EntryAssumption DEF EntryValues
  <1> HIDE DEF k, c, pos
  <1>13. PICK m \in 1 .. Len(EntriesIn(chunk, logs[i])) : EntriesIn(chunk, logs[i])[m] = entry
    BY <1>7, <1>8, <1>10, EntryIsInList
  <1>14. LogOf(i) = EntriesIn(chunk, logs[i])
    BY DEF LogOf
  <1>15. \A j \in 1 .. Len(d) : d[j] <= entry.sequence
    <2>1. d \in Seq(Nat) /\ NeverBack(d) /\ Follows(r, thread[r], d, state)
      BY StartFollowsByThread DEF Parts, HistoryOK, NoneGoesBack
    <2>2. d # << >> => LastOf(d) <= st.start
      BY <1>5, <2>1 DEF Follows
    <2>3. d # << >> => LastOf(d) \in Nat
      BY <2>1, EmptySeq, LenProperties, ElementOfSeq DEF LastOf
    <2>4. d # << >> => LastOf(d) <= entry.sequence
      BY <1>4, <1>5, <2>2, <2>3
    <2> DEFINE n == entry.sequence
    <2>5. n \in Nat /\ (d # << >> => LastOf(d) <= n)
      BY <1>5, <2>4
    <2> HIDE DEF n, d
    <2>6. \A j \in 1 .. Len(d) : d[j] <= n
      BY <2>1, <2>5, NoneAbove
    <2> QED BY <2>6 DEF n
  <1>16. m \in 1 .. Len(LogOf(i)) /\ LogOf(i)[m] = entry
    BY <1>13, <1>14
  <1> QED BY <1>1, <1>7, <1>12, <1>15, <1>16

LEMMA StepMapped ==
    ASSUME Parts, StartFollows, NoneGoesBack, MapInv, NEW r \in Readers, StepOf(r)
    PROVE  MapInv' /\ AbstractStep
  <1>1. thread[r].out # 0 <=> thread[r].pc = "write"
    BY DEF MapInv, OutIsWritten
  <1>2. PICK t, d : /\ Becomes(r, t, d)
                    /\ \/ d = delivered[r] /\ t.out = thread[r].out
                           /\ (t.pc = "write" <=> thread[r].pc = "write")
                       \/ d = delivered[r] /\ TakesEntry(r, t)
                       \/ Writes(r, t, d)
    BY <1>1, StepOut
  <1>3. /\ thread'[r] = t /\ delivered'[r] = d
        /\ \A q \in Readers \ {r} : thread'[q] = thread[q] /\ delivered'[q] = delivered[q]
    BY <1>2, BecomesOnly
  <1>4. /\ SameEntries(chunk') /\ UNCHANGED <<logs, sequence, pending>>
    BY StepEffect DEF Frame
  <1>5. clear' = clear /\ Clearing' = Clearing
    BY StepKeepsSizes
  <1>6. /\ AbstractLog' = AbstractLog /\ AbstractClearing' = AbstractClearing
        /\ Values(chunk') /\ CopiesAreOfOthers'
    BY <1>4, <1>5, SameEntriesMapped
  <1>7. EntriesAreValues'
    BY <1>4, <1>6, MapPrimed DEF MapInv, EntriesAreValues
  <1>8. /\ AbstractTaken' = [q \in Readers |-> thread'[q].out]
        /\ AbstractTaken = [q \in Readers |-> thread[q].out]
    BY DEF AbstractTaken
  <1>9. AbstractTaken' = [AbstractTaken EXCEPT ![r] = t.out]
    BY <1>3, <1>8
  <1>10. AbstractTaken[r] = thread[r].out
    BY <1>8
  <1>11. delivered' = [delivered EXCEPT ![r] = d] /\ delivered \in [Readers -> Seq(Nat)]
    BY <1>2 DEF Becomes, Parts, HistoryOK
  <1>12. d = delivered[r] => delivered' = delivered
    BY <1>11
  <1>13. ASSUME t.out # 0 <=> t.pc = "write" PROVE OutIsWritten'
    BY <1>3, <1>13 DEF MapInv, OutIsWritten
  <1>14. CASE /\ d = delivered[r] /\ t.out = thread[r].out
              /\ (t.pc = "write" <=> thread[r].pc = "write")
    <2>1. AbstractTaken' = AbstractTaken
      BY <1>8, <1>9, <1>10, <1>14
    <2>2. AbstractStep
      BY <1>6, <1>12, <1>14, <2>1, StutterStep DEF ReadersRest
    <2>3. OutIsWritten'
      BY <1>1, <1>13, <1>14
    <2> QED BY <1>6, <1>7, <2>2, <2>3 DEF MapInv
  <1>15. CASE d = delivered[r] /\ TakesEntry(r, t)
    <2>1. ~Clearing /\ thread[r].pc = "flush" /\ t.pc = "write"
      BY <1>15, ReaderAssumption DEF TakesEntry, Clearing
    <2>2. /\ t.out # 0
          /\ \E i \in LogIds : \E k \in 1 .. Len(LogOf(i)) :
                /\ t.out = LogOf(i)[k].sequence
                /\ \A m \in 1 .. Len(delivered[r]) : delivered[r][m] <= LogOf(i)[k].sequence
      BY <1>15, <2>1, CopiedIsLogged
    <2>3. PICK i \in LogIds : \E k \in 1 .. Len(LogOf(i)) :
                /\ t.out = LogOf(i)[k].sequence
                /\ \A m \in 1 .. Len(delivered[r]) : delivered[r][m] <= LogOf(i)[k].sequence
      BY <2>2
    <2>4. AbstractLog[i] = LogOf(i)
      BY LogsMapped
    <2>5. AbstractTaken[r] = 0 /\ AbstractClearing = {}
      BY <1>1, <1>10, <2>1 DEF AbstractClearing
    <2>6. \E k \in 1 .. Len(AbstractLog[i]) :
                /\ \A m \in 1 .. Len(delivered[r]) : delivered[r][m] <= AbstractLog[i][k].sequence
                /\ AbstractTaken' = [AbstractTaken EXCEPT ![r] = AbstractLog[i][k].sequence]
      BY <1>9, <2>3, <2>4
    <2>7. Abstract!Take(r)
      BY <1>6, <1>12, <1>15, <2>5, <2>6 DEF Abstract!Take
    <2>8. AbstractStep
      BY <2>7 DEF AbstractStep, Abstract!LogNext
    <2>9. OutIsWritten'
      BY <1>13, <2>1, <2>2
    <2> QED BY <1>6, <1>7, <2>8, <2>9 DEF MapInv
  <1>16. CASE Writes(r, t, d)
    <2>1. /\ thread[r].pc = "write" /\ t.pc # "write" /\ t.out = 0
          /\ d = delivered[r] \/ d = Append(delivered[r], thread[r].out)
      BY <1>16 DEF Writes
    <2>2. AbstractTaken[r] # 0 /\ AbstractTaken' = [AbstractTaken EXCEPT ![r] = 0]
      BY <1>1, <1>9, <1>10, <2>1
    <2>3. ASSUME d = delivered[r] PROVE Abstract!GiveUp(r)
      BY <1>6, <1>12, <2>2, <2>3 DEF Abstract!GiveUp
    <2>4. ASSUME d = Append(delivered[r], thread[r].out) PROVE Abstract!Send(r)
      <3>1. delivered' = [delivered EXCEPT ![r] = Append(@, AbstractTaken[r])]
        BY <1>10, <1>11, <2>4
      <3> QED BY <1>6, <2>2, <3>1 DEF Abstract!Send
    <2>5. OutIsWritten'
      BY <1>13, <2>1
    <2>6. AbstractStep
      BY <2>1, <2>3, <2>4 DEF AbstractStep, Abstract!LogNext
    <2> QED BY <1>6, <1>7, <2>5, <2>6 DEF MapInv
  <1> QED BY <1>2, <1>14, <1>15, <1>16

-----------------------------------------------------------------------------
(***************************************************************************)
(* Every step                                                               *)
(***************************************************************************)
LEMMA BufferNextMapped ==
    ASSUME Parts, ChunkInv, SizeInv, MapInv, IsHeap(chunk'), BufferNext, delivered' = delivered
    PROVE  MapInv' /\ AbstractStep
  <1>1. OutIsWritten'
    BY BufferNextWrites DEF MapInv, OutIsWritten
  <1>2. ReadersRest
    BY BufferNextWrites DEF ReadersRest, AbstractTaken
  <1>3. ASSUME NEW w \in Writers, TakeSequence(w) \/ Log(w) PROVE Mapped
    BY <1>2, <1>3, TakeSequenceMapped, LogMapped
  <1>4. ASSUME NEW i \in LogIds, ClearAll(i) PROVE Mapped
    BY <1>2, <1>4, ClearAllMapped
  <1>5. ASSUME NEW i \in LogIds, NEW size \in Sizes, SetSize(i, size) PROVE Mapped
    BY <1>2, <1>5, SetSizeMapped
  <1>6. ASSUME NEW i \in LogIds, NEW m \in Messages, UidClear(i, m.uid) PROVE Mapped
    BY <1>2, <1>6, UidClearMapped
  <1>7. ASSUME ReinitTrigger PROVE Mapped
    BY <1>2, <1>7, ReinitTriggerMapped
  <1>8. ASSUME ClearStep PROVE Mapped
    BY <1>2, <1>8, ClearSpliceChunkMapped, ClearOpenChunkMapped, ClearEntryMapped,
       ClearEraseChunkMapped, ClearSwapMapped DEF ClearStep
  <1>9. Mapped
    BY <1>3, <1>4, <1>5, <1>6, <1>7, <1>8 DEF BufferNext
  <1> QED BY <1>1, <1>9 DEF Mapped, MapInv

LEMMA NextMapped ==
    ASSUME BufferInv, OrderInv, SizeInv, MapInv, [Next]_vars
    PROVE  MapInv' /\ [Abstract!LogNext]_Abstract!logVars
  <1>1. Parts /\ ChunkInv /\ IsHeap(chunk') /\ StartFollows /\ NoneGoesBack
    <2>1. IInv'
      BY NextIInv DEF BufferInv
    <2> QED BY <2>1, PartsOfIInv DEF BufferInv, IInv, TypeOK, IsHeap, OrderInv
  <1>2. CASE BufferNext /\ UNCHANGED delivered
    BY <1>1, <1>2, BufferNextMapped DEF AbstractStep
  <1>3. ASSUME NEW r \in Readers, StepOf(r) PROVE MapInv' /\ AbstractStep
    BY <1>1, <1>3, StepMapped
  <1>4. CASE UNCHANGED vars
    <2>1. UNCHANGED <<chunk, logs, clear, logd_lock, sequence, pending, thread, delivered>>
      BY <1>4 DEF vars
    <2>2. /\ AbstractLog' = AbstractLog /\ AbstractClearing' = AbstractClearing
          /\ Values(chunk') /\ CopiesAreOfOthers'
      BY <1>1, <2>1, SameChunks, SameEntriesMapped DEF Clearing
    <2>3. EntriesAreValues' /\ OutIsWritten'
      BY <2>1, <2>2, MapPrimed DEF MapInv, EntriesAreValues, OutIsWritten
    <2>4. ReadersRest
      BY <2>1 DEF ReadersRest, AbstractTaken
    <2> QED BY <2>2, <2>3, <2>4, StutterStep DEF MapInv, AbstractStep
  <1> QED BY <1>2, <1>3, <1>4 DEF Next, StepOf, AbstractStep

LEMMA InitMapped == Init => MapInv /\ Abstract!LogInit
  <1> SUFFICES ASSUME Init PROVE MapInv /\ Abstract!LogInit
    OBVIOUS
  <1>1. /\ ~Clearing /\ chunk = [c \in {} |-> 0] /\ logs = [i \in LogIds |-> << >>]
        /\ sequence = 1 /\ pending = [w \in {} |-> 0]
        /\ delivered = [r \in Readers |-> << >>]
        /\ thread = [r \in Readers |-> NewThread(NoRequest, "idle")]
    BY DEF Init, BufferInit, Clearing
  <1>2. NewThread(NoRequest, "idle").out = 0 /\ NewThread(NoRequest, "idle").pc = "idle"
    BY DEF NewThread
  <1>3. EntriesAreValues /\ CopiesAreOfOthers
    BY <1>1 DEF EntriesAreValues, CopiesAreOfOthers
  <1>4. OutIsWritten
    BY <1>1, <1>2 DEF OutIsWritten
  <1>5. \A i \in LogIds : LogOf(i) = << >>
    BY <1>1, EntriesOfNone DEF LogOf
  <1>6. /\ AbstractLog = [i \in LogIds |-> << >>] /\ AbstractClearing = {}
        /\ AbstractTaken = [r \in Readers |-> 0]
    BY <1>1, <1>2, <1>5 DEF AbstractLog, AbstractClearing, AbstractTaken
  <1> QED BY <1>1, <1>3, <1>4, <1>6 DEF MapInv, Abstract!LogInit

(***************************************************************************)
(* logd implements the abstract log buffer: whatever its chunks, compression,*)
(* positions and the writes outside logd_lock do, a log is a queue that      *)
(* loses its oldest entries only, clearing a uid takes that uid's entries    *)
(* out one by one and no other, the entry just logged stays, and a client is *)
(* sent entries that were in a log when they were copied, in their order.    *)
(***************************************************************************)
THEOREM RefinesLogBuffer == Spec => ImplementsLogBuffer
  <1> DEFINE Inv == BufferInv /\ OrderInv /\ SizeInv /\ MapInv
  <1>1. Init => Inv /\ Abstract!LogInit
    BY InitBufferInv, InitOrder, InitSizes, InitMapped
  <1>2. Inv /\ [Next]_vars => Inv' /\ [Abstract!LogNext]_Abstract!logVars
    BY NextBufferInv, NextOrder, NextSizes, NextMapped
  <1> HIDE DEF Inv
  <1> QED BY <1>1, <1>2, PTL DEF Spec, ImplementsLogBuffer, Abstract!LogSpec
=============================================================================
