--------------------------- MODULE LogdSizeProofs ---------------------------
(***************************************************************************)
(* The sizes of the logs: MaybePrune() frees enough, and never the entry    *)
(* that was just logged.  Both are about sums over the chunks of a list, so *)
(* the first part is about sums.                                            *)
(***************************************************************************)
EXTENDS LogdOrderProofs, WellFoundedInduction, NaturalsInduction

-----------------------------------------------------------------------------
(***************************************************************************)
(* Induction, over a set of numbers                                         *)
(***************************************************************************)
LEMMA LeastNumber ==
    ASSUME NEW T, T \subseteq Nat, T # {}
    PROVE  \E x \in T : \A y \in T : x <= y
  <1>1. IsWellFoundedOn(OpToRel(<, Nat), Nat)
    BY NatLessThanWellFounded
  <1>2. PICK x \in T : \A y \in T : ~(<<y, x>> \in OpToRel(<, Nat))
    BY <1>1, WFMin
  <1>3. \A y \in T : ~(y < x)
    BY <1>2 DEF OpToRel
  <1> QED BY <1>3

LEMMA Induction ==
    ASSUME NEW T, 0 \in T, \A n \in Nat : n \in T => n + 1 \in T
    PROVE  Nat \subseteq T
  <1> SUFFICES ASSUME Nat \ T # {} PROVE FALSE
    OBVIOUS
  <1>1. PICK x \in Nat \ T : \A y \in Nat \ T : x <= y
    BY LeastNumber
  <1>2. x # 0
    OBVIOUS
  <1>3. x - 1 \in Nat /\ x - 1 \in T
    BY <1>1, <1>2
  <1> QED BY <1>3

-----------------------------------------------------------------------------
(***************************************************************************)
(* Sums                                                                     *)
(***************************************************************************)

\* g adds up the first n numbers of f.
AddsUp(g, f, n) == g = [k \in 0 .. n |-> IF k = 0 THEN 0 ELSE g[k - 1] + f[k]]

LEMMA SumsExist ==
    ASSUME NEW f, NEW n \in Nat
    PROVE  \E g : AddsUp(g, f, n)
  <1> DEFINE T == {m \in Nat : \E g : AddsUp(g, f, m)}
  <1>1. 0 \in T
    <2> DEFINE g == [k \in 0 .. 0 |-> 0]
    <2>1. AddsUp(g, f, 0)
      BY DEF AddsUp
    <2> QED BY <2>1
  <1>2. ASSUME NEW m \in Nat, m \in T
        PROVE  m + 1 \in T
    <2>1. PICK g : AddsUp(g, f, m)
      BY <1>2
    <2> DEFINE h == [k \in 0 .. m + 1 |-> IF k = m + 1 THEN g[m] + f[m + 1] ELSE g[k]]
               e == [k \in 0 .. m + 1 |-> IF k = 0 THEN 0 ELSE h[k - 1] + f[k]]
    <2>2. \A k \in 0 .. m : g[k] = IF k = 0 THEN 0 ELSE g[k - 1] + f[k]
      BY <2>1 DEF AddsUp
    <2>3. ASSUME NEW k \in 0 .. m + 1
          PROVE  h[k] = e[k]
      <3>1. CASE k = 0
        BY <2>2, <3>1
      <3>2. CASE k \in 1 .. m
        BY <2>2, <3>2
      <3>3. CASE k = m + 1
        BY <3>3
      <3> QED BY <3>1, <3>2, <3>3
    <2>4. h = e
      BY <2>3
    <2>5. AddsUp(h, f, m + 1)
      BY <2>4 DEF AddsUp
    <2> QED BY <2>5
  <1>3. Nat \subseteq T
    <2> HIDE DEF T
    <2> QED BY <1>1, <1>2, Induction
  <1> QED BY <1>3

\* What Sums() computes.
LEMMA SumsRule ==
    ASSUME NEW f, Len(f) \in Nat
    PROVE  /\ DOMAIN Sums(f) = 0 .. Len(f)
           /\ Sums(f)[0] = 0
           /\ \A k \in 1 .. Len(f) : Sums(f)[k] = Sums(f)[k - 1] + f[k]
  <1>1. PICK g : AddsUp(g, f, Len(f))
    BY SumsExist
  <1>2. AddsUp(Sums(f), f, Len(f))
    BY <1>1 DEF AddsUp, Sums
  <1> QED BY <1>2 DEF AddsUp

\* The numbers that are added up.
AreNumbers(f) == Len(f) \in Nat /\ \A k \in 1 .. Len(f) : f[k] \in Nat

LEMMA SumsType ==
    ASSUME NEW f, AreNumbers(f)
    PROVE  \A n \in 0 .. Len(f) : Sums(f)[n] \in Nat
  <1> DEFINE T == {m \in Nat : m <= Len(f) => Sums(f)[m] \in Nat}
  <1>1. 0 \in T
    BY SumsRule DEF AreNumbers
  <1>2. ASSUME NEW m \in Nat, m \in T
        PROVE  m + 1 \in T
    <2> SUFFICES ASSUME m + 1 <= Len(f) PROVE Sums(f)[m + 1] \in Nat
      OBVIOUS
    <2>1. m + 1 \in 1 .. Len(f) /\ (m + 1) - 1 = m /\ Sums(f)[m] \in Nat
      BY <1>2 DEF AreNumbers
    <2>2. Sums(f)[m + 1] = Sums(f)[m] + f[m + 1]
      BY <2>1, SumsRule DEF AreNumbers
    <2> QED BY <2>1, <2>2 DEF AreNumbers
  <1>3. Nat \subseteq T
    <2> HIDE DEF T
    <2> QED BY <1>1, <1>2, Induction
  <1> QED BY <1>3 DEF AreNumbers

\* Where g has what f has from n on, it adds up to what f adds up to from n on.
LEMMA SumsRest ==
    ASSUME NEW f, NEW g, AreNumbers(f), AreNumbers(g), NEW n \in Nat, NEW len \in Nat,
           len <= Len(g), n + len <= Len(f),
           \A k \in 1 .. len : g[k] = f[n + k]
    PROVE  Sums(f)[n + len] = Sums(f)[n] + Sums(g)[len]
  <1> DEFINE T == {m \in Nat : m <= len => Sums(f)[n + m] = Sums(f)[n] + Sums(g)[m]}
  <1>1. 0 \in T
    <2>1. Sums(f)[n] \in Nat
      BY SumsType DEF AreNumbers
    <2> QED BY <2>1, SumsRule DEF AreNumbers
  <1>2. ASSUME NEW m \in Nat, m \in T
        PROVE  m + 1 \in T
    <2> SUFFICES ASSUME m + 1 <= len
                 PROVE  Sums(f)[n + (m + 1)] = Sums(f)[n] + Sums(g)[m + 1]
      OBVIOUS
    <2>1. /\ m + 1 \in 1 .. Len(g) /\ (m + 1) - 1 = m /\ m \in 0 .. Len(g)
          /\ n + (m + 1) \in 1 .. Len(f) /\ (n + (m + 1)) - 1 = n + m
          /\ n \in 0 .. Len(f) /\ n + m \in 0 .. Len(f) /\ m + 1 \in 1 .. len
      BY DEF AreNumbers
    <2>2. Sums(f)[n + m] = Sums(f)[n] + Sums(g)[m]
      BY <1>2
    <2>3. Sums(g)[m + 1] = Sums(g)[m] + g[m + 1]
      BY <2>1, SumsRule DEF AreNumbers
    <2>4. Sums(f)[n + (m + 1)] = Sums(f)[n + m] + f[n + (m + 1)]
      BY <2>1, SumsRule DEF AreNumbers
    <2>5. Sums(f)[n] \in Nat /\ Sums(g)[m] \in Nat /\ g[m + 1] \in Nat
      BY <2>1, SumsType DEF AreNumbers
    <2>6. f[n + (m + 1)] = g[m + 1]
      BY <2>1
    <2>7. (Sums(f)[n] + Sums(g)[m]) + g[m + 1] = Sums(f)[n] + (Sums(g)[m] + g[m + 1])
      BY <2>5
    <2> QED BY <2>2, <2>3, <2>4, <2>6, <2>7, Zenon
  <1>3. Nat \subseteq T
    <2> HIDE DEF T
    <2> QED BY <1>1, <1>2, Induction
  <1> QED BY <1>3

\* Sequences that begin alike have the same sums there.
LEMMA SumsAlike ==
    ASSUME NEW f, NEW g, AreNumbers(f), AreNumbers(g), NEW n \in Nat,
           n <= Len(f), n <= Len(g), \A k \in 1 .. n : g[k] = f[k]
    PROVE  Sums(f)[n] = Sums(g)[n]
  <1>1. \A k \in 1 .. n : g[k] = f[0 + k]
    OBVIOUS
  <1>2. Sums(f)[0 + n] = Sums(f)[0] + Sums(g)[n]
    BY <1>1, SumsRest
  <1>3. Sums(f)[0] = 0 /\ Sums(g)[n] \in Nat
    BY SumsRule, SumsType DEF AreNumbers
  <1> QED BY <1>2, <1>3

\* A number is not larger than the sum it is in, and the last one is the rest.
LEMMA SumsLast ==
    ASSUME NEW f, AreNumbers(f), Len(f) # 0
    PROVE  /\ Sums(f)[Len(f)] = Sums(f)[Len(f) - 1] + f[Len(f)]
           /\ Sums(f)[Len(f) - 1] \in Nat /\ Sums(f)[Len(f)] \in Nat /\ f[Len(f)] \in Nat
  BY SumsRule, SumsType DEF AreNumbers

-----------------------------------------------------------------------------
(***************************************************************************)
(* Sums over a list: v gives a number for every chunk                       *)
(***************************************************************************)
OnList(v, list) == [k \in 1 .. Len(list) |-> v[list[k]]]

Total(v, list) == Sums(OnList(v, list))[Len(list)]

\* v is defined on the chunks of the list.
IsOn(v, list) ==
    /\ list \in Seq(ChunkIds)
    /\ \A c \in Elements(list) : v[c] \in Nat

LEMMA OnListNumbers ==
    ASSUME NEW v, NEW list, IsOn(v, list)
    PROVE  /\ Len(list) \in Nat /\ Len(OnList(v, list)) = Len(list)
           /\ AreNumbers(OnList(v, list))
           /\ \A k \in 1 .. Len(list) : OnList(v, list)[k] = v[list[k]] /\ v[list[k]] \in Nat
           /\ \A n \in 0 .. Len(list) : Sums(OnList(v, list))[n] \in Nat
           /\ Total(v, list) \in Nat
  <1>1. Len(list) \in Nat
    BY LenProperties DEF IsOn
  <1>2. \A k \in 1 .. Len(list) : OnList(v, list)[k] = v[list[k]] /\ v[list[k]] \in Nat
    BY DEF OnList, IsOn, Elements
  <1>3. OnList(v, list) \in Seq(Nat) /\ Len(OnList(v, list)) = Len(list)
    <2>1. OnList(v, list) \in [1 .. Len(list) -> Nat]
      BY <1>2 DEF OnList
    <2> QED BY <1>1, <2>1, IsASeq, LenProperties
  <1>4. AreNumbers(OnList(v, list))
    BY <1>1, <1>2, <1>3 DEF AreNumbers
  <1> HIDE DEF OnList
  <1>5. \A n \in 0 .. Len(list) : Sums(OnList(v, list))[n] \in Nat
    BY <1>3, <1>4, SumsType
  <1> QED BY <1>1, <1>2, <1>3, <1>4, <1>5 DEF Total

\* What is left of a list adds up to what was not pruned.
LEMMA TotalUnpruned ==
    ASSUME NEW v, NEW list, IsOn(v, list), NEW n \in 0 .. Len(list), NEW u,
           \A k \in n + 1 .. Len(list) : u[list[k]] = v[list[k]]
    PROVE  /\ IsOn(u, Unpruned(list, n))
           /\ Total(v, list) = Sums(OnList(v, list))[n] + Total(u, Unpruned(list, n))
  <1> DEFINE rest == Unpruned(list, n)
  <1>1. Len(list) \in Nat /\ list \in Seq(ChunkIds)
    BY OnListNumbers DEF IsOn
  <1>2. /\ rest \in Seq(ChunkIds)
        /\ Len(rest) = Len(list) - n
        /\ \A k \in 1 .. Len(list) - n : rest[k] = list[n + k]
    BY <1>1, SubSeqProperties DEF Unpruned
  <1> HIDE DEF rest
  <1>3. \A k \in 1 .. Len(rest) : n + k \in 1 .. Len(list) /\ u[rest[k]] = v[list[n + k]]
    BY <1>1, <1>2
  <1>4. IsOn(u, rest)
    <2>1. \A m \in 1 .. Len(list) : v[list[m]] \in Nat
      BY OnListNumbers
    <2>2. \A k \in 1 .. Len(rest) : u[rest[k]] \in Nat
      BY <1>3, <2>1
    <2> QED BY <1>2, <2>2 DEF IsOn, Elements
  <1> DEFINE f == OnList(v, list)
             g == OnList(u, rest)
  <1>5. \A k \in 1 .. Len(rest) : g[k] = f[n + k]
    BY <1>3, <1>4, OnListNumbers
  <1>6. AreNumbers(f) /\ AreNumbers(g) /\ Len(f) = Len(list) /\ Len(g) = Len(rest)
    BY <1>4, OnListNumbers
  <1>7. Len(rest) \in Nat /\ n \in Nat /\ n + Len(rest) = Len(list)
    BY <1>1, <1>2
  <1> HIDE DEF f, g
  <1>9. Len(rest) <= Len(g) /\ n + Len(rest) <= Len(f)
    BY <1>1, <1>6, <1>7
  <1>8. Sums(f)[n + Len(rest)] = Sums(f)[n] + Sums(g)[Len(rest)]
    <2> DEFINE len == Len(rest)
    <2>1. /\ len \in Nat /\ len <= Len(g) /\ n + len <= Len(f)
          /\ \A k \in 1 .. len : g[k] = f[n + k]
      BY <1>5, <1>7, <1>9
    <2> HIDE DEF len
    <2>2. Sums(f)[n + len] = Sums(f)[n] + Sums(g)[len]
      BY <1>6, <1>7, <2>1, SumsRest
    <2> QED BY <2>2 DEF len
  <1> QED BY <1>4, <1>7, <1>8 DEF rest, f, g, Total

\* A list of which nothing changed.
LEMMA TotalSame ==
    ASSUME NEW v, NEW list, IsOn(v, list), NEW u, \A c \in Elements(list) : u[c] = v[c]
    PROVE  IsOn(u, list) /\ \A n \in 0 .. Len(list) : Sums(OnList(u, list))[n] = Sums(OnList(v, list))[n]
  <1>1. OnList(u, list) = OnList(v, list)
    BY DEF OnList, Elements
  <1> QED BY <1>1 DEF IsOn

LEMMA TotalEmpty ==
    ASSUME NEW v
    PROVE  IsOn(v, << >>) /\ Total(v, << >>) = 0
  <1>1. IsOn(v, << >>)
    BY DEF IsOn, Elements
  <1>2. Len(OnList(v, << >>)) = 0
    BY <1>1, OnListNumbers
  <1> QED BY <1>1, <1>2, SumsRule DEF Total

\* The last chunk of a list and the chunks before it.
LEMMA TotalLast ==
    ASSUME NEW v, NEW list, IsOn(v, list), list # << >>
    PROVE  /\ Total(v, list) = Sums(OnList(v, list))[Len(list) - 1] + v[list[Len(list)]]
           /\ Sums(OnList(v, list))[Len(list) - 1] \in Nat /\ v[list[Len(list)]] \in Nat
           /\ Len(list) \in Nat \ {0}
  <1>1. /\ AreNumbers(OnList(v, list)) /\ Len(OnList(v, list)) = Len(list) /\ Len(list) \in Nat
        /\ \A k \in 1 .. Len(list) : OnList(v, list)[k] = v[list[k]] /\ v[list[k]] \in Nat
    BY OnListNumbers
  <1>2. Len(list) # 0
    BY EmptySeq DEF IsOn
  <1>3. Len(list) \in 1 .. Len(list)
    BY <1>1, <1>2
  <1> QED BY <1>1, <1>2, <1>3, SumsLast DEF Total

\* A list that has grown by one chunk.
LEMMA TotalAppend ==
    ASSUME NEW v, NEW list, IsOn(v, list), NEW c \in ChunkIds, NEW u, u[c] \in Nat,
           \A d \in Elements(list) : u[d] = v[d]
    PROVE  /\ IsOn(u, Append(list, c))
           /\ Total(u, Append(list, c)) = Total(v, list) + u[c]
  <1> DEFINE new == Append(list, c)
  <1>1. /\ new \in Seq(ChunkIds) /\ Len(new) = Len(list) + 1 /\ Len(list) \in Nat
        /\ \A k \in 1 .. Len(list) : new[k] = list[k]
        /\ new[Len(list) + 1] = c
    BY AppendProperties, OnListNumbers DEF IsOn
  <1> HIDE DEF new
  <1>2. \A k \in 1 .. Len(list) : u[new[k]] = v[list[k]] /\ v[list[k]] \in Nat
    BY <1>1 DEF IsOn, Elements
  <1>3. IsOn(u, new)
    <2>1. \A k \in 1 .. Len(new) : u[new[k]] \in Nat
      BY <1>1, <1>2
    <2> QED BY <1>1, <2>1 DEF IsOn, Elements
  <1>4. new # << >> /\ Len(new) - 1 = Len(list)
    BY <1>1, EmptySeq
  <1>5. Total(u, new) = Sums(OnList(u, new))[Len(list)] + u[c]
    BY <1>1, <1>3, <1>4, TotalLast
  <1>6. \A k \in 1 .. Len(list) : OnList(u, new)[k] = OnList(v, list)[k]
    BY <1>1, <1>2, <1>3, OnListNumbers
  <1>7. Sums(OnList(u, new))[Len(list)] = Sums(OnList(v, list))[Len(list)]
    BY <1>1, <1>3, <1>6, OnListNumbers, SumsAlike
  <1> QED BY <1>3, <1>5, <1>7 DEF new, Total

\* A list whose last chunk has changed.
LEMMA TotalLastChanged ==
    ASSUME NEW v, NEW list, IsOn(v, list), list # << >>, Distinct(list), NEW u,
           u[list[Len(list)]] \in Nat,
           \A d \in Elements(list) \ {list[Len(list)]} : u[d] = v[d]
    PROVE  /\ IsOn(u, list)
           /\ Total(u, list) = (Total(v, list) - v[list[Len(list)]]) + u[list[Len(list)]]
  <1> DEFINE last == list[Len(list)]
  <1>1. IsOn(u, list)
    BY DEF IsOn
  <1>2. Len(list) \in Nat \ {0} /\ Len(list) - 1 \in Nat
    BY TotalLast
  <1>3. \A k \in 1 .. Len(list) - 1 : list[k] # last /\ list[k] \in Elements(list)
    BY <1>2 DEF Distinct, Elements
  <1>4. \A k \in 1 .. Len(list) - 1 : OnList(u, list)[k] = OnList(v, list)[k]
    <2>1. \A k \in 1 .. Len(list) : /\ OnList(u, list)[k] = u[list[k]]
                                    /\ OnList(v, list)[k] = v[list[k]]
      BY <1>1, OnListNumbers
    <2>2. \A k \in 1 .. Len(list) - 1 : u[list[k]] = v[list[k]] /\ k \in 1 .. Len(list)
      BY <1>2, <1>3
    <2> QED BY <2>1, <2>2
  <1>5. Sums(OnList(u, list))[Len(list) - 1] = Sums(OnList(v, list))[Len(list) - 1]
    BY <1>1, <1>2, <1>4, OnListNumbers, SumsAlike
  <1>6. Total(u, list) = Sums(OnList(v, list))[Len(list) - 1] + u[last]
    BY <1>1, <1>5, TotalLast
  <1>7. /\ Total(v, list) = Sums(OnList(v, list))[Len(list) - 1] + v[last]
        /\ Sums(OnList(v, list))[Len(list) - 1] \in Nat /\ v[last] \in Nat
    BY TotalLast
  <1> HIDE DEF last
  <1> QED BY <1>1, <1>6, <1>7 DEF last

-----------------------------------------------------------------------------
(***************************************************************************)
(* What is added up over the chunks of a log                                *)
(***************************************************************************)
EntryLens(entries) == [k \in 1 .. Len(entries) |-> total_len(entries[k])]

LEMMA EntryLensNumbers ==
    ASSUME NEW entries \in Seq(Entry)
    PROVE  /\ AreNumbers(EntryLens(entries)) /\ Len(EntryLens(entries)) = Len(entries)
           /\ Len(entries) \in Nat
           /\ \A k \in 1 .. Len(entries) : /\ EntryLens(entries)[k] = total_len(entries[k])
                                           /\ total_len(entries[k]) \in Nat
           /\ TotalLens(entries) = Sums(EntryLens(entries))[Len(entries)]
           /\ TotalLens(entries) \in Nat
  <1>1. Len(entries) \in Nat
    BY LenProperties
  <1>2. \A k \in 1 .. Len(entries) : total_len(entries[k]) \in Nat
    <2>1. \A k \in 1 .. Len(entries) : entries[k] \in Entry
      BY ElementOfSeq
    <2>2. \A e \in Entry : total_len(e) \in Nat
      BY SizeofAssumption DEF Entry, total_len
    <2> QED BY <2>1, <2>2
  <1>3. EntryLens(entries) \in [1 .. Len(entries) -> Nat]
    BY <1>2 DEF EntryLens
  <1>4. Len(EntryLens(entries)) = Len(entries)
    BY <1>1, <1>3, IsASeq, LenProperties
  <1>5. \A k \in 1 .. Len(entries) : EntryLens(entries)[k] = total_len(entries[k])
    BY DEF EntryLens
  <1>6. AreNumbers(EntryLens(entries))
    BY <1>1, <1>2, <1>4, <1>5 DEF AreNumbers
  <1>7. TotalLens(entries) = Sums(EntryLens(entries))[Len(entries)]
    BY DEF TotalLens, EntryLens
  <1>8. Sums(EntryLens(entries))[Len(entries)] \in Nat
    BY <1>1, <1>4, <1>6, SumsType
  <1> QED BY <1>1, <1>2, <1>4, <1>5, <1>6, <1>7, <1>8

\* Log() of one more entry.
LEMMA TotalLensAppend ==
    ASSUME NEW entries \in Seq(Entry), NEW entry \in Entry
    PROVE  /\ TotalLens(Append(entries, entry)) = TotalLens(entries) + total_len(entry)
           /\ Len(Append(entries, entry)) = Len(entries) + 1
           /\ total_len(entry) \in Nat
  <1> DEFINE new == Append(entries, entry)
  <1>1. /\ new \in Seq(Entry) /\ Len(new) = Len(entries) + 1
        /\ \A k \in 1 .. Len(entries) : new[k] = entries[k]
        /\ new[Len(entries) + 1] = entry
    BY AppendProperties
  <1> HIDE DEF new
  <1>2. Len(entries) \in Nat
    BY LenProperties
  <1>3. /\ AreNumbers(EntryLens(new)) /\ AreNumbers(EntryLens(entries))
        /\ Len(EntryLens(new)) = Len(entries) + 1 /\ Len(EntryLens(entries)) = Len(entries)
        /\ TotalLens(new) = Sums(EntryLens(new))[Len(entries) + 1]
        /\ TotalLens(entries) = Sums(EntryLens(entries))[Len(entries)]
    BY <1>1, EntryLensNumbers
  <1>4. \A k \in 1 .. Len(entries) : EntryLens(new)[k] = EntryLens(entries)[k]
    BY <1>1, <1>2 DEF EntryLens
  <1>5. EntryLens(new)[Len(entries) + 1] = total_len(entry)
    BY <1>1, <1>2 DEF EntryLens
  <1>6. Sums(EntryLens(new))[Len(entries)] = Sums(EntryLens(entries))[Len(entries)]
    BY <1>2, <1>3, <1>4, SumsAlike
  <1>7. Sums(EntryLens(new))[Len(entries) + 1]
            = Sums(EntryLens(new))[Len(entries)] + EntryLens(new)[Len(entries) + 1]
    <2>1. Len(entries) + 1 \in 1 .. Len(EntryLens(new)) /\ (Len(entries) + 1) - 1 = Len(entries)
      BY <1>2, <1>3
    <2> QED BY <1>3, <2>1, SumsRule DEF AreNumbers
  <1>8. total_len(entry) \in Nat
    BY SizeofAssumption DEF Entry, total_len
  <1> QED BY <1>1, <1>3, <1>5, <1>6, <1>7, <1>8 DEF new

SizesOf(heap)  == [c \in DOMAIN heap |-> PruneSize(heap[c])]
LensOf(heap)   == [c \in DOMAIN heap |-> TotalLens(heap[c].entries)]
CountsOf(heap) == [c \in DOMAIN heap |-> Len(heap[c].entries)]

\* A list whose chunks are in the heap.
IsListIn(list, heap) == list \in Seq(ChunkIds) /\ Elements(list) \subseteq DOMAIN heap

LEMMA AmountsOnList ==
    ASSUME NEW heap, IsHeap(heap), NEW list, IsListIn(list, heap)
    PROVE  /\ IsOn(SizesOf(heap), list) /\ IsOn(LensOf(heap), list) /\ IsOn(CountsOf(heap), list)
           /\ \A n : /\ SizeUsed(heap, list, n) = Sums(OnList(SizesOf(heap), list))[n]
                     /\ SizesIn(heap, list, n) = Sums(OnList(LensOf(heap), list))[n]
                     /\ ElementsIn(heap, list, n) = Sums(OnList(CountsOf(heap), list))[n]
  <1>1. \A k \in 1 .. Len(list) : list[k] \in DOMAIN heap
    BY DEF IsListIn, Elements
  <1>2. ASSUME NEW c \in DOMAIN heap
        PROVE  /\ PruneSize(heap[c]) \in Nat
               /\ TotalLens(heap[c].entries) \in Nat
               /\ Len(heap[c].entries) \in Nat
    <2>1. heap[c] \in Chunk /\ heap[c].entries \in Seq(Entry)
      BY <1>2 DEF IsHeap, Chunk
    <2>2. PruneSize(heap[c]) \in Nat
      BY <2>1, SizeofAssumption DEF PruneSize, Chunk
    <2> QED BY <2>1, <2>2, EntryLensNumbers
  <1>3. IsOn(SizesOf(heap), list) /\ IsOn(LensOf(heap), list) /\ IsOn(CountsOf(heap), list)
    BY <1>2 DEF IsListIn, IsOn, SizesOf, LensOf, CountsOf
  <1>4. /\ OnList(SizesOf(heap), list) = [k \in 1 .. Len(list) |-> PruneSize(heap[list[k]])]
        /\ OnList(LensOf(heap), list) = [k \in 1 .. Len(list) |-> TotalLens(heap[list[k]].entries)]
        /\ OnList(CountsOf(heap), list) = [k \in 1 .. Len(list) |-> Len(heap[list[k]].entries)]
    BY <1>1 DEF OnList, SizesOf, LensOf, CountsOf
  <1> QED BY <1>3, <1>4 DEF SizeUsed, SizesIn, ElementsIn

-----------------------------------------------------------------------------
(***************************************************************************)
(* MaybePrune()                                                             *)
(***************************************************************************)

\* It frees enough, and not the last chunk if that fits.
LEMMA MaybePruneFits ==
    ASSUME NEW heap, IsHeap(heap), NEW list, IsListIn(list, heap), Distinct(list),
           NEW size \in Nat, NEW n \in 0 .. Len(list), IsMaybePruneCount(n, heap, list, size)
    PROVE  LET rest == Unpruned(list, n)
               left == Free(heap, Pruned(list, n))
           IN  /\ IsHeap(left) /\ IsListIn(rest, left)
               /\ SizeUsed(left, rest, Len(rest)) \in 0 .. size
               /\ list # << >> /\ PruneSize(heap[list[Len(list)]]) <= size => n < Len(list)
               /\ rest # << >> => PruneSize(left[rest[Len(rest)]]) <= size
  <1> DEFINE rest == Unpruned(list, n)
             left == Free(heap, Pruned(list, n))
             v == SizesOf(heap)
             u == SizesOf(left)
             last == list[Len(list)]
  <1>1. /\ rest \in Seq(ChunkIds)
        /\ Elements(rest) = Elements(list) \ Pruned(list, n)
    BY UnprunedElements DEF IsListIn
  <1>2. /\ DOMAIN left = (DOMAIN heap) \ Pruned(list, n)
        /\ \A c \in DOMAIN left : left[c] = heap[c] /\ u[c] = v[c] /\ v[c] = PruneSize(heap[c])
    BY DEF Free, SizesOf
  <1>3. IsHeap(left) /\ IsListIn(rest, left)
    BY <1>1, <1>2 DEF IsHeap, IsListIn
  <1>4. /\ IsOn(v, list) /\ IsOn(u, rest)
        /\ \A m : SizeUsed(heap, list, m) = Sums(OnList(v, list))[m]
        /\ \A m : SizeUsed(left, rest, m) = Sums(OnList(u, rest))[m]
    BY <1>3, AmountsOnList
  <1>5. /\ Len(list) \in Nat /\ Total(v, list) \in Nat
        /\ \A m \in 0 .. Len(list) : Sums(OnList(v, list))[m] \in Nat
        /\ Len(rest) \in Nat /\ Total(u, rest) \in Nat
    BY <1>4, OnListNumbers
  <1>6. Total(v, list) = Sums(OnList(v, list))[n] + Total(u, rest)
    <2>1. ASSUME NEW k \in n + 1 .. Len(list)
          PROVE  list[k] \in DOMAIN left
      <3>1. k \in 1 .. Len(list) /\ k \notin 1 .. n /\ list[k] \in DOMAIN heap
        BY <1>5 DEF IsListIn, Elements
      <3>2. list[k] \notin Pruned(list, n)
        BY <1>5, <3>1 DEF Pruned, Distinct
      <3> QED BY <1>2, <3>1, <3>2
    <2> QED BY <1>2, <1>4, <2>1, TotalUnpruned
  <1>7. /\ Total(v, list) > size => IsPruneCount(n, heap, list, Total(v, list) - size)
        /\ ~(Total(v, list) > size) => n = 0
    BY <1>4 DEF IsMaybePruneCount, Total
  <1>8. Sums(OnList(v, list))[0] = 0
    BY <1>4, OnListNumbers, SumsRule DEF AreNumbers
  <1>9. SizeUsed(left, rest, Len(rest)) = Total(u, rest)
    BY <1>4 DEF Total
  <1> HIDE DEF rest, left, v, u
  <1>10. Total(u, rest) <= size
    <2>1. CASE Total(v, list) > size /\ n < Len(list)
      <3>1. Sums(OnList(v, list))[n] >= Total(v, list) - size
        BY <1>4, <1>7, <2>1 DEF IsPruneCount
      <3> QED BY <1>5, <1>6, <3>1
    <2>2. CASE n = Len(list)
      BY <1>5, <1>6, <2>2 DEF Total
    <2>3. CASE ~(Total(v, list) > size)
      BY <1>5, <1>6, <1>7, <1>8, <2>3
    <2> QED BY <1>5, <2>1, <2>2, <2>3
  <1>11. ASSUME list # << >>, PruneSize(heap[last]) <= size
         PROVE  n < Len(list)
    <2>1. /\ Total(v, list) = Sums(OnList(v, list))[Len(list) - 1] + v[last]
          /\ Sums(OnList(v, list))[Len(list) - 1] \in Nat /\ v[last] \in Nat
          /\ Len(list) \in Nat \ {0}
      BY <1>4, <1>11, TotalLast
    <2>2. v[last] <= size
      <3>1. last \in DOMAIN heap
        BY <2>1 DEF IsListIn, Elements
      <3> QED BY <1>11, <3>1 DEF v, SizesOf
    <2> HIDE DEF last
    <2>3. SUFFICES ASSUME n = Len(list) PROVE FALSE
      BY <1>5
    <2>4. CASE ~(Total(v, list) > size)
      BY <1>7, <2>1, <2>3, <2>4
    <2>5. CASE Total(v, list) > size /\ Len(list) = 1
      BY <1>8, <2>1, <2>2, <2>5
    <2>6. CASE Total(v, list) > size /\ Len(list) # 1
      <3>1. Len(list) - 1 \in 1 .. n - 1
        BY <2>1, <2>3, <2>6
      <3>2. Sums(OnList(v, list))[Len(list) - 1] < Total(v, list) - size
        BY <1>4, <1>7, <2>6, <3>1 DEF IsPruneCount
      <3> QED BY <2>1, <2>2, <3>2
    <2> QED BY <2>1, <2>4, <2>5, <2>6
  <1>12. ASSUME rest # << >>
         PROVE  PruneSize(left[rest[Len(rest)]]) <= size
    <2>1. /\ Total(u, rest) = Sums(OnList(u, rest))[Len(rest) - 1] + u[rest[Len(rest)]]
          /\ Sums(OnList(u, rest))[Len(rest) - 1] \in Nat /\ u[rest[Len(rest)]] \in Nat
          /\ Len(rest) \in Nat \ {0}
      BY <1>4, <1>12, TotalLast
    <2>2. u[rest[Len(rest)]] = PruneSize(left[rest[Len(rest)]])
      <3>1. rest[Len(rest)] \in DOMAIN left
        BY <1>3, <2>1 DEF IsListIn, Elements
      <3> QED BY <3>1 DEF u, SizesOf
    <2> QED BY <1>10, <2>1, <2>2
  <1> QED BY <1>3, <1>5, <1>9, <1>10, <1>11, <1>12 DEF rest, left

-----------------------------------------------------------------------------
(***************************************************************************)
(* IsMeasured() of a log                                                    *)
(***************************************************************************)

\* Balances(), with the sums named.
LEMMA BalancesTotals ==
    ASSUME NEW heap, IsHeap(heap), NEW list, IsListIn(list, heap),
           NEW copied, IsListIn(copied, heap), NEW stat, NEW visited
    PROVE  Balances(stat, heap, list, copied, visited) <=>
              /\ stat.mElements = (Total(CountsOf(heap), list) - Len(visited))
                                      + Total(CountsOf(heap), copied)
              /\ stat.mSizes = (Total(LensOf(heap), list) - TotalLens(visited))
                                      + Total(LensOf(heap), copied)
  BY AmountsOnList DEF Balances, Total

LEMMA TotalsType ==
    ASSUME NEW heap, IsHeap(heap), NEW list, IsListIn(list, heap)
    PROVE  /\ Total(CountsOf(heap), list) \in Nat /\ Total(LensOf(heap), list) \in Nat
           /\ Len(list) \in Nat
  BY AmountsOnList, OnListNumbers

LEMMA NothingVisited == Len(<< >>) = 0 /\ TotalLens(<< >>) = 0
  <1>1. << >> \in Seq(Entry) /\ Len(<< >>) = 0
    OBVIOUS
  <1>2. AreNumbers(EntryLens(<< >>)) /\ TotalLens(<< >>) = Sums(EntryLens(<< >>))[0]
        /\ Len(EntryLens(<< >>)) = 0
    BY <1>1, EntryLensNumbers
  <1> QED BY <1>1, <1>2, SumsRule DEF AreNumbers

\* The chunks of the list hold in new what they hold in heap.
Alike(list, heap, new) ==
    \A c \in Elements(list) : c \in DOMAIN new /\ HoldsTheSame(heap[c], new[c])

LEMMA AlikeTotals ==
    ASSUME NEW heap, IsHeap(heap), NEW new, IsHeap(new), NEW list, IsListIn(list, heap),
           Alike(list, heap, new)
    PROVE  /\ IsListIn(list, new)
           /\ Total(CountsOf(new), list) = Total(CountsOf(heap), list)
           /\ Total(LensOf(new), list) = Total(LensOf(heap), list)
           /\ \A size : Fits(list, heap, size) => Fits(list, new, size)
  <1>1. IsListIn(list, new)
    BY DEF IsListIn, Alike
  <1>2. \A c \in Elements(list) : /\ CountsOf(new)[c] = CountsOf(heap)[c]
                                  /\ LensOf(new)[c] = LensOf(heap)[c]
    BY DEF CountsOf, LensOf, IsListIn, Alike, HoldsTheSame
  <1>3. /\ IsOn(CountsOf(heap), list) /\ IsOn(LensOf(heap), list) /\ Len(list) \in Nat
    BY AmountsOnList, TotalsType
  <1>4. /\ Total(CountsOf(new), list) = Total(CountsOf(heap), list)
        /\ Total(LensOf(new), list) = Total(LensOf(heap), list)
    BY <1>2, <1>3, TotalSame DEF Total
  <1>5. \A size : Fits(list, heap, size) => Fits(list, new, size)
    BY DEF Fits, Alike, HoldsTheSame
  <1> QED BY <1>1, <1>4, <1>5

\* A log whose chunks hold what they held is measured as before.
LEMMA AlikeIsMeasured ==
    ASSUME NEW heap, IsHeap(heap), NEW new, IsHeap(new),
           NEW list, IsListIn(list, heap), Alike(list, heap, new),
           NEW copied, IsListIn(copied, heap), Alike(copied, heap, new),
           NEW n, n # 0 => list # << >>,
           NEW stat, NEW size, IsMeasured(stat, size, heap, list, copied, n)
    PROVE  IsMeasured(stat, size, new, list, copied, n)
  <1>1. n # 0 => new[Head(list)].entries = heap[Head(list)].entries
    <2> SUFFICES ASSUME n # 0 PROVE new[Head(list)].entries = heap[Head(list)].entries
      OBVIOUS
    <2>1. Head(list) \in Elements(list)
      <3>1. Len(list) \in Nat \ {0} /\ Head(list) = list[1]
        BY LenProperties, EmptySeq DEF IsListIn
      <3> QED BY <3>1 DEF Elements
    <2> QED BY <2>1 DEF Alike, HoldsTheSame
  <1>2. Visited(new, list, n) = Visited(heap, list, n)
    BY <1>1 DEF Visited
  <1>3. IsListIn(list, new) /\ IsListIn(copied, new)
    BY AlikeTotals
  <1>4. Balances(stat, new, list, copied, Visited(new, list, n))
    BY <1>2, <1>3, AlikeTotals, BalancesTotals DEF IsMeasured
  <1>5. Fits(list, new, size) /\ Fits(copied, new, size)
    BY AlikeTotals DEF IsMeasured
  <1> QED BY <1>1, <1>4, <1>5 DEF IsMeasured

\* What LogToLogBuffer() adds to the sums, and where it puts the entry.
Measures(heap, list, size, entry, logged) ==
    LET last == logged.list[Len(logged.list)]
    IN  /\ IsListIn(logged.list, logged.heap)
        /\ Total(CountsOf(logged.heap), logged.list) = Total(CountsOf(heap), list) + 1
        /\ Total(LensOf(logged.heap), logged.list) = Total(LensOf(heap), list) + total_len(entry)
        /\ Fits(list, heap, size) => Fits(logged.list, logged.heap, size)
        /\ logged.list # << >>
        /\ \E k \in 1 .. Len(logged.heap[last].entries) : logged.heap[last].entries[k] = entry

LEMMA LogMeasures ==
    ASSUME NEW heap, IsHeap(heap), NEW list, IsListIn(list, heap), Distinct(list),
           NEW entry \in Entry, NEW size, size \div kChunkSizeDivisor \in Nat,
           SIZEOF_CHUNK + size \div kChunkSizeDivisor <= size,
           NEW zsize \in ZSizes(heap, list, entry),
           NeedsChunk(heap, list, entry) => CanAllocate(heap),
           NEW logged, logged = LogToLogBuffer(heap, list, size, entry, zsize),
           Extends(heap, list, logged)
    PROVE  Measures(heap, list, size, entry, logged)
  <1> DEFINE last == list[Len(list)]
             new == FreshChunk(heap)
             v == CountsOf(heap)
             u == CountsOf(logged.heap)
             x == LensOf(heap)
             y == LensOf(logged.heap)
  <1>1. list \in Seq(ChunkIds) /\ Elements(list) \subseteq DOMAIN heap /\ Len(list) \in Nat
    BY LenProperties DEF IsListIn
  <1>2. \/ LogsIntoLast(heap, list, entry, logged)
        \/ LogsIntoNew(heap, list, size, entry, zsize, logged, new)
    BY <1>1, LogToLogBufferCases
  <1>3. IsHeap(logged.heap)
    BY DEF Extends
  <1>4. list # << >> => last \in Elements(list) /\ last \in DOMAIN heap
    BY <1>1, LastElement
  <1>5. ASSUME NEW c \in Chunk
        PROVE  /\ c.entries \in Seq(Entry)
               /\ LogEntry(c, entry).entries = Append(c.entries, entry)
               /\ LogEntry(c, entry).writer_active = c.writer_active
               /\ LogEntry(c, entry).contents = c.contents
               /\ \A z : /\ FinishWriting(c, z).entries = c.entries
                         /\ ~FinishWriting(c, z).writer_active
    BY DEF LogEntry, FinishWriting, Chunk
  <1>6. ASSUME NEW entries \in Seq(Entry)
        PROVE  /\ Len(Append(entries, entry)) = Len(entries) + 1 /\ Len(entries) \in Nat
               /\ TotalLens(Append(entries, entry)) = TotalLens(entries) + total_len(entry)
               /\ TotalLens(entries) \in Nat /\ total_len(entry) \in Nat
               /\ Len(entries) + 1 \in 1 .. Len(Append(entries, entry))
               /\ Append(entries, entry)[Len(entries) + 1] = entry
    BY AppendProperties, LenProperties, TotalLensAppend, EntryLensNumbers
  <1>7. /\ IsOn(v, list) /\ IsOn(x, list) /\ Total(v, list) \in Nat /\ Total(x, list) \in Nat
    BY AmountsOnList, TotalsType
  <1>8. /\ \A c \in DOMAIN heap : v[c] = Len(heap[c].entries) /\ x[c] = TotalLens(heap[c].entries)
        /\ \A c \in DOMAIN logged.heap : /\ u[c] = Len(logged.heap[c].entries)
                                         /\ y[c] = TotalLens(logged.heap[c].entries)
    BY DEF CountsOf, LensOf
  <1>9. \A c \in DOMAIN heap : heap[c] \in Chunk
    BY DEF IsHeap
  <1> HIDE DEF u, v, x, y, last, new
  <1>10. CASE LogsIntoLast(heap, list, entry, logged)
    <2>1. /\ list # << >> /\ logged.list = list /\ DOMAIN logged.heap = DOMAIN heap
          /\ logged.heap[last] = LogEntry(heap[last], entry)
          /\ \A c \in (DOMAIN heap) \ {last} : logged.heap[c] = heap[c]
      BY <1>10 DEF LogsIntoLast, last
    <2> DEFINE old == heap[last].entries
    <2>2. /\ logged.heap[last].entries = Append(old, entry) /\ old \in Seq(Entry)
          /\ logged.heap[last].writer_active = heap[last].writer_active
          /\ logged.heap[last].contents = heap[last].contents
      BY <1>4, <1>5, <1>9, <2>1
    <2> HIDE DEF old
    <2>3. /\ u[last] = v[last] + 1 /\ v[last] \in Nat /\ u[last] \in Nat
          /\ y[last] = x[last] + total_len(entry) /\ x[last] \in Nat /\ y[last] \in Nat
          /\ total_len(entry) \in Nat
      <3>1. /\ v[last] = Len(old) /\ x[last] = TotalLens(old)
            /\ u[last] = Len(Append(old, entry)) /\ y[last] = TotalLens(Append(old, entry))
        BY <1>4, <1>8, <2>1, <2>2 DEF old
      <3> QED BY <1>6, <2>2, <3>1
    <2>4. \A c \in Elements(list) \ {last} : u[c] = v[c] /\ y[c] = x[c]
      BY <1>1, <1>8, <2>1
    <2>5. Total(u, list) = (Total(v, list) - v[last]) + u[last]
      BY <1>7, <2>1, <2>3, <2>4, TotalLastChanged DEF last
    <2>6. Total(y, list) = (Total(x, list) - x[last]) + y[last]
      BY <1>7, <2>1, <2>3, <2>4, TotalLastChanged DEF last
    <2>7. /\ Total(u, logged.list) = Total(v, list) + 1
          /\ Total(y, logged.list) = Total(x, list) + total_len(entry)
      BY <1>7, <2>1, <2>3, <2>5, <2>6, SMTT(20)
    <2>8. Fits(list, heap, size) => Fits(logged.list, logged.heap, size)
      BY <1>1, <2>1, <2>2 DEF Fits
    <2>9. \E k \in 1 .. Len(logged.heap[last].entries) : logged.heap[last].entries[k] = entry
      BY <1>6, <2>2
    <2>10. IsListIn(logged.list, logged.heap)
      BY <1>1, <2>1 DEF IsListIn
    <2> QED BY <2>1, <2>7, <2>8, <2>9, <2>10 DEF Measures, u, v, x, y, last
  <1>11. CASE LogsIntoNew(heap, list, size, entry, zsize, logged, new)
    <2> DEFINE room == size \div kChunkSizeDivisor
               fresh == NewChunk(room)
    <2>1. /\ new \in ChunkIds \ DOMAIN heap /\ logged.list = Append(list, new)
          /\ DOMAIN logged.heap = (DOMAIN heap) \cup {new}
          /\ logged.heap[new] = LogEntry(fresh, entry)
          /\ list # << >> => logged.heap[last] = FinishWriting(heap[last], zsize)
          /\ \A c \in DOMAIN heap : list = << >> \/ c # last => logged.heap[c] = heap[c]
      BY <1>11 DEF LogsIntoNew, last
    <2>2. /\ fresh \in Chunk /\ fresh.entries = << >> /\ fresh.contents = room
      BY NewChunkType DEF NewChunk
    <2> HIDE DEF fresh, room
    <2>3. /\ logged.heap[new].entries = Append(<< >>, entry) /\ logged.heap[new].contents = room
          /\ << >> \in Seq(Entry)
      BY <1>5, <2>1, <2>2
    <2>4. u[new] = 1 /\ y[new] = total_len(entry) /\ total_len(entry) \in Nat
      <3>1. u[new] = Len(Append(<< >>, entry)) /\ y[new] = TotalLens(Append(<< >>, entry))
        BY <1>8, <2>1, <2>3
      <3> DEFINE none == << >>
      <3>2. none \in Seq(Entry) /\ Len(none) = 0 /\ TotalLens(none) = 0
        BY NothingVisited
      <3> HIDE DEF none
      <3>3. /\ Len(Append(none, entry)) = Len(none) + 1 /\ total_len(entry) \in Nat
            /\ TotalLens(Append(none, entry)) = TotalLens(none) + total_len(entry)
        BY <1>6, <3>2
      <3> QED BY <3>1, <3>2, <3>3 DEF none
    <2>5. ASSUME NEW c \in Elements(list)
          PROVE  /\ c \in DOMAIN heap /\ logged.heap[c].entries = heap[c].entries
                 /\ logged.heap[c].writer_active =>
                        heap[c].writer_active /\ logged.heap[c].contents = heap[c].contents
      <3>1. list # << >> /\ c \in DOMAIN heap
        BY <1>1, <2>5 DEF Elements
      <3>2. CASE c = last
        BY <1>5, <1>9, <2>1, <3>1, <3>2
      <3>3. CASE c # last
        BY <2>1, <3>1, <3>3
      <3> QED BY <3>2, <3>3
    <2>6. \A c \in Elements(list) : u[c] = v[c] /\ y[c] = x[c]
      BY <1>8, <2>1, <2>5
    <2>7. /\ Total(u, logged.list) = Total(v, list) + 1
          /\ Total(y, logged.list) = Total(x, list) + total_len(entry)
      BY <1>7, <2>1, <2>4, <2>6, TotalAppend
    <2>8. /\ logged.list \in Seq(ChunkIds) /\ Elements(logged.list) = Elements(list) \cup {new}
          /\ logged.list # << >> /\ logged.list[Len(logged.list)] = new
      <3>1. /\ Append(list, new) \in Seq(ChunkIds) /\ new \notin Elements(list)
            /\ Elements(Append(list, new)) = Elements(list) \cup {new}
        BY <1>1, <2>1, AppendElements
      <3>2. /\ Append(list, new)[Len(Append(list, new))] = new
            /\ Len(Append(list, new)) = Len(list) + 1
        BY <1>1, <2>1, AppendProperties
      <3> QED BY <1>1, <2>1, <3>1, <3>2, EmptySeq
    <2>9. Fits(list, heap, size) => Fits(logged.list, logged.heap, size)
      BY <2>3, <2>5, <2>8 DEF Fits, room
    <2>10. \E k \in 1 .. Len(logged.heap[new].entries) : logged.heap[new].entries[k] = entry
      BY <1>6, <2>3
    <2>11. IsListIn(logged.list, logged.heap)
      BY <1>1, <2>1, <2>8 DEF IsListIn
    <2> QED BY <2>7, <2>8, <2>9, <2>10, <2>11 DEF Measures, u, v, x, y
  <1> QED BY <1>2, <1>10, <1>11

\* The sums of an empty list, and of a list of which n chunks go.
LEMMA NoTotals ==
    ASSUME NEW heap
    PROVE  /\ IsListIn(<< >>, heap)
           /\ Total(CountsOf(heap), << >>) = 0 /\ Total(LensOf(heap), << >>) = 0
           /\ \A size : Fits(<< >>, heap, size)
  BY TotalEmpty DEF IsListIn, Elements, Fits

LEMMA RestTotals ==
    ASSUME NEW heap, IsHeap(heap), NEW list, IsListIn(list, heap), Distinct(list),
           NEW n \in 0 .. Len(list),
           NEW left, IsHeap(left),
           \A c \in Elements(list) \ Pruned(list, n) :
              c \in DOMAIN left /\ left[c].entries = heap[c].entries
    PROVE  LET rest == Unpruned(list, n)
           IN  /\ IsListIn(rest, left)
               /\ Total(CountsOf(heap), list) = ElementsIn(heap, list, n) + Total(CountsOf(left), rest)
               /\ Total(LensOf(heap), list) = SizesIn(heap, list, n) + Total(LensOf(left), rest)
               /\ ElementsIn(heap, list, n) \in Nat /\ SizesIn(heap, list, n) \in Nat
  <1> DEFINE rest == Unpruned(list, n)
  <1>1. /\ rest \in Seq(ChunkIds) /\ Elements(rest) = Elements(list) \ Pruned(list, n)
    BY UnprunedElements DEF IsListIn
  <1>2. IsListIn(rest, left)
    BY <1>1 DEF IsListIn
  <1>3. Len(list) \in Nat
    BY TotalsType
  <1>4. ASSUME NEW k \in n + 1 .. Len(list)
        PROVE  /\ CountsOf(left)[list[k]] = CountsOf(heap)[list[k]]
               /\ LensOf(left)[list[k]] = LensOf(heap)[list[k]]
    <2>1. k \in 1 .. Len(list) /\ k \notin 1 .. n /\ list[k] \in Elements(list)
      BY <1>3 DEF Elements
    <2>2. list[k] \notin Pruned(list, n)
      BY <1>3, <2>1 DEF Pruned, Distinct
    <2>3. /\ list[k] \in DOMAIN left /\ list[k] \in DOMAIN heap
          /\ left[list[k]].entries = heap[list[k]].entries
      BY <2>1, <2>2 DEF IsListIn
    <2> QED BY <2>3 DEF CountsOf, LensOf
  <1> HIDE DEF rest
  <1>5. /\ IsOn(CountsOf(heap), list) /\ IsOn(LensOf(heap), list)
        /\ ElementsIn(heap, list, n) = Sums(OnList(CountsOf(heap), list))[n]
        /\ SizesIn(heap, list, n) = Sums(OnList(LensOf(heap), list))[n]
    BY AmountsOnList
  <1>6. Total(CountsOf(heap), list) = ElementsIn(heap, list, n) + Total(CountsOf(left), rest)
    BY <1>4, <1>5, TotalUnpruned DEF rest
  <1>7. Total(LensOf(heap), list) = SizesIn(heap, list, n) + Total(LensOf(left), rest)
    BY <1>4, <1>5, TotalUnpruned DEF rest
  <1>8. ElementsIn(heap, list, n) \in Nat /\ SizesIn(heap, list, n) \in Nat
    BY <1>5, OnListNumbers
  <1> QED BY <1>2, <1>6, <1>7, <1>8 DEF rest

\* RemoveChunkFromStats() keeps the balance.
LEMMA RemoveBalances ==
    ASSUME NEW heap, IsHeap(heap), NEW list, IsListIn(list, heap), Distinct(list),
           NEW n \in 0 .. Len(list), NEW left, IsHeap(left),
           \A c \in Elements(list) \ Pruned(list, n) :
              c \in DOMAIN left /\ left[c].entries = heap[c].entries,
           NEW stat \in Stat, Balances(stat, heap, list, << >>, << >>), NEW z \in Nat
    PROVE  LET new   == RemoveChunksFromStats(stat, heap, list, n)
               newer == [new EXCEPT !.overhead = z]
           IN  /\ new \in Stat /\ new.overhead = stat.overhead
               /\ Balances(new, left, Unpruned(list, n), << >>, << >>)
               /\ newer \in Stat /\ newer.overhead = z
               /\ Balances(newer, left, Unpruned(list, n), << >>, << >>)
  <1> DEFINE rest == Unpruned(list, n)
             a == ElementsIn(heap, list, n)
             b == SizesIn(heap, list, n)
             new == RemoveChunksFromStats(stat, heap, list, n)
             newer == [new EXCEPT !.overhead = z]
  <1>1. /\ IsListIn(rest, left)
        /\ Total(CountsOf(heap), list) = a + Total(CountsOf(left), rest)
        /\ Total(LensOf(heap), list) = b + Total(LensOf(left), rest)
        /\ a \in Nat /\ b \in Nat
    BY RestTotals
  <1>2. stat.mSizes \in Int /\ stat.mElements \in Int
    BY DEF Stat
  <1>3. new = [stat EXCEPT !.mSizes = stat.mSizes - b, !.mElements = stat.mElements - a]
    BY DEF RemoveChunksFromStats
  <1>4. /\ stat.mElements = (Total(CountsOf(heap), list) - 0) + 0
        /\ stat.mSizes = (Total(LensOf(heap), list) - 0) + 0
    BY NoTotals, NothingVisited, BalancesTotals
  <1> HIDE DEF rest, a, b, new
  <1>5. /\ new \in Stat /\ new.mSizes = stat.mSizes - b /\ new.mElements = stat.mElements - a
        /\ new.overhead = stat.overhead
        /\ newer \in Stat /\ newer.mSizes = stat.mSizes - b /\ newer.mElements = stat.mElements - a
        /\ newer.overhead = z
    <2> DEFINE x == stat.mSizes - b
               y == stat.mElements - a
    <2>1. x \in Int /\ y \in Int /\ new = [stat EXCEPT !.mSizes = x, !.mElements = y]
      BY <1>1, <1>2, <1>3
    <2> HIDE DEF x, y
    <2>2. /\ new \in Stat /\ new.mSizes = x /\ new.mElements = y
          /\ new.overhead = stat.overhead
      BY <2>1 DEF Stat
    <2>3. /\ newer \in Stat /\ newer.mSizes = new.mSizes /\ newer.mElements = new.mElements
          /\ newer.overhead = z
      BY <2>2 DEF Stat
    <2> QED BY <2>2, <2>3 DEF x, y
  <1> HIDE DEF newer
  <1>6. /\ Total(CountsOf(left), rest) \in Nat /\ Total(LensOf(left), rest) \in Nat
    BY <1>1, TotalsType
  <1>7. /\ stat.mElements - a = (Total(CountsOf(left), rest) - 0) + 0
        /\ stat.mSizes - b = (Total(LensOf(left), rest) - 0) + 0
    BY <1>1, <1>4, <1>6
  <1>8. /\ Balances(new, left, rest, << >>, << >>)
        /\ Balances(newer, left, rest, << >>, << >>)
    BY <1>1, <1>5, <1>7, NoTotals, NothingVisited, BalancesTotals
  <1> QED BY <1>5, <1>8 DEF rest, new, newer

\* MaybePrune() leaves a log that is measured.
LEMMA PruneIsMeasured ==
    ASSUME NEW heap, IsHeap(heap), HeapIsSound(heap, {}), NEW list, IsListIn(list, heap),
           Distinct(list), NewestIsWritable(list, heap),
           NEW size \in Nat, NEW n \in 0 .. Len(list), IsMaybePruneCount(n, heap, list, size),
           NEW stat \in Stat, Balances(stat, heap, list, << >>, << >>)
    PROVE  LET rest == Unpruned(list, n)
               left == Free(heap, Pruned(list, n))
           IN  IsMeasured([RemoveChunksFromStats(stat, heap, list, n)
                              EXCEPT !.overhead = SizeUsed(left, rest, Len(rest))],
                          size, left, rest, << >>, 0)
  <1> DEFINE rest == Unpruned(list, n)
             left == Free(heap, Pruned(list, n))
             used == SizeUsed(left, rest, Len(rest))
             new == [RemoveChunksFromStats(stat, heap, list, n) EXCEPT !.overhead = used]
  <1>1. /\ IsHeap(left) /\ IsListIn(rest, left) /\ used \in 0 .. size
        /\ rest # << >> => PruneSize(left[rest[Len(rest)]]) <= size
    BY MaybePruneFits
  <1>2. DOMAIN left = (DOMAIN heap) \ Pruned(list, n) /\ \A c \in DOMAIN left : left[c] = heap[c]
    BY DEF Free
  <1>3. \A c \in Elements(list) \ Pruned(list, n) :
           c \in DOMAIN left /\ left[c].entries = heap[c].entries
    BY <1>2 DEF IsListIn
  <1>4. used \in Nat /\ used <= size
    BY <1>1
  <1> HIDE DEF used, left
  <1>5. new \in Stat /\ new.overhead = used /\ Balances(new, left, rest, << >>, << >>)
    BY <1>1, <1>3, <1>4, RemoveBalances
  <1>6. Fits(rest, left, size)
    <2> SUFFICES ASSUME NEW c \in Elements(rest), left[c].writer_active
                 PROVE  SIZEOF_CHUNK + left[c].contents <= size
      BY DEF Fits
    <2>1. c \in DOMAIN left /\ c \in DOMAIN heap /\ left[c] = heap[c] /\ c \in Elements(list)
      BY <1>1, <1>2, UnprunedElements DEF IsListIn
    <2>2. rest # << >>
      BY DEF Elements
    <2>3. c = list[Len(list)]
      BY <2>1 DEF NewestIsWritable
    <2>4. c = rest[Len(rest)]
      BY <2>2, <2>3, UnprunedLast DEF IsListIn
    <2>5. left[c].compressed_log = 0
      BY <2>1 DEF HeapIsSound, IsSound
    <2> QED BY <1>1, <2>2, <2>4, <2>5 DEF PruneSize
  <1> HIDE DEF new, rest
  <1>7. IsMeasured(new, size, left, rest, << >>, 0)
    BY <1>4, <1>5, <1>6, NoTotals DEF IsMeasured, Visited
  <1> QED BY <1>7 DEF new, rest, left, used

-----------------------------------------------------------------------------
(***************************************************************************)
(* The steps of writers and commands                                        *)
(***************************************************************************)

\* The logs but i have the chunks they had.
OthersAlike(i) ==
    \A j \in LogIds \ {i} : Alike(logs[j], chunk, chunk')

LEMMA ListsOfLogs ==
    ASSUME Parts, NEW i \in LogIds
    PROVE  IsHeap(chunk) /\ IsListIn(logs[i], chunk) /\ Distinct(logs[i])
  BY ListOfLog DEF IsListIn

\* A chunk that has not changed holds what it did.
LEMMA UnchangedIsAlike ==
    ASSUME Parts, NEW i \in LogIds, NEW D,
           \A j \in LogIds \ {i} : Elements(logs[j]) \cap D = {},
           \A c \in (DOMAIN chunk) \ D : c \in DOMAIN chunk' /\ chunk'[c] = chunk[c]
    PROVE  OthersAlike(i)
  BY ListsOfLogs DEF OthersAlike, Alike, HoldsTheSame, IsListIn

\* A step that is about log i.
LEMMA OneLogMeasured ==
    ASSUME Parts, SizeInv, IsHeap(chunk'), NEW i \in LogIds, OthersAlike(i),
           Clearing => clear.log_id = i, Clearing' => clear'.log_id = i,
           DOMAIN stats' = DOMAIN stats,
           \A j \in LogIds \ {i} :
              stats'[j] = stats[j] /\ logs'[j] = logs[j] /\ max_size'[j] = max_size[j],
           IF Clearing'
           THEN IsMeasured(stats'[i], max_size'[i], chunk', logs'[i], clear'.new_logs, clear'.entry)
           ELSE IsMeasured(stats'[i], max_size'[i], chunk', logs'[i], << >>, 0)
    PROVE  SizeInv'
  <1>1. ASSUME NEW j \in LogIds \ {i}
        PROVE  IsMeasured(stats'[j], max_size'[j], chunk', logs'[j], << >>, 0)
    <2>1. IsMeasured(stats[j], max_size[j], chunk, logs[j], << >>, 0)
      BY DEF SizeInv
    <2>2. Alike(logs[j], chunk, chunk') /\ Alike(<< >>, chunk, chunk')
      BY DEF OthersAlike, Alike, Elements
    <2>3. IsMeasured(stats[j], max_size[j], chunk', logs[j], << >>, 0)
      BY <2>1, <2>2, ListsOfLogs, NoTotals, AlikeIsMeasured
    <2> QED BY <2>3
  <1>2. DOMAIN stats' = LogIds
    BY DEF SizeInv
  <1> QED BY <1>1, <1>2 DEF SizeInv

\* AddToStats() of an entry that is logged.
LEMMA AddBalances ==
    ASSUME NEW heap, IsHeap(heap), NEW list, IsListIn(list, heap),
           NEW entry \in Entry, NEW size, NEW logged, IsHeap(logged.heap),
           Measures(heap, list, size, entry, logged),
           NEW stat \in Stat, Balances(stat, heap, list, << >>, << >>)
    PROVE  /\ AddToStats(stat, entry) \in Stat
           /\ Balances(AddToStats(stat, entry), logged.heap, logged.list, << >>, << >>)
  <1> DEFINE x == stat.mSizes + total_len(entry)
             y == stat.mElements + 1
             new == AddToStats(stat, entry)
  <1>1. stat.mSizes \in Int /\ stat.mElements \in Int /\ total_len(entry) \in Nat
    BY SizeofAssumption DEF Stat, Entry, total_len
  <1>2. x \in Int /\ y \in Int /\ new = [stat EXCEPT !.mSizes = x, !.mElements = y]
    BY <1>1 DEF AddToStats
  <1> HIDE DEF x, y
  <1>3. new \in Stat /\ new.mSizes = x /\ new.mElements = y
    BY <1>2 DEF Stat
  <1> HIDE DEF new
  <1>4. /\ stat.mElements = (Total(CountsOf(heap), list) - 0) + 0
        /\ stat.mSizes = (Total(LensOf(heap), list) - 0) + 0
    BY NoTotals, NothingVisited, BalancesTotals
  <1>5. Total(CountsOf(heap), list) \in Nat /\ Total(LensOf(heap), list) \in Nat
    BY TotalsType
  <1>6. /\ IsListIn(logged.list, logged.heap)
        /\ Total(CountsOf(logged.heap), logged.list) = Total(CountsOf(heap), list) + 1
        /\ Total(LensOf(logged.heap), logged.list) = Total(LensOf(heap), list) + total_len(entry)
    BY DEF Measures
  <1>7. /\ new.mElements = (Total(CountsOf(logged.heap), logged.list) - 0) + 0
        /\ new.mSizes = (Total(LensOf(logged.heap), logged.list) - 0) + 0
    BY <1>1, <1>3, <1>4, <1>5, <1>6 DEF x, y
  <1>8. Balances(new, logged.heap, logged.list, << >>, << >>)
    BY <1>6, <1>7, NoTotals, NothingVisited, BalancesTotals
  <1> QED BY <1>3, <1>8 DEF new

\* The entry that was logged is in the log afterwards, which is measured.
LEMMA LogIsMeasured ==
    ASSUME Parts, ChunkInv, SizeInv, NEW w \in Writers, Log(w), IsHeap(chunk')
    PROVE  /\ SizeInv'
           /\ \A i \in LogIds : i = pending[w].log_id => pending[w].entry \in EntriesOf(i)'
           /\ DOMAIN pending' = (DOMAIN pending) \ {w}
  <1>1. PICK i, entry, zsize, logged, n : LogsEntry(w, i, entry, zsize, logged, n)
    BY LogCases
  <1>2. /\ w \in DOMAIN pending /\ i = pending[w].log_id /\ entry = pending[w].entry
        /\ zsize \in ZSizes(chunk, logs[i], entry)
        /\ NeedsChunk(chunk, logs[i], entry) => CanAllocate(chunk)
        /\ logged = LogToLogBuffer(chunk, logs[i], max_size[i], entry, zsize)
    BY <1>1, Zenon DEF LogsEntry
  <1>3. i \in LogIds /\ entry \in Entry /\ entry = pending[w].entry
    BY <1>2 DEF Parts, WritersOK
  <1>4. /\ n \in 0 .. Len(logged.list)
        /\ IsMaybePruneCount(n, logged.heap, logged.list, max_size[i])
        /\ chunk' = Free(logged.heap, Pruned(logged.list, n))
        /\ logs' = [logs EXCEPT ![i] = Unpruned(logged.list, n)]
        /\ stats' = [stats EXCEPT ![i] =
              [RemoveChunksFromStats(AddToStats(@, entry), logged.heap, logged.list, n)
                  EXCEPT !.overhead = SizeUsed(chunk', logs'[i], Len(logs'[i]))]]
        /\ pending' = [v \in (DOMAIN pending) \ {w} |-> pending[v]]
    BY <1>1, Zenon DEF LogsEntry
  <1>5. ~Clearing /\ ~Clearing' /\ max_size' = max_size
    BY DEF Log, LockFree, Clearing
  <1>6. SoundlyLogged(i, logged)
    BY <1>3, <1>5, <1>2, LogIsSound DEF ChunkInv, PendingAreCut
  <1>7. /\ Extends(chunk, logs[i], logged) /\ IsHeap(logged.heap) /\ HeapIsSound(logged.heap, {})
        /\ NewestIsWritable(logged.list, logged.heap) /\ Distinct(logged.list)
        /\ \A c \in (DOMAIN chunk) \ Elements(logs[i]) : logged.heap[c] = chunk[c]
        /\ DOMAIN chunk \subseteq DOMAIN logged.heap
        /\ Elements(logged.list) \subseteq
              Elements(logs[i]) \cup ((DOMAIN logged.heap) \ DOMAIN chunk)
    BY <1>6 DEF SoundlyLogged, Extends
  <1>8. IsHeap(chunk) /\ IsListIn(logs[i], chunk) /\ Distinct(logs[i])
    BY <1>3, ListsOfLogs
  <1>9. /\ max_size[i] \in Nat /\ max_size[i] \div kChunkSizeDivisor \in Nat
        /\ SIZEOF_CHUNK + max_size[i] \div kChunkSizeDivisor <= max_size[i]
    BY <1>3, ChunkHasRoom
  <1>10. Measures(chunk, logs[i], max_size[i], entry, logged)
    BY <1>2, <1>3, <1>7, <1>8, <1>9, LogMeasures
  <1>11. IsMeasured(stats[i], max_size[i], chunk, logs[i], << >>, 0) /\ DOMAIN stats = LogIds
    BY <1>3, <1>5 DEF SizeInv
  <1>12. /\ stats[i] \in Stat /\ Balances(stats[i], chunk, logs[i], << >>, << >>)
         /\ Fits(logs[i], chunk, max_size[i])
    BY <1>11 DEF IsMeasured, Visited
  <1> DEFINE stat == AddToStats(stats[i], entry)
             list == logged.list
             rest == Unpruned(list, n)
             last == list[Len(list)]
  <1>13. /\ stat \in Stat /\ Balances(stat, logged.heap, list, << >>, << >>)
    BY <1>3, <1>7, <1>8, <1>10, <1>12, AddBalances
  <1>14. IsListIn(list, logged.heap) /\ Fits(list, logged.heap, max_size[i]) /\ list # << >>
    BY <1>10, <1>12 DEF Measures
  <1>15. /\ logs'[i] = rest
         /\ \A j \in LogIds \ {i} : logs'[j] = logs[j]
    BY <1>3, <1>4 DEF Parts, LogsOK
  <1>16. /\ stats'[i] = [RemoveChunksFromStats(stat, logged.heap, list, n)
                            EXCEPT !.overhead = SizeUsed(chunk', logs'[i], Len(logs'[i]))]
         /\ \A j \in LogIds \ {i} : stats'[j] = stats[j]
         /\ DOMAIN stats' = DOMAIN stats
    BY <1>3, <1>4, <1>11
  <1> HIDE DEF stat
  <1>17. IsMeasured(stats'[i], max_size[i], chunk', logs'[i], << >>, 0)
    BY <1>4, <1>7, <1>9, <1>13, <1>14, <1>15, <1>16, PruneIsMeasured
  <1>18. OthersAlike(i)
    <2>1. Pruned(list, n) \subseteq Elements(list)
      BY <1>4, <1>7, <1>14, UnprunedElements DEF IsListIn
    <2>2. ASSUME NEW c \in (DOMAIN chunk) \ Elements(logs[i])
          PROVE  c \in DOMAIN chunk' /\ chunk'[c] = chunk[c]
      BY <1>4, <1>7, <2>1, <2>2 DEF Free
    <2>3. \A j \in LogIds \ {i} : Elements(logs[j]) \cap Elements(logs[i]) = {}
      BY <1>3 DEF Parts, ListsAreDisjoint
    <2> QED BY <1>3, <2>2, <2>3, UnchangedIsAlike
  <1>19. SizeInv'
    BY <1>3, <1>5, <1>15, <1>16, <1>17, <1>18, OneLogMeasured
  <1>20. last \in Elements(list) /\ last \in DOMAIN logged.heap
    BY <1>14, LastElement DEF IsListIn
  <1>21. PruneSize(logged.heap[last]) <= max_size[i]
    <2>1. logged.heap[last].writer_active
      BY <1>7, <1>20 DEF NewestIsWritable
    <2>2. logged.heap[last].compressed_log = 0
      BY <1>7, <1>20, <2>1 DEF HeapIsSound, IsSound
    <2> QED BY <1>14, <1>20, <2>1, <2>2 DEF Fits, PruneSize
  <1>22. n < Len(list)
    BY <1>4, <1>7, <1>9, <1>14, <1>21, MaybePruneFits
  <1>23. last \in Elements(rest)
    <2>1. Len(list) \in Nat /\ list \in Seq(ChunkIds)
      BY <1>14, LenProperties DEF IsListIn
    <2>2. last \notin Pruned(list, n)
      <3> SUFFICES ASSUME NEW k \in 1 .. n, list[k] = last PROVE FALSE
        BY DEF Pruned
      <3>1. k \in 1 .. Len(list) /\ Len(list) \in 1 .. Len(list) /\ k # Len(list)
        BY <1>4, <1>22, <2>1
      <3> QED BY <1>7, <3>1 DEF Distinct
    <2> QED BY <1>4, <1>7, <1>20, <2>1, <2>2, UnprunedElements
  <1>24. chunk'[last] = logged.heap[last]
    <2>1. last \notin Pruned(list, n)
      BY <1>4, <1>7, <1>14, <1>23, UnprunedElements DEF IsListIn
    <2> QED BY <1>4, <1>20, <2>1 DEF Free
  <1>25. PICK k \in 1 .. Len(logged.heap[last].entries) : logged.heap[last].entries[k] = entry
    BY <1>10 DEF Measures
  <1> HIDE DEF last, rest
  <1>26. entry \in UNION {{chunk'[c].entries[m] : m \in 1 .. Len(chunk'[c].entries)} :
                             c \in Elements(logs'[i])}
    BY <1>15, <1>23, <1>24, <1>25
  <1>27. entry \in EntriesOf(i)'
    BY <1>26 DEF EntriesOf
  <1>28. DOMAIN pending' = (DOMAIN pending) \ {w}
    BY <1>4
  <1> QED BY <1>2, <1>19, <1>27, <1>28

\* SetSize() and its MaybePrune().
LEMMA SetSizeIsMeasured ==
    ASSUME Parts, ChunkInv, SizeInv, NEW i \in LogIds, NEW size \in Sizes, SetSize(i, size),
           IsHeap(chunk')
    PROVE  SizeInv'
  <1>1. ~Clearing /\ ~Clearing' /\ max_size' = [max_size EXCEPT ![i] = size]
    BY DEF SetSize, LockFree, Clearing
  <1>2. PICK n \in 0 .. Len(logs[i]) :
           /\ IsMaybePruneCount(n, chunk, logs[i], size)
           /\ chunk' = Free(chunk, Pruned(logs[i], n))
           /\ logs' = [logs EXCEPT ![i] = Unpruned(logs[i], n)]
           /\ stats' = [stats EXCEPT ![i] =
                 [RemoveChunksFromStats(@, chunk, logs[i], n)
                     EXCEPT !.overhead = SizeUsed(chunk', logs'[i], Len(logs'[i]))]]
    BY DEF SetSize
  <1>3. /\ IsHeap(chunk) /\ IsListIn(logs[i], chunk) /\ Distinct(logs[i])
        /\ HeapIsSound(chunk, {}) /\ NewestIsWritable(logs[i], chunk)
    BY <1>1, ListsOfLogs, SoundWithoutCopies DEF ChunkInv, NewestAreWritable
  <1>4. IsMeasured(stats[i], max_size[i], chunk, logs[i], << >>, 0) /\ DOMAIN stats = LogIds
    BY <1>1 DEF SizeInv
  <1>5. stats[i] \in Stat /\ Balances(stats[i], chunk, logs[i], << >>, << >>)
    BY <1>4 DEF IsMeasured, Visited
  <1> DEFINE list == logs[i]
  <1>6. /\ logs'[i] = Unpruned(list, n) /\ max_size'[i] = size
        /\ \A j \in LogIds \ {i} : logs'[j] = logs[j] /\ max_size'[j] = max_size[j]
    BY <1>1, <1>2 DEF Parts, LogsOK
  <1>7. /\ stats'[i] = [RemoveChunksFromStats(stats[i], chunk, list, n)
                            EXCEPT !.overhead = SizeUsed(chunk', logs'[i], Len(logs'[i]))]
        /\ \A j \in LogIds \ {i} : stats'[j] = stats[j]
        /\ DOMAIN stats' = DOMAIN stats
    BY <1>2, <1>4
  <1>8. size \in Nat
    BY SizeAssumption
  <1>9. IsMeasured(stats'[i], size, chunk', logs'[i], << >>, 0)
    BY <1>2, <1>3, <1>5, <1>6, <1>7, <1>8, PruneIsMeasured
  <1>10. OthersAlike(i)
    <2>1. Pruned(list, n) \subseteq Elements(list)
      BY <1>3, UnprunedElements DEF IsListIn
    <2>2. \A c \in (DOMAIN chunk) \ Elements(list) : c \in DOMAIN chunk' /\ chunk'[c] = chunk[c]
      BY <1>2, <2>1 DEF Free
    <2>3. \A j \in LogIds \ {i} : Elements(logs[j]) \cap Elements(list) = {}
      BY DEF Parts, ListsAreDisjoint
    <2> QED BY <2>2, <2>3, UnchangedIsAlike
  <1> QED BY <1>1, <1>6, <1>7, <1>9, <1>10, OneLogMeasured

\* Clear() of a whole log.
LEMMA ClearAllIsMeasured ==
    ASSUME Parts, SizeInv, NEW i \in LogIds, ClearAll(i), IsHeap(chunk')
    PROVE  SizeInv'
  <1> DEFINE list == logs[i]
  <1>1. /\ ~Clearing /\ ~Clearing' /\ max_size' = max_size
        /\ chunk' = Free(chunk, Elements(list))
        /\ logs' = [logs EXCEPT ![i] = << >>]
        /\ stats' = [stats EXCEPT ![i] = RemoveChunksFromStats(@, chunk, list, Len(list))]
    BY DEF ClearAll, LockFree, Clearing
  <1>2. IsHeap(chunk) /\ IsListIn(list, chunk) /\ Distinct(list)
    BY ListsOfLogs
  <1>3. IsMeasured(stats[i], max_size[i], chunk, list, << >>, 0) /\ DOMAIN stats = LogIds
    BY <1>1 DEF SizeInv
  <1>4. /\ stats[i] \in Stat /\ Balances(stats[i], chunk, list, << >>, << >>)
        /\ stats[i].overhead <= max_size[i]
    BY <1>3 DEF IsMeasured, Visited
  <1> DEFINE stat == RemoveChunksFromStats(stats[i], chunk, list, Len(list))
  <1>5. /\ logs'[i] = << >> /\ stats'[i] = stat /\ DOMAIN stats' = DOMAIN stats
        /\ \A j \in LogIds \ {i} : logs'[j] = logs[j] /\ stats'[j] = stats[j]
    BY <1>1, <1>3 DEF Parts, LogsOK
  <1>6. Len(list) \in Nat /\ Len(list) \in 0 .. Len(list) /\ 0 \in Nat
    BY <1>2, TotalsType
  <1>7. Unpruned(list, Len(list)) = << >> /\ Elements(list) = Pruned(list, Len(list))
    <2>1. Unpruned(list, Len(list)) = << >>
      BY <1>2, <1>6, SubSeqProperties DEF Unpruned, IsListIn
    <2> QED BY <2>1 DEF Elements, Pruned
  <1>8. stat \in Stat /\ stat.overhead = stats[i].overhead
        /\ Balances(stat, chunk', << >>, << >>, << >>)
    <2> DEFINE n == Len(list)
               rest == Unpruned(list, n)
    <2>1. /\ n \in 0 .. Len(list)
          /\ \A c \in Elements(list) \ Pruned(list, n) :
                c \in DOMAIN chunk' /\ chunk'[c].entries = chunk[c].entries
      BY <1>6, <1>7
    <2>2. ASSUME NEW s \in Stat, Balances(s, chunk, list, << >>, << >>), NEW z \in Nat
          PROVE  LET new   == RemoveChunksFromStats(s, chunk, list, n)
                     newer == [new EXCEPT !.overhead = z]
                 IN  /\ new \in Stat /\ new.overhead = s.overhead
                     /\ Balances(new, chunk', rest, << >>, << >>)
                     /\ newer \in Stat /\ newer.overhead = z
                     /\ Balances(newer, chunk', rest, << >>, << >>)
      <3> HIDE DEF n, list
      <3> QED BY <1>2, <2>1, <2>2, RemoveBalances
    <2>3. LET new == RemoveChunksFromStats(stats[i], chunk, list, n)
          IN  /\ new \in Stat /\ new.overhead = stats[i].overhead
              /\ Balances(new, chunk', rest, << >>, << >>)
      <3> HIDE DEF n, list
      <3> QED BY <1>4, <1>6, <2>2
    <2> QED BY <1>7, <2>3
  <1> HIDE DEF stat
  <1>9. IsMeasured(stats'[i], max_size[i], chunk', logs'[i], << >>, 0)
    BY <1>4, <1>5, <1>8, NoTotals DEF IsMeasured, Visited
  <1>10. OthersAlike(i)
    <2>1. \A c \in (DOMAIN chunk) \ Elements(list) : c \in DOMAIN chunk' /\ chunk'[c] = chunk[c]
      BY <1>1 DEF Free
    <2>2. \A j \in LogIds \ {i} : Elements(logs[j]) \cap Elements(list) = {}
      BY DEF Parts, ListsAreDisjoint
    <2> QED BY <2>1, <2>2, UnchangedIsAlike
  <1> QED BY <1>1, <1>5, <1>9, <1>10, OneLogMeasured

\* Nothing that is measured changes.
LEMMA SameSizes ==
    ASSUME SizeInv, UNCHANGED <<chunk, logs, max_size, stats>>,
           \/ Clearing' = Clearing /\ clear' = clear
           \/ ~Clearing /\ clear'.new_logs = << >> /\ clear'.entry = 0
    PROVE  SizeInv'
  <1>1. CASE Clearing' = Clearing /\ clear' = clear
    BY <1>1 DEF SizeInv
  <1>2. CASE ~Clearing /\ clear'.new_logs = << >> /\ clear'.entry = 0
    BY <1>2 DEF SizeInv
  <1> QED BY <1>1, <1>2

\* The chunk at the head of a list and the others.
LEMMA TailTotals ==
    ASSUME NEW heap, IsHeap(heap), NEW list, IsListIn(list, heap), Distinct(list), list # << >>,
           NEW left, IsHeap(left),
           \A c \in Elements(list) \ {Head(list)} :
              c \in DOMAIN left /\ left[c].entries = heap[c].entries
    PROVE  LET entries == heap[Head(list)].entries
           IN  /\ IsListIn(Tail(list), left)
               /\ Total(CountsOf(heap), list) = Len(entries) + Total(CountsOf(left), Tail(list))
               /\ Total(LensOf(heap), list) = TotalLens(entries) + Total(LensOf(left), Tail(list))
               /\ entries \in Seq(Entry) /\ Head(list) \in DOMAIN heap
  <1> DEFINE head == Head(list)
  <1>1. /\ list \in Seq(ChunkIds) /\ Len(list) \in Nat \ {0} /\ head = list[1]
        /\ 1 \in 0 .. Len(list) /\ 1 \in 1 .. Len(list)
    BY LenProperties, EmptySeq DEF IsListIn
  <1>2. Pruned(list, 1) = {head}
    BY <1>1 DEF Pruned
  <1>3. Unpruned(list, 1) = Tail(list)
    <2>0. ASSUME NEW n \in 0 .. Len(list)
          PROVE  /\ Unpruned(list, n) \in Seq(ChunkIds) /\ Len(Unpruned(list, n)) = Len(list) - n
                 /\ \A k \in 1 .. Len(list) - n : Unpruned(list, n)[k] = list[n + k]
      BY <1>1, SubSeqProperties DEF Unpruned
    <2>1. /\ Unpruned(list, 1) \in Seq(ChunkIds) /\ Len(Unpruned(list, 1)) = Len(list) - 1
          /\ \A k \in 1 .. Len(list) - 1 : Unpruned(list, 1)[k] = list[k + 1]
      BY <1>1, <2>0
    <2>2. /\ Tail(list) \in Seq(ChunkIds) /\ Len(Tail(list)) = Len(list) - 1
          /\ \A k \in 1 .. Len(list) - 1 : Tail(list)[k] = list[k + 1]
      BY <1>1, HeadTailProperties
    <2> QED BY <1>1, <2>1, <2>2, SeqEqual
  <1>4. /\ IsListIn(Tail(list), left)
        /\ Total(CountsOf(heap), list) = ElementsIn(heap, list, 1) + Total(CountsOf(left), Tail(list))
        /\ Total(LensOf(heap), list) = SizesIn(heap, list, 1) + Total(LensOf(left), Tail(list))
        /\ ElementsIn(heap, list, 1) \in Nat /\ SizesIn(heap, list, 1) \in Nat
    <2>1. \A c \in Elements(list) \ Pruned(list, 1) :
             c \in DOMAIN left /\ left[c].entries = heap[c].entries
      BY <1>2
    <2> DEFINE n == 1
    <2>2. /\ n \in 0 .. Len(list)
          /\ \A c \in Elements(list) \ Pruned(list, n) :
                c \in DOMAIN left /\ left[c].entries = heap[c].entries
      BY <1>1, <2>1
    <2> HIDE DEF n
    <2>3. LET rest == Unpruned(list, n)
          IN  /\ IsListIn(rest, left)
              /\ Total(CountsOf(heap), list) = ElementsIn(heap, list, n) + Total(CountsOf(left), rest)
              /\ Total(LensOf(heap), list) = SizesIn(heap, list, n) + Total(LensOf(left), rest)
              /\ ElementsIn(heap, list, n) \in Nat /\ SizesIn(heap, list, n) \in Nat
      BY <2>2, RestTotals
    <2> QED BY <1>3, <2>3 DEF n
  <1>5. head \in DOMAIN heap /\ heap[head] \in Chunk /\ heap[head].entries \in Seq(Entry)
    BY <1>1 DEF IsListIn, Elements, IsHeap, Chunk
  <1>6. ElementsIn(heap, list, 1) = Len(heap[head].entries)
    <2> DEFINE f == OnList(CountsOf(heap), list)
    <2>1. ElementsIn(heap, list, 1) = Sums(f)[1] /\ Len(f) = Len(list) /\ f[1] = CountsOf(heap)[list[1]]
      BY <1>1, AmountsOnList, OnListNumbers
    <2>2. Sums(f)[1] = Sums(f)[0] + f[1] /\ Sums(f)[0] = 0
      BY <1>1, <2>1, SumsRule
    <2>3. f[1] = Len(heap[head].entries) /\ f[1] \in Nat
      BY <1>1, <1>5, <2>1, LenProperties DEF CountsOf
    <2> QED BY <2>1, <2>2, <2>3
  <1>7. SizesIn(heap, list, 1) = TotalLens(heap[head].entries)
    <2> DEFINE f == OnList(LensOf(heap), list)
    <2>1. SizesIn(heap, list, 1) = Sums(f)[1] /\ Len(f) = Len(list) /\ f[1] = LensOf(heap)[list[1]]
      BY <1>1, AmountsOnList, OnListNumbers
    <2>2. Sums(f)[1] = Sums(f)[0] + f[1] /\ Sums(f)[0] = 0
      BY <1>1, <2>1, SumsRule
    <2>3. f[1] = TotalLens(heap[head].entries) /\ f[1] \in Nat
      BY <1>1, <1>5, <2>1, EntryLensNumbers DEF LensOf
    <2> QED BY <2>1, <2>2, <2>3
  <1> QED BY <1>4, <1>5, <1>6, <1>7
-----------------------------------------------------------------------------
(***************************************************************************)
(* ClearLogsByUid()                                                         *)
(***************************************************************************)

\* The entries before the one ClearLogsByUid() is at.
LEMMA VisitedGrows ==
    ASSUME NEW entries \in Seq(Entry), NEW n \in 1 .. Len(entries)
    PROVE  /\ SubSeq(entries, 1, n - 1) \in Seq(Entry) /\ entries[n] \in Entry
           /\ Len(SubSeq(entries, 1, n)) = Len(SubSeq(entries, 1, n - 1)) + 1
           /\ TotalLens(SubSeq(entries, 1, n))
                 = TotalLens(SubSeq(entries, 1, n - 1)) + total_len(entries[n])
  <1>1. Len(entries) \in Nat /\ \A k \in 1 .. Len(entries) : entries[k] \in Entry
    BY LenProperties, ElementOfSeq
  <1> DEFINE long == SubSeq(entries, 1, n)
             short == SubSeq(entries, 1, n - 1)
             entry == entries[n]
  <1>2. /\ long \in Seq(Entry) /\ Len(long) = n
        /\ \A k \in 1 .. n : long[k] = entries[k]
    BY <1>1, SubSeqProperties
  <1>3. /\ short \in Seq(Entry) /\ Len(short) = n - 1
        /\ \A k \in 1 .. n - 1 : short[k] = entries[k]
    BY <1>1, SubSeqProperties
  <1>4. entry \in Entry
    BY <1>1
  <1> HIDE DEF short, entry
  <1>5. /\ Append(short, entry) \in Seq(Entry) /\ Len(Append(short, entry)) = Len(short) + 1
        /\ \A k \in 1 .. Len(short) : Append(short, entry)[k] = short[k]
        /\ Append(short, entry)[Len(short) + 1] = entry
    BY <1>3, <1>4, AppendProperties
  <1>6. long = Append(short, entry)
    <2>1. Len(long) = Len(Append(short, entry))
      BY <1>1, <1>2, <1>3, <1>5
    <2>2. ASSUME NEW k \in 1 .. Len(long)
          PROVE  long[k] = Append(short, entry)[k]
      <3>1. CASE k = n
        BY <1>1, <1>2, <1>3, <1>5, <3>1 DEF entry
      <3>2. CASE k # n
        <4>1. k \in 1 .. n - 1 /\ k \in 1 .. n
          BY <1>1, <1>2, <3>2
        <4> QED BY <1>2, <1>3, <1>5, <4>1
      <3> QED BY <3>1, <3>2
    <2> HIDE DEF long
    <2> QED BY <1>2, <1>5, <2>1, <2>2, SeqEqual
  <1> HIDE DEF long
  <1>7. /\ TotalLens(long) = TotalLens(short) + total_len(entry)
        /\ Len(long) = Len(short) + 1
    BY <1>3, <1>4, <1>6, TotalLensAppend
  <1> QED BY <1>3, <1>4, <1>7 DEF short, long, entry

\* At the first entry nothing is visited, behind the last one everything.
LEMMA VisitedEnds ==
    ASSUME NEW entries \in Seq(Entry)
    PROVE  SubSeq(entries, 1, 0) = << >> /\ SubSeq(entries, 1, Len(entries)) = entries
  BY SubSeqEmpty, SubSeqFull

\* IsMeasured(), with the sums named.
LEMMA MeasuredTotals ==
    ASSUME NEW heap, IsHeap(heap), NEW list, IsListIn(list, heap),
           NEW copied, IsListIn(copied, heap), NEW stat, NEW size, NEW n, NEW visited,
           visited = Visited(heap, list, n)
    PROVE  IsMeasured(stat, size, heap, list, copied, n) <=>
              /\ stat \in Stat /\ stat.overhead <= size
              /\ Fits(list, heap, size) /\ Fits(copied, heap, size)
              /\ n # 0 => n <= Len(heap[Head(list)].entries) + 1
              /\ stat.mElements = (Total(CountsOf(heap), list) - Len(visited))
                                      + Total(CountsOf(heap), copied)
              /\ stat.mSizes = (Total(LensOf(heap), list) - TotalLens(visited))
                                      + Total(LensOf(heap), copied)
  BY BalancesTotals DEF IsMeasured

\* The chunk at the head goes over to the other list.
LEMMA SpliceIsMeasured ==
    ASSUME NEW heap, IsHeap(heap), NEW new, IsHeap(new),
           DOMAIN new = DOMAIN heap, \A c \in DOMAIN heap : HoldsTheSame(heap[c], new[c]),
           NEW list, IsListIn(list, heap), Distinct(list), list # << >>,
           NEW copied, IsListIn(copied, heap), Distinct(copied), Head(list) \notin Elements(copied),
           NEW stat, NEW size, IsMeasured(stat, size, heap, list, copied, 0)
    PROVE  IsMeasured(stat, size, new, Tail(list), Append(copied, Head(list)), 0)
  <1> DEFINE head == Head(list)
             rest == Tail(list)
             more == Append(copied, head)
             entries == heap[head].entries
  <1>1. \A c \in Elements(list) \ {Head(list)} :
           c \in DOMAIN new /\ new[c].entries = heap[c].entries
    BY DEF IsListIn, HoldsTheSame
  <1>2. /\ IsListIn(rest, new)
        /\ Total(CountsOf(heap), list) = Len(entries) + Total(CountsOf(new), rest)
        /\ Total(LensOf(heap), list) = TotalLens(entries) + Total(LensOf(new), rest)
        /\ entries \in Seq(Entry) /\ head \in DOMAIN heap
    BY <1>1, TailTotals
  <1>3. head \in ChunkIds /\ new[head].entries = entries /\ head \in Elements(list)
        /\ Elements(rest) \subseteq Elements(list)
    <2>1. head \in Elements(list)
      <3>1. Len(list) \in Nat \ {0} /\ head = list[1]
        BY LenProperties, EmptySeq DEF IsListIn
      <3> QED BY <3>1 DEF Elements
    <2>2. Elements(rest) \subseteq Elements(list)
      BY TailElements DEF IsListIn
    <2> QED BY <1>2, <2>1, <2>2 DEF IsHeap, HoldsTheSame
  <1>4. Len(entries) \in Nat /\ TotalLens(entries) \in Nat
    BY <1>2, EntryLensNumbers
  <1>5. CountsOf(new)[head] = Len(entries) /\ LensOf(new)[head] = TotalLens(entries)
    BY <1>2, <1>3 DEF CountsOf, LensOf
  <1> HIDE DEF head, rest, entries
  <1>6. \A c \in Elements(copied) : /\ CountsOf(new)[c] = CountsOf(heap)[c]
                                    /\ LensOf(new)[c] = LensOf(heap)[c]
    BY DEF CountsOf, LensOf, IsListIn, HoldsTheSame
  <1>7. IsOn(CountsOf(heap), copied) /\ IsOn(LensOf(heap), copied)
    BY AmountsOnList
  <1>8. /\ Total(CountsOf(new), more) = Total(CountsOf(heap), copied) + Len(entries)
        /\ Total(LensOf(new), more) = Total(LensOf(heap), copied) + TotalLens(entries)
    BY <1>3, <1>4, <1>5, <1>6, <1>7, TotalAppend
  <1>9. more \in Seq(ChunkIds) /\ Elements(more) = Elements(copied) \cup {head}
    <2>1. copied \in Seq(ChunkIds)
      BY DEF IsListIn
    <2> QED BY <1>3, <2>1, AppendElements DEF head
  <1>10. IsListIn(more, new)
    BY <1>2, <1>9 DEF IsListIn
  <1> HIDE DEF more
  <1> DEFINE none == << >>
  <1>11. /\ none = Visited(heap, list, 0) /\ none = Visited(new, rest, 0)
         /\ Len(none) = 0 /\ TotalLens(none) = 0
    BY NothingVisited DEF Visited
  <1> HIDE DEF none
  <1>12. /\ stat \in Stat /\ stat.overhead <= size
         /\ Fits(list, heap, size) /\ Fits(copied, heap, size)
         /\ stat.mElements = (Total(CountsOf(heap), list) - 0) + Total(CountsOf(heap), copied)
         /\ stat.mSizes = (Total(LensOf(heap), list) - 0) + Total(LensOf(heap), copied)
    BY <1>11, MeasuredTotals
  <1>13. Fits(rest, new, size) /\ Fits(more, new, size)
    BY <1>3, <1>9, <1>12 DEF Fits, HoldsTheSame, IsListIn
  <1>14. /\ Total(CountsOf(new), rest) \in Nat /\ Total(LensOf(new), rest) \in Nat
         /\ Total(CountsOf(heap), copied) \in Nat /\ Total(LensOf(heap), copied) \in Nat
    BY <1>2, TotalsType
  <1>15. /\ stat.mElements = (Total(CountsOf(new), rest) - 0) + Total(CountsOf(new), more)
         /\ stat.mSizes = (Total(LensOf(new), rest) - 0) + Total(LensOf(new), more)
    <2>1. \A x, y, z \in Nat : ((x + y) - 0) + z = (y - 0) + (z + x)
      OBVIOUS
    <2>2. stat.mElements = ((Len(entries) + Total(CountsOf(new), rest)) - 0)
                              + Total(CountsOf(heap), copied)
      BY <1>2, <1>12
    <2>3. stat.mSizes = ((TotalLens(entries) + Total(LensOf(new), rest)) - 0)
                              + Total(LensOf(heap), copied)
      BY <1>2, <1>12
    <2>4. stat.mElements = (Total(CountsOf(new), rest) - 0)
                              + (Total(CountsOf(heap), copied) + Len(entries))
      BY <1>4, <1>14, <2>1, <2>2, Zenon
    <2>5. stat.mSizes = (Total(LensOf(new), rest) - 0)
                              + (Total(LensOf(heap), copied) + TotalLens(entries))
      BY <1>4, <1>14, <2>1, <2>3, Zenon
    <2> QED BY <1>8, <2>4, <2>5
  <1>16. IsMeasured(stat, size, new, rest, more, 0)
    BY <1>2, <1>10, <1>11, <1>12, <1>13, <1>15, MeasuredTotals
  <1> QED BY <1>16 DEF rest, more, head
\* The chunk at the head is opened.
LEMMA OpenedIsMeasured ==
    ASSUME NEW heap, IsHeap(heap), NEW list, IsListIn(list, heap), list # << >>,
           NEW copied, IsListIn(copied, heap),
           NEW stat, NEW size, IsMeasured(stat, size, heap, list, copied, 0)
    PROVE  IsMeasured(stat, size, heap, list, copied, 1)
  <1>1. Head(list) \in Elements(list)
    <2>1. Len(list) \in Nat \ {0} /\ Head(list) = list[1]
      BY LenProperties, EmptySeq DEF IsListIn
    <2> QED BY <2>1 DEF Elements
  <1>2. heap[Head(list)].entries \in Seq(Entry)
    BY <1>1 DEF IsListIn, IsHeap, Chunk
  <1>3. Len(heap[Head(list)].entries) \in Nat
    BY <1>2, LenProperties
  <1>4. Visited(heap, list, 1) = << >> /\ Visited(heap, list, 0) = << >>
    BY <1>2, VisitedEnds DEF Visited
  <1> QED BY <1>3, <1>4 DEF IsMeasured

\* An empty chunk is put behind what is copied.
LEMMA EmptyIsMeasured ==
    ASSUME NEW heap, IsHeap(heap), NEW list, IsListIn(list, heap),
           NEW copied, IsListIn(copied, heap), Distinct(copied),
           NEW c \in ChunkIds, c \notin DOMAIN heap, NEW new, IsHeap(new),
           c \in DOMAIN new, new[c].entries = << >>, \A d \in DOMAIN heap : d \in DOMAIN new /\ new[d] = heap[d],
           NEW size, SIZEOF_CHUNK + new[c].contents <= size,
           NEW stat, IsMeasured(stat, size, heap, list, copied, 0)
    PROVE  IsMeasured(stat, size, new, list, Append(copied, c), 0)
  <1> DEFINE more == Append(copied, c)
  <1>1. /\ Alike(list, heap, new) /\ Alike(copied, heap, new)
    BY DEF Alike, HoldsTheSame, IsListIn
  <1>2. IsMeasured(stat, size, new, list, copied, 0) /\ IsListIn(list, new) /\ IsListIn(copied, new)
    BY <1>1, AlikeIsMeasured, AlikeTotals
  <1>3. CountsOf(new)[c] = 0 /\ LensOf(new)[c] = 0
    BY NothingVisited DEF CountsOf, LensOf
  <1>4. c \notin Elements(copied) /\ copied \in Seq(ChunkIds)
    BY DEF IsListIn
  <1>5. more \in Seq(ChunkIds) /\ Elements(more) = Elements(copied) \cup {c}
    BY <1>4, AppendElements
  <1>6. IsListIn(more, new)
    BY <1>2, <1>5 DEF IsListIn
  <1>7. IsOn(CountsOf(new), copied) /\ IsOn(LensOf(new), copied)
    BY <1>2, AmountsOnList
  <1>8. /\ Total(CountsOf(new), more) = Total(CountsOf(new), copied) + 0
        /\ Total(LensOf(new), more) = Total(LensOf(new), copied) + 0
    BY <1>3, <1>7, TotalAppend
  <1>9. /\ Total(CountsOf(new), copied) \in Nat /\ Total(LensOf(new), copied) \in Nat
    BY <1>2, TotalsType
  <1> HIDE DEF more
  <1>10. Balances(stat, new, list, copied, Visited(new, list, 0))
         /\ Fits(list, new, size) /\ Fits(copied, new, size)
    BY <1>2 DEF IsMeasured
  <1>11. Balances(stat, new, list, more, Visited(new, list, 0))
    <2>1. /\ Total(CountsOf(new), more) = Total(CountsOf(new), copied)
          /\ Total(LensOf(new), more) = Total(LensOf(new), copied)
      BY <1>8, <1>9
    <2> QED BY <1>2, <1>6, <1>10, <2>1, BalancesTotals
  <1>12. Fits(more, new, size)
    BY <1>5, <1>10 DEF Fits
  <1> QED BY <1>2, <1>10, <1>11, <1>12 DEF IsMeasured, more

\* The entry at n is passed over, dropped or copied.
LEMMA PassedIsMeasured ==
    ASSUME NEW heap, IsHeap(heap), NEW new, IsHeap(new),
           NEW list, IsListIn(list, heap), list # << >>, Alike(list, heap, new),
           NEW copied, IsListIn(copied, heap), NEW more, IsListIn(more, new),
           NEW n \in 1 .. Len(heap[Head(list)].entries),
           NEW stat, NEW size, IsMeasured(stat, size, heap, list, copied, n),
           NEW stat2 \in Stat, stat2.overhead <= size,
           Fits(copied, heap, size) => Fits(more, new, size),
           NEW a \in Nat, NEW b \in Nat,
           Total(CountsOf(new), more) = Total(CountsOf(heap), copied) + a,
           Total(LensOf(new), more) = Total(LensOf(heap), copied) + b,
           stat2.mElements = (stat.mElements + a) - 1,
           stat2.mSizes = (stat.mSizes + b) - total_len(heap[Head(list)].entries[n])
    PROVE  IsMeasured(stat2, size, new, list, more, n + 1)
  <1> DEFINE head == Head(list)
             entries == heap[head].entries
             entry == entries[n]
             long == SubSeq(entries, 1, n)
             short == SubSeq(entries, 1, n - 1)
  <1>1. head \in Elements(list)
    <2>1. Len(list) \in Nat \ {0} /\ Head(list) = list[1]
      BY LenProperties, EmptySeq DEF IsListIn
    <2> QED BY <2>1 DEF Elements
  <1>2. entries \in Seq(Entry) /\ new[head].entries = entries
    BY <1>1 DEF IsListIn, IsHeap, Chunk, Alike, HoldsTheSame
  <1>3. /\ short \in Seq(Entry) /\ entry \in Entry /\ Len(entries) \in Nat
        /\ Len(long) = Len(short) + 1 /\ TotalLens(long) = TotalLens(short) + total_len(entry)
        /\ Len(short) \in Nat /\ TotalLens(short) \in Nat /\ total_len(entry) \in Nat
    <2> HIDE DEF entries
    <2>1. /\ short \in Seq(Entry) /\ entry \in Entry
          /\ Len(long) = Len(short) + 1 /\ TotalLens(long) = TotalLens(short) + total_len(entry)
      BY <1>2, VisitedGrows DEF entries
    <2>2. \A e \in Entry : total_len(e) \in Nat
      BY SizeofAssumption DEF Entry, total_len
    <2> QED BY <1>2, <2>1, <2>2, EntryLensNumbers
  <1>4. Visited(heap, list, n) = short /\ Visited(new, list, n + 1) = long
    <2>1. n # 0 /\ n + 1 # 0 /\ (n + 1) - 1 = n
      OBVIOUS
    <2> QED BY <1>2, <2>1 DEF Visited
  <1> HIDE DEF head, entries, entry, long, short
  <1>5. /\ stat \in Stat /\ Fits(list, heap, size) /\ Fits(copied, heap, size)
        /\ stat.mElements = (Total(CountsOf(heap), list) - Len(short)) + Total(CountsOf(heap), copied)
        /\ stat.mSizes = (Total(LensOf(heap), list) - TotalLens(short)) + Total(LensOf(heap), copied)
    BY <1>4, MeasuredTotals
  <1>6. /\ IsListIn(list, new) /\ Fits(list, new, size)
        /\ Total(CountsOf(new), list) = Total(CountsOf(heap), list)
        /\ Total(LensOf(new), list) = Total(LensOf(heap), list)
    BY <1>5, AlikeTotals
  <1>7. /\ Total(CountsOf(heap), list) \in Nat /\ Total(LensOf(heap), list) \in Nat
        /\ Total(CountsOf(heap), copied) \in Nat /\ Total(LensOf(heap), copied) \in Nat
    BY TotalsType
  <1>8. stat2.mElements = (Total(CountsOf(new), list) - Len(long)) + Total(CountsOf(new), more)
    <2>1. stat2.mElements
             = (((Total(CountsOf(heap), list) - Len(short)) + Total(CountsOf(heap), copied)) + a) - 1
      BY <1>5
    <2>2. stat2.mElements
             = (Total(CountsOf(heap), list) - (Len(short) + 1)) + (Total(CountsOf(heap), copied) + a)
      <3> DEFINE x == Total(CountsOf(heap), list)
                 y == Len(short)
                 z == Total(CountsOf(heap), copied)
                 v == 1
      <3>1. x \in Nat /\ y \in Nat /\ z \in Nat /\ v \in Nat
            /\ stat2.mElements = (((x - y) + z) + a) - v
        BY <1>3, <1>7, <2>1
      <3> HIDE DEF x, y, z, v
      <3>2. stat2.mElements = (x - (y + v)) + (z + a)
        BY <3>1
      <3> QED BY <3>2 DEF x, y, z, v
    <2> QED BY <1>3, <1>6, <2>2
  <1>9. stat2.mSizes = (Total(LensOf(new), list) - TotalLens(long)) + Total(LensOf(new), more)
    <2>1. stat2.mSizes
             = (((Total(LensOf(heap), list) - TotalLens(short)) + Total(LensOf(heap), copied)) + b)
                  - total_len(entry)
      BY <1>5 DEF entry, entries, head
    <2>2. stat2.mSizes = (Total(LensOf(heap), list) - (TotalLens(short) + total_len(entry)))
                              + (Total(LensOf(heap), copied) + b)
      <3> DEFINE x == Total(LensOf(heap), list)
                 y == TotalLens(short)
                 z == Total(LensOf(heap), copied)
                 v == total_len(entry)
      <3>1. x \in Nat /\ y \in Nat /\ z \in Nat /\ v \in Nat
            /\ stat2.mSizes = (((x - y) + z) + b) - v
        BY <1>3, <1>7, <2>1
      <3> HIDE DEF x, y, z, v
      <3>2. (((x - y) + z) + b) - v = (x - (y + v)) + (z + b)
        BY <3>1
      <3> QED BY <3>1, <3>2, Zenon DEF x, y, z, v
    <2> QED BY <1>3, <1>6, <2>2
  <1>10. n + 1 <= Len(new[Head(list)].entries) + 1
    BY <1>2, <1>3 DEF head, entries
  <1> QED BY <1>4, <1>5, <1>6, <1>8, <1>9, <1>10, MeasuredTotals
\* The chunk at the head, all of it visited, is erased.
LEMMA EraseIsMeasured ==
    ASSUME NEW heap, IsHeap(heap), NEW list, IsListIn(list, heap), Distinct(list), list # << >>,
           NEW copied, IsListIn(copied, heap), Head(list) \notin Elements(copied),
           NEW left, left = Free(heap, {Head(list)}), IsHeap(left),
           NEW n \in Nat \ {0}, n > Len(heap[Head(list)].entries),
           NEW stat, NEW size, IsMeasured(stat, size, heap, list, copied, n)
    PROVE  IsMeasured(stat, size, left, Tail(list), copied, 0)
  <1> DEFINE head == Head(list)
             rest == Tail(list)
             entries == heap[head].entries
  <1>1. DOMAIN left = (DOMAIN heap) \ {head} /\ \A c \in DOMAIN left : left[c] = heap[c]
    BY DEF Free
  <1>2. \A c \in Elements(list) \ {Head(list)} :
           c \in DOMAIN left /\ left[c].entries = heap[c].entries
    BY <1>1 DEF IsListIn
  <1>3. /\ IsListIn(rest, left)
        /\ Total(CountsOf(heap), list) = Len(entries) + Total(CountsOf(left), rest)
        /\ Total(LensOf(heap), list) = TotalLens(entries) + Total(LensOf(left), rest)
        /\ entries \in Seq(Entry) /\ head \in DOMAIN heap
    BY <1>2, TailTotals
  <1>4. Len(entries) \in Nat /\ TotalLens(entries) \in Nat
    BY <1>3, EntryLensNumbers
  <1>5. n = Len(entries) + 1
    BY <1>4 DEF IsMeasured
  <1>6. entries = Visited(heap, list, n)
    <2>1. n - 1 = Len(entries)
      BY <1>4, <1>5
    <2>2. SubSeq(entries, 1, Len(entries)) = entries
      BY <1>3, VisitedEnds
    <2> QED BY <2>1, <2>2 DEF Visited
  <1>7. Elements(rest) \subseteq Elements(list)
    BY TailElements DEF IsListIn
  <1> HIDE DEF head, rest, entries
  <1>8. /\ stat \in Stat /\ stat.overhead <= size
        /\ Fits(list, heap, size) /\ Fits(copied, heap, size)
        /\ stat.mElements = (Total(CountsOf(heap), list) - Len(entries)) + Total(CountsOf(heap), copied)
        /\ stat.mSizes = (Total(LensOf(heap), list) - TotalLens(entries)) + Total(LensOf(heap), copied)
    BY <1>6, MeasuredTotals
  <1>9. Alike(copied, heap, left)
    BY <1>1 DEF Alike, IsListIn, HoldsTheSame, head
  <1>10. /\ IsListIn(copied, left) /\ Fits(copied, left, size)
         /\ Total(CountsOf(left), copied) = Total(CountsOf(heap), copied)
         /\ Total(LensOf(left), copied) = Total(LensOf(heap), copied)
    BY <1>8, <1>9, AlikeTotals
  <1>11. Fits(rest, left, size)
    BY <1>1, <1>3, <1>7, <1>8 DEF Fits, IsListIn
  <1>12. /\ Total(CountsOf(left), rest) \in Nat /\ Total(LensOf(left), rest) \in Nat
         /\ Total(CountsOf(left), copied) \in Nat /\ Total(LensOf(left), copied) \in Nat
    BY <1>3, <1>10, TotalsType
  <1>13. stat.mElements = (Total(CountsOf(left), rest) - 0) + Total(CountsOf(left), copied)
    <2> DEFINE x == Len(entries)
               y == Total(CountsOf(left), rest)
               z == Total(CountsOf(left), copied)
    <2>1. x \in Nat /\ y \in Nat /\ z \in Nat /\ stat.mElements = ((x + y) - x) + z
      BY <1>3, <1>4, <1>8, <1>10, <1>12
    <2> HIDE DEF x, y, z
    <2>2. ((x + y) - x) + z = (y - 0) + z
      BY <2>1
    <2> QED BY <2>1, <2>2, Zenon DEF x, y, z
  <1>14. stat.mSizes = (Total(LensOf(left), rest) - 0) + Total(LensOf(left), copied)
    <2> DEFINE x == TotalLens(entries)
               y == Total(LensOf(left), rest)
               z == Total(LensOf(left), copied)
    <2>1. x \in Nat /\ y \in Nat /\ z \in Nat /\ stat.mSizes = ((x + y) - x) + z
      BY <1>3, <1>4, <1>8, <1>10, <1>12
    <2> HIDE DEF x, y, z
    <2>2. ((x + y) - x) + z = (y - 0) + z
      BY <2>1
    <2> QED BY <2>1, <2>2, Zenon DEF x, y, z
  <1> DEFINE none == << >>
  <1>15. /\ none = Visited(left, rest, 0) /\ Len(none) = 0 /\ TotalLens(none) = 0
    BY NothingVisited DEF Visited
  <1> HIDE DEF none
  <1>16. IsMeasured(stat, size, left, rest, copied, 0)
    BY <1>3, <1>8, <1>10, <1>11, <1>13, <1>14, <1>15, MeasuredTotals
  <1> QED BY <1>16 DEF rest

\* What ClearLogsByUid() works on.
LEMMA ClearedLog ==
    ASSUME Parts, SizeInv, Clearing
    PROVE  /\ clear.log_id \in LogIds /\ IsHeap(chunk)
           /\ IsListIn(logs[clear.log_id], chunk) /\ Distinct(logs[clear.log_id])
           /\ IsListIn(clear.new_logs, chunk) /\ Distinct(clear.new_logs)
           /\ IsMeasured(stats[clear.log_id], max_size[clear.log_id], chunk, logs[clear.log_id],
                         clear.new_logs, clear.entry)
           /\ clear.entry # 0 => logs[clear.log_id] # << >>
           /\ clear.entry \in Nat
  <1>1. clear.log_id \in LogIds /\ (clear.entry # 0 => logs[clear.log_id] # << >>)
    BY DEF Parts, ClearIsConsistent
  <1>2. clear.new_logs \in Seq(ChunkIds) /\ clear.entry \in Nat
    BY DEF Parts, CommandsOK
  <1>3. Elements(clear.new_logs) \subseteq DOMAIN chunk /\ Distinct(clear.new_logs)
    BY DEF Parts, ListsAreDisjoint
  <1>4. IsMeasured(stats[clear.log_id], max_size[clear.log_id], chunk, logs[clear.log_id],
                   clear.new_logs, clear.entry)
    BY <1>1 DEF SizeInv
  <1> QED BY <1>1, <1>2, <1>3, <1>4, ListsOfLogs DEF IsListIn

\* A step of it leaves the other logs alone.
LEMMA ClearedMeasured ==
    ASSUME Parts, SizeInv, Clearing, IsHeap(chunk'), OthersAlike(clear.log_id),
           Clearing' => clear'.log_id = clear.log_id,
           max_size' = max_size, DOMAIN stats' = DOMAIN stats,
           \A j \in LogIds \ {clear.log_id} : stats'[j] = stats[j] /\ logs'[j] = logs[j],
           NEW list, list = logs'[clear.log_id], NEW stat, stat = stats'[clear.log_id],
           IF Clearing'
           THEN IsMeasured(stat, max_size[clear.log_id], chunk', list, clear'.new_logs, clear'.entry)
           ELSE IsMeasured(stat, max_size[clear.log_id], chunk', list, << >>, 0)
    PROVE  SizeInv'
  <1> DEFINE i == clear.log_id
  <1>1. i \in LogIds
    BY ClearedLog
  <1>2. IF Clearing'
        THEN IsMeasured(stats'[i], max_size'[i], chunk', logs'[i], clear'.new_logs, clear'.entry)
        ELSE IsMeasured(stats'[i], max_size'[i], chunk', logs'[i], << >>, 0)
    OBVIOUS
  <1>3. \A j \in LogIds \ {i} : max_size'[j] = max_size[j]
    OBVIOUS
  <1> HIDE DEF i
  <1>4. /\ OthersAlike(i) /\ (Clearing => clear.log_id = i) /\ (Clearing' => clear'.log_id = i)
        /\ \A j \in LogIds \ {i} : stats'[j] = stats[j] /\ logs'[j] = logs[j]
    BY DEF i
  <1> QED BY <1>1, <1>2, <1>3, <1>4, OneLogMeasured

LEMMA ClearSpliceChunkIsMeasured ==
    ASSUME Parts, SizeInv, ClearSpliceChunk, IsHeap(chunk')
    PROVE  SizeInv'
  <1> DEFINE i == clear.log_id
             c == Head(logs[i])
             visited == DecReaderRefCount(IncReaderRefCount(WithoutReaders(chunk[c])))
  <1>1. /\ Clearing /\ Clearing' /\ clear.entry = 0 /\ logs[i] # << >>
        /\ chunk' = [chunk EXCEPT ![c] = visited]
        /\ logs' = [logs EXCEPT ![i] = Tail(logs[i])]
        /\ clear' = [clear EXCEPT !.new_logs = Append(clear.new_logs, c)]
        /\ max_size' = max_size /\ stats' = stats
    BY DEF ClearSpliceChunk, Clearing
  <1>2. /\ i \in LogIds
        /\ c \in Elements(logs[i]) /\ c \in DOMAIN chunk /\ c \in ChunkIds
        /\ chunk[c] \in Chunk /\ IsFiniteSet(chunk[c].readers)
        /\ c \notin Elements(clear.new_logs)
    BY <1>1, HeadOfClear
  <1>3. HoldsTheSame(chunk[c], visited)
    <2> DEFINE c1 == WithoutReaders(chunk[c])
               c2 == IncReaderRefCount(c1)
    <2>1. c1 \in Chunk /\ HoldsTheSame(chunk[c], c1) /\ c1.readers = {} /\ IsFiniteSet(c1.readers)
      BY <1>2, WithoutReadersType, ReferencesHold, FS_EmptySet
    <2> HIDE DEF c1
    <2>2. c2 \in Chunk /\ HoldsTheSame(c1, c2)
      BY <2>1, RefCountType, ReferencesHold
    <2> HIDE DEF c2
    <2>3. HoldsTheSame(c2, DecReaderRefCount(c2))
      BY <2>2, ReferencesHold
    <2>4. \A x, y, z : HoldsTheSame(x, y) /\ HoldsTheSame(y, z) => HoldsTheSame(x, z)
      BY DEF HoldsTheSame
    <2>5. HoldsTheSame(chunk[c], DecReaderRefCount(c2))
      BY <2>1, <2>2, <2>3, <2>4, Zenon
    <2> QED BY <2>5 DEF c1, c2
  <1> HIDE DEF visited, c
  <1>4. /\ DOMAIN chunk' = DOMAIN chunk
        /\ \A d \in DOMAIN chunk : HoldsTheSame(chunk[d], chunk'[d])
    BY <1>1, <1>2, <1>3 DEF HoldsTheSame
  <1>5. /\ clear'.new_logs = Append(clear.new_logs, c) /\ clear'.entry = 0 /\ clear'.log_id = i
    BY <1>1 DEF Parts, CommandsOK, i
  <1>6. /\ logs'[i] = Tail(logs[i]) /\ \A j \in LogIds \ {i} : logs'[j] = logs[j]
    BY <1>1, <1>2 DEF Parts, LogsOK
  <1>7. /\ IsHeap(chunk) /\ IsListIn(logs[i], chunk) /\ Distinct(logs[i])
        /\ IsListIn(clear.new_logs, chunk) /\ Distinct(clear.new_logs)
        /\ IsMeasured(stats[i], max_size[i], chunk, logs[i], clear.new_logs, 0)
    BY <1>1, ClearedLog
  <1>8. IsMeasured(stats[i], max_size[i], chunk', Tail(logs[i]), Append(clear.new_logs, c), 0)
    BY <1>1, <1>2, <1>4, <1>7, SpliceIsMeasured DEF c
  <1>9. OthersAlike(i)
    BY <1>4, ListsOfLogs DEF OthersAlike, Alike, IsListIn
  <1>10. /\ stats'[i] = stats[i] /\ DOMAIN stats' = DOMAIN stats
         /\ \A j \in LogIds \ {i} : stats'[j] = stats[j] /\ logs'[j] = logs[j]
    BY <1>1, <1>6
  <1> QED BY <1>1, <1>5, <1>6, <1>8, <1>9, <1>10, ClearedMeasured
LEMMA ClearOpenChunkIsMeasured ==
    ASSUME Parts, SizeInv, ClearOpenChunk, IsHeap(chunk')
    PROVE  SizeInv'
  <1> DEFINE i == clear.log_id
             c == Head(logs[i])
             new == FreshChunk(chunk)
             visited == IncReaderRefCount(WithoutReaders(chunk[c]))
             opened == [chunk EXCEPT ![c] = visited]
             empty == NewChunk(max_size[i] \div kChunkSizeDivisor)
  <1>1. /\ Clearing /\ Clearing' /\ clear.entry = 0 /\ logs[i] # << >>
        /\ logs' = logs /\ max_size' = max_size /\ stats' = stats
    BY DEF ClearOpenChunk, Clearing
  <1>2. /\ i \in LogIds
        /\ c \in Elements(logs[i]) /\ c \in DOMAIN chunk
        /\ chunk[c] \in Chunk /\ IsFiniteSet(chunk[c].readers)
    BY <1>1, HeadOfClear
  <1>3. \/ /\ clear.contains_uid_logs
           /\ chunk' = opened
           /\ clear' = [clear EXCEPT !.entry = 1]
        \/ /\ ~clear.contains_uid_logs
           /\ CanAllocate(chunk)
           /\ chunk' = Allocate(opened, new, empty)
           /\ clear' = [clear EXCEPT !.contains_uid_logs = TRUE, !.entry = 1,
                                     !.new_logs = Append(clear.new_logs, new)]
    BY DEF ClearOpenChunk
  <1>4. /\ HoldsTheSame(chunk[c], visited)
        /\ visited \in Chunk /\ IsFiniteSet(visited.readers)
    <2> DEFINE c1 == WithoutReaders(chunk[c])
    <2>1. c1 \in Chunk /\ HoldsTheSame(chunk[c], c1) /\ c1.readers = {} /\ IsFiniteSet(c1.readers)
      BY <1>2, WithoutReadersType, ReferencesHold, FS_EmptySet
    <2> HIDE DEF c1
    <2>2. /\ IncReaderRefCount(c1) \in Chunk /\ HoldsTheSame(c1, IncReaderRefCount(c1))
          /\ IsFiniteSet(IncReaderRefCount(c1).readers)
      BY <2>1, RefCountType, ReferencesHold
    <2>3. \A x, y, z : HoldsTheSame(x, y) /\ HoldsTheSame(y, z) => HoldsTheSame(x, z)
      BY DEF HoldsTheSame
    <2>4. HoldsTheSame(chunk[c], IncReaderRefCount(c1))
      BY <2>1, <2>2, <2>3, Zenon
    <2> QED BY <2>2, <2>4 DEF c1
  <1>5. /\ empty.entries = << >> /\ empty.contents = max_size[i] \div kChunkSizeDivisor
        /\ SIZEOF_CHUNK + empty.contents <= max_size[i]
    <2>1. empty.entries = << >> /\ empty.contents = max_size[i] \div kChunkSizeDivisor
      BY DEF NewChunk
    <2> QED BY <1>2, <2>1, ChunkHasRoom
  <1>6. CanAllocate(chunk) => new \in ChunkIds /\ new \notin DOMAIN chunk
    BY FreshChunkIsFresh
  <1> HIDE DEF visited, c, new, empty
  <1>7. /\ DOMAIN opened = DOMAIN chunk
        /\ \A d \in DOMAIN chunk : HoldsTheSame(chunk[d], opened[d])
        /\ IsHeap(opened)
    <2>1. DOMAIN opened = DOMAIN chunk /\ opened[c] = visited
          /\ \A d \in (DOMAIN chunk) \ {c} : opened[d] = chunk[d]
      BY <1>2
    <2> HIDE DEF opened
    <2>2. \A d \in DOMAIN chunk : HoldsTheSame(chunk[d], opened[d])
      BY <1>4, <2>1 DEF HoldsTheSame
    <2>3. IsHeap(opened)
      BY <1>4, <2>1 DEF Parts, IsHeap
    <2> QED BY <2>1, <2>2, <2>3
  <1> HIDE DEF opened
  <1>8. /\ IsHeap(chunk) /\ IsListIn(logs[i], chunk) /\ Distinct(logs[i])
        /\ IsListIn(clear.new_logs, chunk) /\ Distinct(clear.new_logs)
        /\ IsMeasured(stats[i], max_size[i], chunk, logs[i], clear.new_logs, 0)
    BY <1>1, ClearedLog
  <1>9. /\ IsMeasured(stats[i], max_size[i], opened, logs[i], clear.new_logs, 0)
        /\ IsListIn(logs[i], opened) /\ IsListIn(clear.new_logs, opened)
    <2>1. Alike(logs[i], chunk, opened) /\ Alike(clear.new_logs, chunk, opened)
      BY <1>7, <1>8 DEF Alike, IsListIn
    <2> QED BY <1>7, <1>8, <2>1, AlikeIsMeasured, AlikeTotals
  <1>10. CASE /\ chunk' = opened
              /\ clear' = [clear EXCEPT !.entry = 1]
    <2>1. IsMeasured(stats[i], max_size[i], chunk', logs[i], clear.new_logs, 1)
      BY <1>1, <1>7, <1>9, <1>10, OpenedIsMeasured
    <2>2. clear'.new_logs = clear.new_logs /\ clear'.entry = 1 /\ clear'.log_id = i
      BY <1>10 DEF Parts, CommandsOK, i
    <2>3. OthersAlike(i)
      BY <1>7, <1>10, ListsOfLogs DEF OthersAlike, Alike, IsListIn
    <2>4. /\ stats'[i] = stats[i] /\ DOMAIN stats' = DOMAIN stats /\ logs'[i] = logs[i]
          /\ \A j \in LogIds \ {i} : stats'[j] = stats[j] /\ logs'[j] = logs[j]
      BY <1>1
    <2> QED BY <1>1, <2>1, <2>2, <2>3, <2>4, ClearedMeasured
  <1>11. CASE /\ CanAllocate(chunk)
              /\ chunk' = Allocate(opened, new, empty)
              /\ clear' = [clear EXCEPT !.contains_uid_logs = TRUE, !.entry = 1,
                                        !.new_logs = Append(clear.new_logs, new)]
    <2>1. /\ new \in ChunkIds /\ new \notin DOMAIN opened /\ new \in DOMAIN chunk'
          /\ chunk'[new] = empty
          /\ \A d \in DOMAIN opened : d \in DOMAIN chunk' /\ chunk'[d] = opened[d]
      BY <1>6, <1>7, <1>11 DEF Allocate
    <2> DEFINE more == Append(clear.new_logs, new)
    <2>2. IsMeasured(stats[i], max_size[i], chunk', logs[i], more, 0)
      BY <1>5, <1>7, <1>8, <1>9, <2>1, EmptyIsMeasured
    <2>3. IsListIn(logs[i], chunk')
      BY <1>9, <2>1 DEF IsListIn
    <2>4. IsListIn(more, chunk')
      <3>1. clear.new_logs \in Seq(ChunkIds) /\ new \notin Elements(clear.new_logs)
        BY <1>9, <2>1 DEF IsListIn
      <3>2. more \in Seq(ChunkIds) /\ Elements(more) = Elements(clear.new_logs) \cup {new}
        BY <1>8, <2>1, <3>1, AppendElements
      <3> QED BY <1>9, <2>1, <3>2 DEF IsListIn
    <2> HIDE DEF more
    <2>5. IsMeasured(stats[i], max_size[i], chunk', logs[i], more, 1)
      BY <1>1, <2>2, <2>3, <2>4, OpenedIsMeasured
    <2>6. clear'.new_logs = more /\ clear'.entry = 1 /\ clear'.log_id = i
      BY <1>11 DEF Parts, CommandsOK, i, more
    <2>7. OthersAlike(i)
      <3>1. \A d \in DOMAIN chunk : d \in DOMAIN chunk' /\ HoldsTheSame(chunk[d], chunk'[d])
        BY <1>7, <2>1
      <3> QED BY <3>1, ListsOfLogs DEF OthersAlike, Alike, IsListIn
    <2>8. /\ stats'[i] = stats[i] /\ DOMAIN stats' = DOMAIN stats /\ logs'[i] = logs[i]
          /\ \A j \in LogIds \ {i} : stats'[j] = stats[j] /\ logs'[j] = logs[j]
      BY <1>1
    <2> QED BY <1>1, <2>5, <2>6, <2>7, <2>8, ClearedMeasured
  <1> QED BY <1>3, <1>10, <1>11

LEMMA ClearEraseChunkIsMeasured ==
    ASSUME Parts, SizeInv, ClearEraseChunk, IsHeap(chunk')
    PROVE  SizeInv'
  <1> DEFINE i == clear.log_id
             c == Head(logs[i])
  <1>1. /\ Clearing /\ Clearing' /\ clear.entry # 0 /\ clear.entry > Len(chunk[c].entries)
        /\ chunk' = Free(chunk, {c})
        /\ logs' = [logs EXCEPT ![i] = Tail(logs[i])]
        /\ clear' = [clear EXCEPT !.entry = 0]
        /\ max_size' = max_size /\ stats' = stats
    BY DEF ClearEraseChunk, Clearing
  <1>2. /\ i \in LogIds /\ IsHeap(chunk) /\ IsListIn(logs[i], chunk) /\ Distinct(logs[i])
        /\ IsListIn(clear.new_logs, chunk)
        /\ IsMeasured(stats[i], max_size[i], chunk, logs[i], clear.new_logs, clear.entry)
        /\ logs[i] # << >> /\ clear.entry \in Nat \ {0}
    BY <1>1, ClearedLog
  <1>3. /\ c \notin Elements(clear.new_logs)
        /\ \A j \in LogIds : j # i => c \notin Elements(logs[j])
    BY <1>1, <1>2, HeadOfClear
  <1>4. IsMeasured(stats[i], max_size[i], chunk', Tail(logs[i]), clear.new_logs, 0)
    BY <1>1, <1>2, <1>3, EraseIsMeasured
  <1>5. clear'.new_logs = clear.new_logs /\ clear'.entry = 0 /\ clear'.log_id = i
    BY <1>1 DEF Parts, CommandsOK
  <1>6. /\ logs'[i] = Tail(logs[i]) /\ \A j \in LogIds \ {i} : logs'[j] = logs[j]
    BY <1>1, <1>2 DEF Parts, LogsOK
  <1>7. OthersAlike(i)
    <2>1. \A d \in (DOMAIN chunk) \ {c} : d \in DOMAIN chunk' /\ chunk'[d] = chunk[d]
      BY <1>1 DEF Free
    <2>2. \A j \in LogIds \ {i} : Elements(logs[j]) \cap {c} = {}
      BY <1>3
    <2> QED BY <1>2, <2>1, <2>2, UnchangedIsAlike
  <1>8. /\ stats'[i] = stats[i] /\ DOMAIN stats' = DOMAIN stats
        /\ \A j \in LogIds \ {i} : stats'[j] = stats[j] /\ logs'[j] = logs[j]
    BY <1>1, <1>6
  <1> QED BY <1>1, <1>4, <1>5, <1>6, <1>7, <1>8, ClearedMeasured

LEMMA ClearSwapIsMeasured ==
    ASSUME Parts, SizeInv, ClearSwap, IsHeap(chunk')
    PROVE  SizeInv'
  <1> DEFINE i == clear.log_id
             copied == clear.new_logs
  <1>1. /\ Clearing /\ ~Clearing' /\ logs[i] = << >>
        /\ logs' = [logs EXCEPT ![i] = copied]
        /\ chunk' = chunk /\ max_size' = max_size /\ stats' = stats
    BY DEF ClearSwap, Clearing
  <1>2. /\ i \in LogIds /\ IsHeap(chunk) /\ IsListIn(copied, chunk) /\ clear.entry = 0
        /\ IsMeasured(stats[i], max_size[i], chunk, << >>, copied, 0)
    BY <1>1, ClearedLog
  <1>3. IsMeasured(stats[i], max_size[i], chunk, copied, << >>, 0)
    <2> HIDE DEF copied
    <2> DEFINE none == << >>
               a == Total(CountsOf(chunk), copied)
               b == Total(LensOf(chunk), copied)
    <2>1. /\ none = Visited(chunk, none, 0) /\ none = Visited(chunk, copied, 0)
          /\ Len(none) = 0 /\ TotalLens(none) = 0
          /\ IsListIn(none, chunk) /\ Fits(none, chunk, max_size[i])
          /\ Total(CountsOf(chunk), none) = 0 /\ Total(LensOf(chunk), none) = 0
      BY NothingVisited, NoTotals DEF Visited
    <2>2. IsMeasured(stats[i], max_size[i], chunk, none, copied, 0)
      BY <1>2
    <2>3. a \in Nat /\ b \in Nat
      BY <1>2, TotalsType
    <2> HIDE DEF none
    <2>4. /\ stats[i] \in Stat /\ stats[i].overhead <= max_size[i] /\ Fits(copied, chunk, max_size[i])
          /\ stats[i].mElements = (0 - 0) + a /\ stats[i].mSizes = (0 - 0) + b
      BY <1>2, <2>1, <2>2, MeasuredTotals
    <2>5. (0 - 0) + a = (a - 0) + 0 /\ (0 - 0) + b = (b - 0) + 0
      BY <2>3
    <2>6. IsMeasured(stats[i], max_size[i], chunk, copied, none, 0)
      BY <1>2, <2>1, <2>4, <2>5, MeasuredTotals
    <2> QED BY <2>6 DEF none
  <1>4. /\ logs'[i] = copied /\ \A j \in LogIds \ {i} : logs'[j] = logs[j]
    BY <1>1, <1>2 DEF Parts, LogsOK
  <1>5. OthersAlike(i)
    BY <1>1, ListsOfLogs DEF OthersAlike, Alike, IsListIn, HoldsTheSame
  <1>6. /\ stats'[i] = stats[i] /\ DOMAIN stats' = DOMAIN stats
        /\ \A j \in LogIds \ {i} : stats'[j] = stats[j] /\ logs'[j] = logs[j]
    BY <1>1, <1>4
  <1> QED BY <1>1, <1>3, <1>4, <1>5, <1>6, ClearedMeasured
LEMMA ClearEntryIsMeasured ==
    ASSUME Parts, ChunkInv, SizeInv, ClearEntry, IsHeap(chunk')
    PROVE  SizeInv'
  <1> DEFINE i == clear.log_id
             n == clear.entry
             list == logs[i]
             copied == clear.new_logs
             stat == stats[i]
             size == max_size[i]
             entry == chunk[Head(list)].entries[n]
  <1>1. /\ Clearing /\ Clearing' /\ n # 0 /\ n <= Len(chunk[Head(list)].entries)
        /\ logs' = logs /\ max_size' = max_size
    BY Zenon DEF ClearEntry, Clearing
  <1>2. /\ i \in LogIds /\ IsHeap(chunk) /\ IsListIn(list, chunk)
        /\ IsListIn(copied, chunk) /\ Distinct(copied)
        /\ IsMeasured(stat, size, chunk, list, copied, n)
        /\ list # << >> /\ n \in Nat
    BY <1>1, ClearedLog
  <1>3. Head(list) \in DOMAIN chunk /\ chunk[Head(list)] \in Chunk
    BY <1>1, <1>2, HeadOfClear
  <1>4. n \in 1 .. Len(chunk[Head(list)].entries)
    BY <1>1, <1>2, <1>3, ChunkFields
  <1>5. entry \in Entry /\ total_len(entry) \in Nat
    <2>1. entry \in Entry
      BY <1>3, <1>4, ChunkFields, ElementOfSeq
    <2>2. \A e \in Entry : total_len(e) \in Nat
      BY SizeofAssumption DEF Entry, total_len
    <2> QED BY <2>1, <2>2
  <1>6. stat \in Stat /\ stat.overhead <= size /\ stat.mSizes \in Int /\ stat.mElements \in Int
    BY <1>2 DEF IsMeasured, Stat
  <1>7. DOMAIN stats = LogIds
    BY DEF SizeInv
  <1>8. \/ /\ stats' = [stats EXCEPT ![i] = SubtractFromStats(stat, entry)]
           /\ clear' = [clear EXCEPT !.entry = n + 1]
           /\ chunk' = chunk
        \/ /\ NeedsChunk(chunk, copied, entry) => CanAllocate(chunk)
           /\ \E zsize \in ZSizes(chunk, copied, entry) :
                 /\ chunk' = LogToLogBuffer(chunk, copied, size, entry, zsize).heap
                 /\ clear' = [clear EXCEPT !.entry = n + 1,
                              !.new_logs = LogToLogBuffer(chunk, copied, size, entry, zsize).list]
           /\ stats' = stats
    BY Zenon DEF ClearEntry
  <1>9. CASE /\ stats' = [stats EXCEPT ![i] = SubtractFromStats(stat, entry)]
             /\ clear' = [clear EXCEPT !.entry = n + 1]
             /\ chunk' = chunk
    <2> DEFINE x == stat.mSizes - total_len(entry)
               y == stat.mElements - 1
               stat2 == SubtractFromStats(stat, entry)
    <2>1. x \in Int /\ y \in Int /\ stat2 = [stat EXCEPT !.mSizes = x, !.mElements = y]
      BY <1>5, <1>6 DEF SubtractFromStats
    <2> HIDE DEF x, y, stat2, stat, entry
    <2>2. stat2 \in Stat /\ stat2.mSizes = x /\ stat2.mElements = y /\ stat2.overhead = stat.overhead
      BY <1>6, <2>1 DEF Stat
    <2>3. stat2.mElements = (stat.mElements + 0) - 1
          /\ stat2.mSizes = (stat.mSizes + 0) - total_len(chunk[Head(list)].entries[n])
      BY <1>5, <1>6, <2>2 DEF x, y, entry
    <2>4. Alike(list, chunk, chunk)
      BY <1>2 DEF Alike, HoldsTheSame, IsListIn
    <2>5. Total(CountsOf(chunk), copied) \in Nat /\ Total(LensOf(chunk), copied) \in Nat
      BY <1>2, TotalsType
    <2>6. Total(CountsOf(chunk), copied) = Total(CountsOf(chunk), copied) + 0
          /\ Total(LensOf(chunk), copied) = Total(LensOf(chunk), copied) + 0
      BY <2>5
    <2> HIDE DEF i, n, list, copied, size
    <2>7. IsMeasured(stat2, size, chunk, list, copied, n + 1)
      BY <1>2, <1>4, <1>6, <2>2, <2>3, <2>4, <2>6, PassedIsMeasured
    <2>8. clear'.new_logs = copied /\ clear'.entry = n + 1 /\ clear'.log_id = i
      BY <1>9 DEF Parts, CommandsOK, i, copied
    <2>9. OthersAlike(i)
      BY <1>9, ListsOfLogs DEF OthersAlike, Alike, IsListIn, HoldsTheSame
    <2>10. /\ stats'[i] = stat2 /\ DOMAIN stats' = DOMAIN stats /\ logs'[i] = list
           /\ \A j \in LogIds \ {i} : stats'[j] = stats[j] /\ logs'[j] = logs[j]
      BY <1>1, <1>2, <1>7, <1>9 DEF stat2, list
    <2> QED BY <1>1, <1>9, <2>7, <2>8, <2>9, <2>10, ClearedMeasured DEF i, size
  <1>10. ASSUME NEW zsize \in ZSizes(chunk, copied, entry),
                NeedsChunk(chunk, copied, entry) => CanAllocate(chunk),
                chunk' = LogToLogBuffer(chunk, copied, size, entry, zsize).heap,
                clear' = [clear EXCEPT !.entry = n + 1,
                             !.new_logs = LogToLogBuffer(chunk, copied, size, entry, zsize).list],
                stats' = stats
         PROVE  SizeInv'
    <2> DEFINE logged == LogToLogBuffer(chunk, copied, size, entry, zsize)
    <2>1. /\ size \in Nat /\ size \div kChunkSizeDivisor \in Nat
          /\ SIZEOF_CHUNK + size \div kChunkSizeDivisor <= size
      BY <1>2, ChunkHasRoom
    <2>2. zsize \in Nat
      BY ZSizesType
    <2>3. copied \in Seq(ChunkIds) /\ Elements(copied) \subseteq DOMAIN chunk
      BY <1>2 DEF IsListIn
    <2> HIDE DEF entry, i, n, list, copied, size, stat
    <2>4. /\ Extends(chunk, copied, logged)
          /\ \/ LogsIntoLast(chunk, copied, entry, logged)
             \/ LogsIntoNew(chunk, copied, size, entry, zsize, logged, FreshChunk(chunk))
      BY <1>2, <1>5, <1>10, <2>1, <2>2, <2>3, LogToLogBufferExtends, LogToLogBufferCases
    <2>5. Measures(chunk, copied, size, entry, logged)
      BY <1>2, <1>5, <1>10, <2>1, <2>4, LogMeasures
    <2>6. chunk' = logged.heap /\ clear' = [clear EXCEPT !.entry = n + 1, !.new_logs = logged.list]
      BY <1>10
    <2> HIDE DEF logged
    <2>7. clear'.new_logs = logged.list /\ clear'.entry = n + 1 /\ clear'.log_id = i
      BY <2>6 DEF Parts, CommandsOK, i
    <2>8. \A j \in LogIds : Alike(logs[j], chunk, chunk')
      <3>1. \A d \in (DOMAIN chunk) \ Elements(copied) : d \in DOMAIN chunk' /\ chunk'[d] = chunk[d]
        <4>1. copied # << >> => copied[Len(copied)] \in Elements(copied)
          BY <2>3, LastElement
        <4> QED BY <2>4, <2>6, <4>1 DEF Extends, LogsIntoLast, LogsIntoNew
      <3>2. \A j \in LogIds : Elements(logs[j]) \cap Elements(copied) = {}
        BY DEF Parts, ListsAreDisjoint, copied
      <3> QED BY <3>1, <3>2, ListsOfLogs DEF Alike, HoldsTheSame, IsListIn
    <2>9. /\ IsListIn(logged.list, chunk')
          /\ Total(CountsOf(chunk'), logged.list) = Total(CountsOf(chunk), copied) + 1
          /\ Total(LensOf(chunk'), logged.list) = Total(LensOf(chunk), copied) + total_len(entry)
          /\ Fits(copied, chunk, size) => Fits(logged.list, chunk', size)
      BY <2>5, <2>6 DEF Measures
    <2>10. stat.mElements = (stat.mElements + 1) - 1
           /\ stat.mSizes = (stat.mSizes + total_len(entry)) - total_len(chunk[Head(list)].entries[n])
      <3>1. stat.mElements = (stat.mElements + 1) - 1
            /\ stat.mSizes = (stat.mSizes + total_len(entry)) - total_len(entry)
        BY <1>5, <1>6
      <3> QED BY <3>1 DEF entry
    <2>11. Alike(list, chunk, chunk')
      BY <1>2, <2>8 DEF list
    <2>12. IsMeasured(stat, size, chunk', list, logged.list, n + 1)
      BY <1>2, <1>4, <1>5, <1>6, <2>9, <2>10, <2>11, PassedIsMeasured
    <2>13. OthersAlike(i)
      BY <2>8 DEF OthersAlike
    <2>14. /\ stats'[i] = stat /\ DOMAIN stats' = DOMAIN stats /\ logs'[i] = list
           /\ \A j \in LogIds \ {i} : stats'[j] = stats[j] /\ logs'[j] = logs[j]
      BY <1>1, <1>10 DEF list, stat
    <2> QED BY <1>1, <2>7, <2>12, <2>13, <2>14, ClearedMeasured DEF i, size
  <1>11. ASSUME /\ NeedsChunk(chunk, copied, entry) => CanAllocate(chunk)
                /\ \E zsize \in ZSizes(chunk, copied, entry) :
                      /\ chunk' = LogToLogBuffer(chunk, copied, size, entry, zsize).heap
                      /\ clear' = [clear EXCEPT !.entry = n + 1,
                             !.new_logs = LogToLogBuffer(chunk, copied, size, entry, zsize).list]
                /\ stats' = stats
         PROVE  SizeInv'
    BY <1>10, <1>11, Zenon
  <1> QED BY <1>8, <1>9, <1>11, Zenon
-----------------------------------------------------------------------------
(***************************************************************************)
(* Every step                                                               *)
(***************************************************************************)

\* A thread changes no size and no statistics, and leaves ClearLogsByUid() alone.
LEMMA StepKeepsSizes ==
    ASSUME NEW r \in Readers, StepOf(r)
    PROVE  /\ UNCHANGED <<max_size, stats, clear>>
           /\ Clearing' = Clearing
  <1>1. UNCHANGED <<max_size, stats, clear>>
    <2>1. CASE CheckForNewLogs(r)
      BY <2>1, Zenon DEF CheckForNewLogs
    <2>2. CASE FlushToEntry(r)
      BY <2>2, Zenon DEF FlushToEntry, bufferVars
    <2>3. CASE OnDataAvailable(r) \/ FindReturns(r) \/ CreateThread(r) \/ DoSocketDelete(r)
               \/ DeadlinePasses(r)
      BY <2>3 DEF OnDataAvailable, FindReturns, CreateThread, DoSocketDelete, DeadlinePasses,
                  bufferVars
    <2>4. CASE LoopTop(r) \/ AfterWaitUntil(r) \/ FlushToNoMore(r) \/ WriteSucceeds(r)
               \/ WriteFails(r) \/ FirstPassReturns(r) \/ SecondPassReturns(r) \/ ThreadExits(r)
      BY <2>4 DEF LoopTop, AfterWaitUntil, FlushToNoMore, WriteSucceeds, WriteFails,
                  FirstPassReturns, SecondPassReturns, ThreadExits, bufferVars
    <2> QED BY <2>1, <2>2, <2>3, <2>4 DEF StepOf, ReaderStep
  <1>2. \/ logd_lock' = logd_lock
        \/ logd_lock \in {{}, {r}} /\ logd_lock' \in {{}, {r}}
    <2>1. CASE CheckForNewLogs(r)
      BY <2>1, Zenon DEF CheckForNewLogs
    <2>2. CASE FlushToEntry(r)
      <3>1. logd_lock = {r}
        BY <2>2, Zenon DEF FlushToEntry, Flushing
      <3>2. logd_lock' = logd_lock \/ logd_lock' = {}
        BY <2>2, Zenon DEF FlushToEntry
      <3> QED BY <3>1, <3>2
    <2>3. CASE OnDataAvailable(r) \/ FindReturns(r) \/ CreateThread(r) \/ DoSocketDelete(r)
               \/ DeadlinePasses(r)
      BY <2>3 DEF OnDataAvailable, FindReturns, CreateThread, DoSocketDelete, DeadlinePasses,
                  LockFree
    <2>4. CASE LoopTop(r) \/ AfterWaitUntil(r) \/ FlushToNoMore(r) \/ WriteSucceeds(r)
               \/ WriteFails(r) \/ FirstPassReturns(r) \/ SecondPassReturns(r) \/ ThreadExits(r)
      BY <2>4 DEF LoopTop, AfterWaitUntil, FlushToNoMore, WriteSucceeds, WriteFails,
                  FirstPassReturns, SecondPassReturns, ThreadExits, LockFree, Flushing,
                  LeaveLoop, EnterFlushTo
    <2> QED BY <2>1, <2>2, <2>3, <2>4 DEF StepOf, ReaderStep
  <1> QED BY <1>1, <1>2, ReaderAssumption DEF Clearing

LEMMA StepIsMeasured ==
    ASSUME Parts, SizeInv, NEW r \in Readers, StepOf(r), IsHeap(chunk')
    PROVE  SizeInv'
  <1>1. SameEntries(chunk') /\ logs' = logs
    BY StepEffect DEF Frame
  <1>2. UNCHANGED <<max_size, stats, clear>> /\ Clearing' = Clearing
    BY StepKeepsSizes
  <1>3. ASSUME NEW list, IsListIn(list, chunk)
        PROVE  Alike(list, chunk, chunk')
    BY <1>1, <1>3 DEF Alike, SameEntries, IsListIn
  <1>4. ASSUME NEW i \in LogIds, NEW copied, IsListIn(copied, chunk),
               NEW n, n # 0 => logs[i] # << >>,
               IsMeasured(stats[i], max_size[i], chunk, logs[i], copied, n)
        PROVE  IsMeasured(stats[i], max_size[i], chunk', logs[i], copied, n)
    BY <1>3, <1>4, ListsOfLogs, AlikeIsMeasured
  <1>5. IsListIn(<< >>, chunk) /\ IsListIn(clear.new_logs, chunk)
    BY NoTotals DEF Parts, CommandsOK, ListsAreDisjoint, IsListIn
  <1>6. Clearing /\ clear.entry # 0 => logs[clear.log_id] # << >>
    BY DEF Parts, ClearIsConsistent
  <1>7. ASSUME NEW i \in LogIds
        PROVE  IF Clearing /\ i = clear.log_id
               THEN IsMeasured(stats[i], max_size[i], chunk', logs[i], clear.new_logs, clear.entry)
               ELSE IsMeasured(stats[i], max_size[i], chunk', logs[i], << >>, 0)
    <2>1. CASE Clearing /\ i = clear.log_id
      BY <1>4, <1>5, <1>6, <2>1 DEF SizeInv
    <2>2. CASE ~(Clearing /\ i = clear.log_id)
      BY <1>4, <1>5, <2>2 DEF SizeInv
    <2> QED BY <2>1, <2>2
  <1> QED BY <1>1, <1>2, <1>7 DEF SizeInv

\* Every step of a writer or a command keeps the sizes, and Log() the entry it logs.
LEMMA BufferNextIsMeasured ==
    ASSUME Parts, ChunkInv, SizeInv, BufferNext, IsHeap(chunk')
    PROVE  SizeInv'
  <1>1. ASSUME NEW w \in Writers, TakeSequence(w) PROVE SizeInv'
    <2>1. UNCHANGED <<chunk, logs, max_size, stats, clear, logd_lock>>
      BY <1>1, Zenon DEF TakeSequence
    <2> QED BY <2>1, SameSizes DEF Clearing
  <1>2. ASSUME NEW w \in Writers, Log(w) PROVE SizeInv'
    BY <1>2, LogIsMeasured
  <1>3. ASSUME NEW i \in LogIds, ClearAll(i) PROVE SizeInv'
    BY <1>3, ClearAllIsMeasured
  <1>4. ASSUME NEW i \in LogIds, NEW size \in Sizes, SetSize(i, size) PROVE SizeInv'
    BY <1>4, SetSizeIsMeasured
  <1>5. ASSUME NEW i \in LogIds, NEW uid, UidClear(i, uid) PROVE SizeInv'
    <2>1. /\ UNCHANGED <<chunk, logs, max_size, stats>> /\ logd_lock = {}
          /\ clear' = [NoClear EXCEPT !.log_id = i, !.uid = uid]
      BY <1>5 DEF UidClear, LockFree
    <2>2. clear'.new_logs = << >> /\ clear'.entry = 0 /\ ~Clearing
      BY <2>1 DEF NoClear, Clearing
    <2> QED BY <2>1, <2>2, SameSizes
  <1>6. CASE ReinitTrigger
    <2>1. UNCHANGED <<chunk, logs, max_size, stats, clear, logd_lock>>
      BY <1>6 DEF ReinitTrigger
    <2> QED BY <2>1, SameSizes DEF Clearing
  <1>7. CASE ClearStep
    BY <1>7, ClearSpliceChunkIsMeasured, ClearOpenChunkIsMeasured, ClearEntryIsMeasured,
       ClearEraseChunkIsMeasured, ClearSwapIsMeasured DEF ClearStep
  <1> QED BY <1>1, <1>2, <1>3, <1>4, <1>5, <1>6, <1>7 DEF BufferNext

LEMMA NextSizes ==
    ASSUME BufferInv, SizeInv, [Next]_vars
    PROVE  SizeInv'
  <1>1. Parts /\ ChunkInv /\ IsHeap(chunk')
    <2>1. IInv'
      BY NextIInv DEF BufferInv
    <2> QED BY <2>1, PartsOfIInv DEF BufferInv, IInv, TypeOK, IsHeap
  <1>2. CASE BufferNext
    BY <1>1, <1>2, BufferNextIsMeasured
  <1>3. ASSUME NEW r \in Readers, StepOf(r) PROVE SizeInv'
    BY <1>1, <1>3, StepIsMeasured
  <1>4. CASE UNCHANGED vars
    <2>1. UNCHANGED <<chunk, logs, max_size, stats, clear, logd_lock>>
      BY <1>4 DEF vars
    <2> QED BY <2>1, SameSizes DEF Clearing
  <1> QED BY <1>2, <1>3, <1>4 DEF Next, StepOf

LEMMA InitSizes == Init => SizeInv
  <1> SUFFICES ASSUME Init PROVE SizeInv
    OBVIOUS
  <1> DEFINE zero == [mSizes |-> 0, mElements |-> 0, overhead |-> 0]
             none == << >>
  <1>1. /\ ~Clearing /\ DOMAIN stats = LogIds /\ IsHeap(chunk)
        /\ \A i \in LogIds : logs[i] = none /\ stats[i] = zero
        /\ max_size \in [LogIds -> {size \in Sizes : IsValidBufferSize(size)}]
    BY DEF Init, BufferInit, Clearing, IsHeap
  <1>2. \A i \in LogIds : max_size[i] \in Nat
    BY <1>1, SizeAssumption
  <1>3. /\ none = Visited(chunk, none, 0) /\ Len(none) = 0 /\ TotalLens(none) = 0
        /\ IsListIn(none, chunk) /\ \A size : Fits(none, chunk, size)
        /\ Total(CountsOf(chunk), none) = 0 /\ Total(LensOf(chunk), none) = 0
    BY NothingVisited, NoTotals DEF Visited
  <1>4. zero \in Stat /\ zero.mSizes = (0 - 0) + 0 /\ zero.mElements = (0 - 0) + 0 /\ zero.overhead = 0
    BY DEF Stat
  <1> HIDE DEF zero, none
  <1>5. ASSUME NEW i \in LogIds
        PROVE  IsMeasured(zero, max_size[i], chunk, none, none, 0)
    <2> DEFINE size == max_size[i]
    <2>1. zero.overhead <= size /\ Fits(none, chunk, size) /\ IsHeap(chunk)
      BY <1>1, <1>2, <1>3, <1>4
    <2> HIDE DEF size
    <2>2. Balances(zero, chunk, none, none, none)
      BY <1>3, <1>4, <2>1, BalancesTotals
    <2>3. IsMeasured(zero, size, chunk, none, none, 0)
      BY <1>3, <1>4, <2>1, <2>2 DEF IsMeasured
    <2> QED BY <2>3 DEF size
  <1> QED BY <1>1, <1>5 DEF SizeInv, none

-----------------------------------------------------------------------------
(***************************************************************************)
(* The theorems                                                             *)
(***************************************************************************)

(***************************************************************************)
(* SizeInv holds in every state of logd: the statistics count what is in a  *)
(* log, and in the middle of a ClearLogsByUid() what is still to be visited *)
(* and what was copied; a chunk that can be written is no larger than a log. *)
(***************************************************************************)
THEOREM SizesStaySound == Spec => []SizeInv
  <1> DEFINE Inv == BufferInv /\ SizeInv
  <1>1. Init => Inv
    BY InitBufferInv, InitSizes
  <1>2. Inv /\ [Next]_vars => Inv'
    BY NextBufferInv, NextSizes
  <1>3. Inv => SizeInv
    OBVIOUS
  <1> HIDE DEF Inv
  <1> QED BY <1>1, <1>2, <1>3, PTL DEF Spec

\* MaybePrune() frees enough: what a log is said to use never exceeds its size.
THEOREM SizeStaysBounded == Spec => []SizeIsBounded
  <1>1. SizeInv => SizeIsBounded
    BY DEF SizeInv, SizeIsBounded, IsMeasured
  <1> QED BY <1>1, SizesStaySound, PTL

\* LogStatistics::Add() and Subtract() are balanced over logging, pruning and clearing:
\* whenever logd_lock is free the statistics agree with the buffer.
THEOREM StatsStayExact == Spec => []StatsMatchBuffer
  <1>1. BufferInv /\ SizeInv => StatsMatchBuffer
    <2> SUFFICES ASSUME BufferInv, SizeInv, LockFree, NEW i \in LogIds
                 PROVE  /\ stats[i].mElements = ElementsIn(chunk, logs[i], Len(logs[i]))
                        /\ stats[i].mSizes = SizesIn(chunk, logs[i], Len(logs[i]))
      BY DEF StatsMatchBuffer
    <2>1. Parts
      BY PartsOfIInv DEF BufferInv
    <2>2. ~Clearing
      BY DEF LockFree, Clearing
    <2>3. IsMeasured(stats[i], max_size[i], chunk, logs[i], << >>, 0)
      BY <2>2 DEF SizeInv
    <2> DEFINE none == << >>
    <2>4. /\ none = Visited(chunk, logs[i], 0) /\ Len(none) = 0 /\ TotalLens(none) = 0
          /\ IsListIn(none, chunk)
          /\ Total(CountsOf(chunk), none) = 0 /\ Total(LensOf(chunk), none) = 0
      BY NothingVisited, NoTotals DEF Visited
    <2>5. IsHeap(chunk) /\ IsListIn(logs[i], chunk)
      BY <2>1, ListsOfLogs
    <2>6. IsMeasured(stats[i], max_size[i], chunk, logs[i], none, 0)
      BY <2>3
    <2> HIDE DEF none
    <2>7. /\ stats[i].mElements = (Total(CountsOf(chunk), logs[i]) - 0) + 0
          /\ stats[i].mSizes = (Total(LensOf(chunk), logs[i]) - 0) + 0
      BY <2>4, <2>5, <2>6, MeasuredTotals
    <2>8. Total(CountsOf(chunk), logs[i]) \in Nat /\ Total(LensOf(chunk), logs[i]) \in Nat
      BY <2>5, TotalsType
    <2>9. /\ stats[i].mElements = Total(CountsOf(chunk), logs[i])
          /\ stats[i].mSizes = Total(LensOf(chunk), logs[i])
      BY <2>7, <2>8
    <2> QED BY <2>5, <2>9, AmountsOnList DEF Total
  <1> QED BY <1>1, SizesStaySound, BufferInvariant, PTL

\* MaybePrune() at the end of Log() never prunes the entry that was just logged.
THEOREM NewEntriesSurvive == Spec => NewEntrySurvives
  <1> DEFINE Survives == \A w \in DOMAIN pending : \A i \in LogIds :
                            (w \notin DOMAIN pending' /\ i = pending[w].log_id) =>
                               pending[w].entry \in EntriesOf(i)'
  <1>1. ASSUME BufferInv, SizeInv, [Next]_vars PROVE [Survives]_vars
    <2>1. Parts /\ ChunkInv /\ IsHeap(chunk')
      <3>1. IInv'
        BY <1>1, NextIInv DEF BufferInv
      <3> QED BY <1>1, <3>1, PartsOfIInv DEF BufferInv, IInv, TypeOK, IsHeap
    <2>2. CASE DOMAIN pending \subseteq DOMAIN pending'
      BY <2>2
    <2>3. ASSUME NEW w \in Writers, Log(w) PROVE Survives
      <3>1. /\ \A i \in LogIds : i = pending[w].log_id => pending[w].entry \in EntriesOf(i)'
            /\ DOMAIN pending' = (DOMAIN pending) \ {w}
        <4>1. pending' = [v \in (DOMAIN pending) \ {w} |-> pending[v]]
          BY <2>3, Zenon DEF Log
        <4> QED BY <1>1, <2>1, <2>3, <4>1, LogIsMeasured
      <3> QED BY <3>1
    <2>4. ASSUME NEW r \in Readers, StepOf(r) PROVE pending' = pending
      BY <2>1, <2>4, StepEffect DEF Frame
    <2>5. ASSUME BufferNext, ~(\E w \in Writers : Log(w))
          PROVE  DOMAIN pending \subseteq DOMAIN pending'
      <3>1. ASSUME NEW w \in Writers, TakeSequence(w) PROVE DOMAIN pending \subseteq DOMAIN pending'
        <4>1. DOMAIN pending' = (DOMAIN pending) \cup {w}
          BY <3>1 DEF TakeSequence
        <4> QED BY <4>1
      <3>2. CASE ClearEntry
        BY <3>2, Zenon DEF ClearEntry
      <3>3. CASE ClearSpliceChunk \/ ClearOpenChunk \/ ClearEraseChunk \/ ClearSwap
        BY <3>3 DEF ClearSpliceChunk, ClearOpenChunk, ClearEraseChunk, ClearSwap
      <3>4. ASSUME NEW i \in LogIds, NEW size \in Sizes, SetSize(i, size) PROVE pending' = pending
        BY <3>4, Zenon DEF SetSize
      <3>5. ASSUME NEW i \in LogIds, ClearAll(i) PROVE pending' = pending
        BY <3>5 DEF ClearAll
      <3>6. ASSUME NEW i \in LogIds, NEW uid, UidClear(i, uid) PROVE pending' = pending
        BY <3>6 DEF UidClear
      <3>7. CASE ReinitTrigger
        BY <3>7 DEF ReinitTrigger
      <3> QED BY <2>5, <3>1, <3>2, <3>3, <3>4, <3>5, <3>6, <3>7 DEF BufferNext, ClearStep
    <2>6. CASE UNCHANGED vars
      BY <2>6
    <2> QED BY <1>1, <2>2, <2>3, <2>4, <2>5, <2>6 DEF Next, StepOf
  <1> HIDE DEF Survives
  <1>2. NewEntrySurvives <=> [][Survives]_vars
    BY DEF NewEntrySurvives, Survives
  <1> QED BY <1>1, <1>2, SizesStaySound, BufferInvariant, PTL DEF Spec
=============================================================================
